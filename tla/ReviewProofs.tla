------------------------------ MODULE ReviewProofs ------------------------------
(***************************************************************************)
(* Proofs about the stores of the review service, for any number of calls   *)
(* on a document, attempts and failures: the lock of PostgreSQL, what of    *)
(* the calls is in the document, and that they have one serial order.       *)
(***************************************************************************)
EXTENDS ReviewService, Naturals, Sequences, FiniteSets, Functions, TLAPS

-----------------------------------------------------------------------------
\* ReviewTxn.

Types ==
  /\ backend \in {"memory", "firestore", "postgres"} /\ op \in {"mutate", "seen"}
  /\ doc \in Seq(Client) /\ out \in [Client -> Seq(Client)]
  /\ tx \in [Client -> [pc : {"start", "read", "write", "commit", "ok", "error"},
                        read : Seq(Client), tries : Nat]]

\* In PostgreSQL the call between its lock and its commit is the only one, and the
\* document it has read is still the committed one.
LockInv ==
  backend = "postgres" =>
    \A c \in Client :
      /\ tx[c].pc \in {"read", "write", "commit"} => lock = {c}
      /\ tx[c].pc \in {"write", "commit"} => tx[c].read = doc

Begins(s, t) == Len(s) <= Len(t) /\ \A i \in 1 .. Len(s) : s[i] = t[i]
In(c, s) == \E i \in 1 .. Len(s) : s[i] = c
Distinct(s) == \A i, j \in 1 .. Len(s) : s[i] = s[j] => i = j

\* Only calls that have ended are in the document, each once; what a call returned
\* is where the document begins.
DocInv ==
  /\ Distinct(doc)
  /\ op = "seen" => Len(doc) <= 1
  /\ \A c \in Client : ~T!Done(c) => ~In(c, doc)
  /\ \A c \in Client : tx[c].pc = "ok" =>
       out[c] # <<>> /\ Begins(out[c], doc) /\ (op = "mutate" => In(c, doc))

TxnInv == Types /\ LockInv /\ DocInv

-----------------------------------------------------------------------------
(***************************************************************************)
(* The document that a call makes of the one it read.                      *)
(***************************************************************************)
\* A sequence with one more element.
LEMMA AppendFacts ==
  ASSUME NEW S, NEW q \in Seq(S), NEW e \in S
  PROVE  /\ Append(q, e) \in Seq(S) /\ Append(q, e) # <<>> /\ Len(Append(q, e)) = Len(q) + 1
         /\ (\A i \in 1 .. Len(q) : Append(q, e)[i] = q[i]) /\ Append(q, e)[Len(q) + 1] = e
  OBVIOUS

\* It goes on from it, holds nothing twice, and nothing new but the call.
LEMMA AfterExtends ==
  ASSUME NEW c \in Client, NEW d \in Seq(Client), Distinct(d), ~In(c, d),
         op \in {"mutate", "seen"}, op = "seen" => Len(d) <= 1
  PROVE  /\ T!After(c, d) \in Seq(Client) /\ T!After(c, d) # <<>>
         /\ Begins(d, T!After(c, d)) /\ Distinct(T!After(c, d))
         /\ op = "mutate" => In(c, T!After(c, d))
         /\ op = "seen" => Len(T!After(c, d)) <= 1
         /\ \A b \in Client : In(b, T!After(c, d)) => b = c \/ In(b, d)
<1> DEFINE e == Append(d, c)
<1>1. /\ e \in Seq(Client) /\ e # <<>> /\ Len(e) = Len(d) + 1 /\ Len(d) \in Nat
      /\ (\A i \in 1 .. Len(d) : e[i] = d[i]) /\ e[Len(d) + 1] = c
  BY AppendFacts
<1>2. CASE op = "seen" /\ d # <<>>
  BY <1>2 DEF T!After, Begins, In
<1>3. CASE ~(op = "seen" /\ d # <<>>)
  <2>1. T!After(c, d) = e
    BY <1>3, Zenon DEF T!After
  <2> HIDE DEF e
  <2>2. \A i \in 1 .. Len(e) : i \in 1 .. Len(d) \/ i = Len(d) + 1
    BY <1>1
  <2>3. Begins(d, e) /\ In(c, e)
    BY <1>1 DEF Begins, In
  <2>4. \A b \in Client : In(b, e) => b = c \/ In(b, d)
    BY <1>1, <2>2, Zenon DEF In
  <2>5. Distinct(e)
    BY <1>1, <2>2, Zenon DEF Distinct, In
  <2>6. op = "seen" => Len(e) <= 1
    BY <1>1, <1>3
  <2> QED
    BY <1>1, <2>1, <2>3, <2>4, <2>5, <2>6, Zenon
<1> QED
  BY <1>2, <1>3, Zenon

\* What begins a document begins the one after it.
LEMMA BeginsTransitive ==
  ASSUME NEW s \in Seq(Client), NEW t \in Seq(Client), NEW u \in Seq(Client),
         Begins(s, t), Begins(t, u)
  PROVE  Begins(s, u)
<1>1. Len(s) \in Nat /\ Len(t) \in Nat /\ Len(u) \in Nat
  OBVIOUS
<1> QED
  BY <1>1 DEF Begins
-----------------------------------------------------------------------------
(***************************************************************************)
(* Two kinds of steps: one that commits, and one that writes nothing.       *)
(***************************************************************************)
Commit(c) ==
  /\ c \in Client /\ ~T!Done(c) /\ op' = op /\ doc' = T!After(c, doc)
  /\ \/ tx' = [tx EXCEPT ![c].pc = "ok"] /\ out' = [out EXCEPT ![c] = doc']
     \/ tx' = [tx EXCEPT ![c].pc = "error"] /\ out' = out

NoCommit ==
  /\ op' = op /\ doc' = doc /\ out' = out
  /\ \A c \in Client : /\ tx'[c].pc = "ok" => tx[c].pc = "ok"
                       /\ tx[c].pc \in {"ok", "error"} => tx'[c].pc \in {"ok", "error"}

\* A call that commits on top of the committed document keeps the history.
LEMMA CommitKeeps == ASSUME TxnInv, NEW c \in Client, Commit(c) PROVE DocInv'
<1>1. /\ doc \in Seq(Client) /\ Distinct(doc) /\ ~In(c, doc) /\ op \in {"mutate", "seen"}
      /\ op = "seen" => Len(doc) <= 1
  BY Zenon DEF TxnInv, Types, DocInv, Commit
<1>2. /\ doc' \in Seq(Client) /\ doc' # <<>>
      /\ Begins(doc, doc') /\ Distinct(doc')
      /\ op = "mutate" => In(c, doc')
      /\ op = "seen" => Len(doc') <= 1
      /\ \A b \in Client : In(b, doc') => b = c \/ In(b, doc)
  BY <1>1, AfterExtends, Zenon DEF Commit
<1>3. T!Done(c)' /\ \A b \in Client \ {c} : tx'[b] = tx[b] /\ out'[b] = out[b]
  BY DEF Commit, TxnInv, Types, T!Done
<1>4. ASSUME NEW b \in Client, ~T!Done(b)' PROVE ~In(b, doc')
  BY <1>2, <1>3, <1>4, Zenon DEF TxnInv, DocInv, T!Done
<1>5. ASSUME NEW b \in Client, tx'[b].pc = "ok"
      PROVE  out'[b] # <<>> /\ Begins(out'[b], doc') /\ (op = "mutate" => In(b, doc'))
  <2>1. CASE b = c
    <3>1. out'[c] = doc'
      BY <1>5, <2>1, Zenon DEF Commit, TxnInv, Types
    <3> QED
      BY <1>2, <2>1, <3>1 DEF Begins
  <2>2. CASE b # c
    <3>1. /\ out'[b] = out[b] /\ out[b] \in Seq(Client) /\ out[b] # <<>>
          /\ Begins(out[b], doc) /\ (op = "mutate" => In(b, doc))
      BY <1>3, <1>5, <2>2, Zenon DEF TxnInv, Types, DocInv
    <3>2. Begins(out[b], doc')
      BY <1>1, <1>2, <3>1, BeginsTransitive, Zenon
    <3>3. In(b, doc) => In(b, doc')
      <4>1. Len(doc) \in Nat /\ Len(doc') \in Nat
        BY <1>1, <1>2
      <4> QED
        BY <1>2, <4>1 DEF In, Begins
    <3> QED
      BY <3>1, <3>2, <3>3, Zenon
  <2> QED
    BY <2>1, <2>2, Zenon
<1>6. op' = op
  BY Zenon DEF Commit
<1>7. Distinct(doc)' /\ (op = "seen" => Len(doc) <= 1)'
  BY <1>2, <1>6, Zenon DEF Distinct
<1>8. (\A b \in Client : ~T!Done(b) => ~In(b, doc))'
  BY <1>4, Zenon DEF In
<1>9. (\A b \in Client : tx[b].pc = "ok" =>
         out[b] # <<>> /\ Begins(out[b], doc) /\ (op = "mutate" => In(b, doc)))'
  BY <1>5, <1>6, Zenon DEF In, Begins
<1> QED
  BY <1>7, <1>8, <1>9, Zenon DEF DocInv

\* A step that commits nothing and ends no call with success keeps it too.
LEMMA NoCommitKeeps == TxnInv /\ NoCommit => DocInv'
BY DEF TxnInv, DocInv, NoCommit, T!Done, Distinct, In, Begins
-----------------------------------------------------------------------------
(***************************************************************************)
(* The actions.                                                            *)
(***************************************************************************)
\* The document that Firestore accepts, and the one PostgreSQL's lock guards, is the
\* committed one: every write is a commit on top of it.
LEMMA WritesCommit ==
  ASSUME TxnInv, NEW c \in Client,
         T!MemoryCall(c) \/ T!FirestoreCommit(c) \/ T!PostgresCommit(c) \/ T!AnswerLost(c)
  PROVE  Commit(c) \/ NoCommit
<1> USE DEF T!Goto, T!At, T!Returns, T!Keep
<1>1. CASE T!MemoryCall(c)
  BY <1>1, Zenon DEF T!MemoryCall, Commit, T!Done
<1>2. CASE T!FirestoreCommit(c)
  <2>1. CASE T!Commits(c) /\ doc' = T!After(c, tx[c].read) /\ T!Returns(c) /\ T!Goto(c, "ok")
    BY <1>2, <2>1, Zenon DEF T!FirestoreCommit, T!Commits, Commit, T!Done
  <2>2. CASE T!Goto(c, "start") /\ UNCHANGED <<doc, out>>
    BY <1>2, <2>2, Zenon DEF T!FirestoreCommit, NoCommit, TxnInv, Types
  <2>3. CASE T!Goto(c, "error") /\ UNCHANGED <<doc, out>>
    BY <1>2, <2>3, Zenon DEF T!FirestoreCommit, NoCommit, TxnInv, Types
  <2> QED
    BY <1>2, <2>1, <2>2, <2>3, Zenon DEF T!FirestoreCommit
<1>3. CASE T!PostgresCommit(c)
  <2>1. tx[c].read = doc
    BY <1>3, Zenon DEF T!PostgresCommit, TxnInv, LockInv
  <2> QED
    BY <1>3, <2>1, Zenon DEF T!PostgresCommit, Commit, T!Done
<1>4. CASE T!AnswerLost(c)
  <2>1. tx[c].read = doc
    BY <1>4, Zenon DEF T!AnswerLost, T!Commits, TxnInv, Types, LockInv
  <2> QED
    BY <1>4, <2>1, Zenon DEF T!AnswerLost, Commit, T!Done
<1> QED
  BY <1>1, <1>2, <1>3, <1>4, Zenon

\* The other steps write nothing.
LEMMA OthersCommitNothing ==
  ASSUME TxnInv, NEW c \in Client,
         T!FirestoreGet(c) \/ T!LockKey(c) \/ T!GetJob(c) \/ T!UpsertJob(c) \/ T!Rollback(c)
  PROVE  NoCommit
<1> USE DEF NoCommit, TxnInv, Types, T!Goto, T!At, T!Keep
<1>1. CASE T!FirestoreGet(c)
  BY <1>1, Zenon DEF T!FirestoreGet
<1>2. CASE T!LockKey(c)
  BY <1>2, Zenon DEF T!LockKey
<1>3. CASE T!GetJob(c)
  BY <1>3, Zenon DEF T!GetJob
<1>4. CASE T!UpsertJob(c)
  BY <1>4, Zenon DEF T!UpsertJob
<1>5. CASE T!Rollback(c)
  BY <1>5, Zenon DEF T!Rollback
<1> QED
  BY <1>1, <1>2, <1>3, <1>4, <1>5, Zenon

\* Every step keeps the history.
LEMMA DocNext == TxnInv /\ [T!Next]_T!vars => DocInv'
<1> SUFFICES ASSUME TxnInv, [T!Next]_T!vars PROVE DocInv'
  BY Zenon
<1>1. ASSUME NEW c \in Client, T!Step(c) \/ T!Rollback(c) \/ T!AnswerLost(c) PROVE DocInv'
  BY <1>1, WritesCommit, OthersCommitNothing, CommitKeeps, NoCommitKeeps, Zenon DEF T!Step
<1>2. CASE UNCHANGED T!vars
  BY <1>2, NoCommitKeeps, Zenon DEF T!vars, NoCommit
<1> QED
  BY <1>1, <1>2, Zenon DEF T!Next

\* Every step keeps the types.
LEMMA TypesNext == TxnInv /\ [T!Next]_T!vars => Types'
<1> SUFFICES ASSUME TxnInv, [T!Next]_T!vars PROVE Types'
  BY Zenon
<1> USE DEF Types, T!Goto, T!At, T!Returns, T!Keep
<1>0. ASSUME NEW c \in Client, NEW d \in Seq(Client) PROVE T!After(c, d) \in Seq(Client)
  BY AppendFacts, Zenon DEF T!After
<1>1. ASSUME NEW c \in Client, T!MemoryCall(c) PROVE Types'
  BY <1>0, <1>1, Zenon DEF TxnInv, T!MemoryCall
<1>2. ASSUME NEW c \in Client, T!FirestoreGet(c) PROVE Types'
  BY <1>2 DEF TxnInv, T!FirestoreGet
<1>3. ASSUME NEW c \in Client, T!FirestoreCommit(c) PROVE Types'
  <2>1. tx[c].read \in Seq(Client) /\ T!After(c, tx[c].read) \in Seq(Client)
    BY <1>0, Zenon DEF TxnInv
  <2>2. tx' \in [Client -> [pc : {"start", "read", "write", "commit", "ok", "error"},
                           read : Seq(Client), tries : Nat]]
    <3>1. PICK x \in {"start", "ok", "error"} : tx' = [tx EXCEPT ![c].pc = x]
      BY <1>3, Zenon DEF T!FirestoreCommit
    <3> QED
      BY <3>1, Zenon DEF TxnInv
  <2>3. doc' \in Seq(Client) /\ out' \in [Client -> Seq(Client)]
    BY <1>3, <2>1, Zenon DEF TxnInv, T!FirestoreCommit
  <2> QED
    BY <1>3, <2>2, <2>3, Zenon DEF TxnInv, T!FirestoreCommit
<1>4. ASSUME NEW c \in Client, T!LockKey(c) \/ T!GetJob(c) \/ T!UpsertJob(c) PROVE Types'
  <2>1. CASE T!LockKey(c)
    BY <2>1, Zenon DEF TxnInv, T!LockKey
  <2>2. CASE T!GetJob(c)
    BY <2>2, Zenon DEF TxnInv, T!GetJob
  <2>3. CASE T!UpsertJob(c)
    BY <2>3, Zenon DEF TxnInv, T!UpsertJob
  <2> QED
    BY <1>4, <2>1, <2>2, <2>3, Zenon
<1>5. ASSUME NEW c \in Client, T!PostgresCommit(c) PROVE Types'
  BY <1>0, <1>5, Zenon DEF TxnInv, T!PostgresCommit
<1>6. ASSUME NEW c \in Client, T!Rollback(c) PROVE Types'
  BY <1>6, Zenon DEF TxnInv, T!Rollback
<1>7. ASSUME NEW c \in Client, T!AnswerLost(c) PROVE Types'
  BY <1>0, <1>7, Zenon DEF TxnInv, T!AnswerLost
<1>8. CASE UNCHANGED T!vars
  BY <1>8, Zenon DEF TxnInv, T!vars
<1> QED
  BY <1>1, <1>2, <1>3, <1>4, <1>5, <1>6, <1>7, <1>8, Zenon DEF T!Next, T!Step

\* Every step keeps the advisory lock exclusive and what its holder read current.
LEMMA LockNext == TxnInv /\ [T!Next]_T!vars => LockInv'
<1> SUFFICES ASSUME TxnInv, [T!Next]_T!vars, backend = "postgres" PROVE LockInv'
  BY Zenon
  DEF LockInv, T!Next, T!Step, T!vars, T!MemoryCall, T!FirestoreGet, T!FirestoreCommit, T!LockKey, T!GetJob,
         T!UpsertJob, T!PostgresCommit, T!Rollback, T!AnswerLost, T!Keep
<1> USE DEF TxnInv, Types, LockInv, T!Goto, T!At, T!Keep
<1>1. ASSUME NEW c \in Client, T!LockKey(c) PROVE LockInv'
  BY <1>1, Zenon DEF T!LockKey
<1>2. ASSUME NEW c \in Client, T!GetJob(c) PROVE LockInv'
  BY <1>2 DEF T!GetJob
<1>3. ASSUME NEW c \in Client, T!UpsertJob(c) PROVE LockInv'
  BY <1>3, Zenon DEF T!UpsertJob
<1>4. ASSUME NEW c \in Client, T!PostgresCommit(c) PROVE LockInv'
  BY <1>4, Zenon DEF T!PostgresCommit
<1>5. ASSUME NEW c \in Client, T!Rollback(c) PROVE LockInv'
  BY <1>5, Zenon DEF T!Rollback
<1>6. ASSUME NEW c \in Client, T!AnswerLost(c) PROVE LockInv'
  BY <1>6, Zenon DEF T!AnswerLost
<1>7. CASE UNCHANGED T!vars
  BY <1>7, Zenon DEF T!vars
<1>8. ASSUME NEW c \in Client PROVE ~(T!MemoryCall(c) \/ T!FirestoreGet(c) \/ T!FirestoreCommit(c))
  BY Zenon DEF T!MemoryCall, T!FirestoreGet, T!FirestoreCommit
<1> QED
  BY <1>1, <1>2, <1>3, <1>4, <1>5, <1>6, <1>7, <1>8, Zenon DEF T!Next, T!Step

\* The inductive invariant holds at all times.
THEOREM TxnInvariant == T!Spec => []TxnInv
<1>1. T!Init => TxnInv
  <2> SUFFICES ASSUME T!Init PROVE TxnInv
    BY Zenon
  <2>1. \A S : <<>> \in Seq(S) /\ Len(<<>>) = 0
    OBVIOUS
  <2>2. Types
    BY <2>1, Zenon DEF T!Init, T!Start, Types
  <2>3. LockInv
    BY Zenon DEF T!Init, T!Start, LockInv
  <2>4. DocInv
    BY <2>1 DEF T!Init, T!Start, DocInv, Distinct, In
  <2> QED
    BY <2>2, <2>3, <2>4, Zenon DEF TxnInv
<1>2. TxnInv /\ [T!Next]_T!vars => TxnInv'
  BY TypesNext, LockNext, DocNext, Zenon DEF TxnInv
<1> QED
  BY <1>1, <1>2, PTL DEF T!Spec

\* On each of the three stores the calls that returned nil are serialised: each had the
\* document that it returned, and no later commit lost its write.
THEOREM SerializableCorrect == T!Spec => []T!Serializable
<1>1. TxnInv => T!Serializable
  <2> SUFFICES ASSUME TxnInv, NEW c \in Client, tx[c].pc = "ok"
               PROVE  /\ out[c] # <<>> /\ Len(out[c]) <= Len(doc)
                      /\ out[c] = SubSeq(doc, 1, Len(out[c]))
    BY Zenon DEF T!Serializable
  <2>1. /\ out[c] # <<>> /\ out[c] \in Seq(Client) /\ doc \in Seq(Client)
        /\ Len(out[c]) <= Len(doc) /\ \A i \in 1 .. Len(out[c]) : out[c][i] = doc[i]
    BY Zenon DEF TxnInv, Types, DocInv, Begins
  <2> QED
    BY <2>1
<1> QED
  BY <1>1, TxnInvariant, PTL

\* No write is applied twice, however often RunTransaction repeats its closure, and a
\* Mutate that returned nil is in the document.
THEOREM AppliedOnceCorrect == T!Spec => []T!AppliedOnce
<1>1. TxnInv => T!AppliedOnce
  <2> SUFFICES ASSUME TxnInv PROVE T!AppliedOnce
    BY Zenon
  <2>1. DOMAIN doc = 1 .. Len(doc)
    BY DEF TxnInv, Types
  <2>2. T!IsInjective(doc)
    BY <2>1, Zenon DEF TxnInv, DocInv, Distinct, T!IsInjective
  <2>3. op = "mutate" => \A c \in Client : tx[c].pc = "ok" => c \in T!Range(doc)
    BY <2>1, Zenon DEF TxnInv, DocInv, In, T!Range
  <2> QED
    BY <2>2, <2>3, Zenon DEF T!AppliedOnce
<1> QED
  BY <1>1, TxnInvariant, PTL

INSTANCE FiniteSetTheorems

\* Seen tells one delivery at most that it is the first.
THEOREM SeenOnceCorrect == T!Spec => []T!SeenOnce
<1>1. TxnInv => T!SeenOnce
  <2> DEFINE F == {c \in Client : tx[c].pc = "ok" /\ out[c][Len(out[c])] = c}
  <2> SUFFICES ASSUME TxnInv, op = "seen" PROVE Cardinality(F) <= 1
    BY Zenon DEF T!SeenOnce, T!Cardinality, Cardinality
  <2>1. F \subseteq {doc[1]}
    <3> SUFFICES ASSUME NEW c \in F PROVE c = doc[1]
      BY Zenon
    <3>1. /\ out[c] \in Seq(Client) /\ out[c] # <<>> /\ Begins(out[c], doc) /\ Len(doc) <= 1
          /\ out[c][Len(out[c])] = c /\ doc \in Seq(Client)
      BY Zenon DEF TxnInv, Types, DocInv
    <3>2. Len(out[c]) \in Nat /\ Len(out[c]) > 0 /\ Len(doc) \in Nat /\ Len(out[c]) <= Len(doc)
      BY <3>1 DEF Begins
    <3>3. Len(out[c]) = 1
      <4> DEFINE n == Len(out[c])
                 m == Len(doc)
      <4>1. n \in Nat /\ n > 0 /\ m \in Nat /\ n <= m /\ m <= 1
        BY <3>1, <3>2, Zenon
      <4> HIDE DEF n, m
      <4>2. n = 1
        BY <4>1
      <4> QED
        BY <4>2, Zenon DEF n
    <3> QED
      BY <3>1, <3>3 DEF Begins
  <2>2. IsFiniteSet({doc[1]}) /\ Cardinality({doc[1]}) = 1
    BY FS_Singleton, Zenon
  <2> QED
    BY <2>1, <2>2, FS_Subset, Zenon
<1> QED
  BY <1>1, TxnInvariant, PTL

-----------------------------------------------------------------------------
(***************************************************************************)
(* The bounds: one holder of the advisory lock, and attempts and errors     *)
(* within their limits, when there is an attempt at all.                    *)
(***************************************************************************)
BoundsInv ==
  /\ lock \subseteq Client /\ \A c, d \in lock : c = d
  /\ \A c \in Client : /\ tx[c].tries <= MaxAttempts
                       /\ tx[c].pc = "start" => tx[c].tries < MaxAttempts
  /\ errors \in 0 .. MaxErrors

\* A step that begins no attempt and adds no holder of the lock.
LEMMA BoundsKept ==
  ASSUME TxnInv, BoundsInv, NEW c \in Client, NEW x \in {"read", "write", "commit", "ok", "error"},
         \/ tx' = [tx EXCEPT ![c].pc = x]
         \/ tx' = [tx EXCEPT ![c] = [@ EXCEPT !.pc = x, !.read = doc]],
         lock' \subseteq lock \/ lock' = {c}, errors' \in 0 .. MaxErrors
  PROVE  BoundsInv'
<1>0. tx[c] \in [pc : {"start", "read", "write", "commit", "ok", "error"},
                 read : Seq(Client), tries : Nat]
  BY Zenon DEF TxnInv, Types
<1>1. \A d \in Client : tx'[d].tries = tx[d].tries /\ tx'[d].pc \in {tx[d].pc, x}
  <2>1. CASE tx' = [tx EXCEPT ![c].pc = x]
    BY <1>0, <2>1, Zenon DEF TxnInv, Types
  <2>2. CASE tx' = [tx EXCEPT ![c] = [@ EXCEPT !.pc = x, !.read = doc]]
    BY <1>0, <2>2, Zenon DEF TxnInv, Types
  <2> QED
    BY <2>1, <2>2, Zenon
<1>2. \A d \in Client : tx'[d].tries <= MaxAttempts
  BY <1>1, Zenon DEF BoundsInv
<1>3. \A d \in Client : tx'[d].pc = "start" => tx'[d].tries < MaxAttempts
  BY <1>1, Zenon DEF BoundsInv
<1>4. lock' \subseteq Client /\ \A a, b \in lock' : a = b
  BY Zenon DEF BoundsInv
<1> QED
  BY <1>2, <1>3, <1>4, Zenon DEF BoundsInv

\* Every step keeps the bounds.
LEMMA BoundsNext ==
  ASSUME MaxAttempts \in Nat \ {0}, MaxErrors \in Nat
  PROVE  TxnInv /\ BoundsInv /\ [T!Next]_T!vars => BoundsInv'
<1> SUFFICES ASSUME TxnInv, BoundsInv, [T!Next]_T!vars PROVE BoundsInv'
  BY Zenon
<1> USE DEF T!At, T!Goto
<1>1. ASSUME NEW c \in Client, T!MemoryCall(c) PROVE BoundsInv'
  BY <1>1, BoundsKept, Zenon DEF T!MemoryCall, BoundsInv
<1>2. ASSUME NEW c \in Client, T!FirestoreGet(c) PROVE BoundsInv'
  <2>1. /\ \A d \in Client \ {c} : tx'[d] = tx[d]
        /\ tx'[c].tries = tx[c].tries + 1 /\ tx'[c].pc = "commit"
        /\ tx[c].tries < MaxAttempts /\ tx[c].tries \in Nat
        /\ lock' = lock /\ errors' = errors
    BY <1>2, Zenon DEF T!FirestoreGet, TxnInv, Types, BoundsInv
  <2>2. tx'[c].tries <= MaxAttempts
    BY <2>1
  <2> QED
    BY <2>1, <2>2, Zenon DEF BoundsInv
<1>3. ASSUME NEW c \in Client, T!FirestoreCommit(c) PROVE BoundsInv'
  <2>1. CASE tx[c].tries < MaxAttempts /\ tx' = [tx EXCEPT ![c].pc = "start"]
    <3>1. \A d \in Client : /\ tx'[d].tries = tx[d].tries
                            /\ d # c => tx'[d].pc = tx[d].pc
      BY <2>1, Zenon DEF TxnInv, Types
    <3>2. lock' = lock /\ errors' = errors
      BY <1>3, Zenon DEF T!FirestoreCommit
    <3> QED
      BY <2>1, <3>1, <3>2, Zenon DEF BoundsInv
  <2>2. CASE \E x \in {"ok", "error"} : tx' = [tx EXCEPT ![c].pc = x]
    BY <1>3, <2>2, BoundsKept, Zenon DEF T!FirestoreCommit, BoundsInv
  <2> QED
    BY <1>3, <2>1, <2>2, Zenon DEF T!FirestoreCommit
<1>4. ASSUME NEW c \in Client, T!LockKey(c) \/ T!GetJob(c) \/ T!UpsertJob(c) \/ T!PostgresCommit(c)
      PROVE  BoundsInv'
  <2>1. /\ lock' \subseteq lock \/ lock' = {c}
        /\ errors' \in 0 .. MaxErrors
    BY <1>4, Zenon DEF T!LockKey, T!GetJob, T!UpsertJob, T!PostgresCommit, BoundsInv
  <2>2. \E x \in {"read", "write", "commit", "ok"} :
          \/ tx' = [tx EXCEPT ![c].pc = x]
          \/ tx' = [tx EXCEPT ![c] = [@ EXCEPT !.pc = x, !.read = doc]]
    BY <1>4, Zenon DEF T!LockKey, T!GetJob, T!UpsertJob, T!PostgresCommit
  <2> QED
    BY <2>1, <2>2, BoundsKept, Zenon
<1>5. ASSUME NEW c \in Client, T!Rollback(c) \/ T!AnswerLost(c) PROVE BoundsInv'
  <2>1. /\ tx' = [tx EXCEPT ![c].pc = "error"] /\ lock' \subseteq lock
        /\ errors < MaxErrors /\ errors' = errors + 1
    BY <1>5, Zenon DEF T!Rollback, T!AnswerLost
  <2>2. errors' \in 0 .. MaxErrors
    BY <2>1 DEF BoundsInv
  <2> QED
    BY <2>1, <2>2, BoundsKept, Zenon
<1>6. CASE UNCHANGED T!vars
  BY <1>6, Zenon DEF T!vars, BoundsInv
<1> QED
  BY <1>1, <1>2, <1>3, <1>4, <1>5, <1>6, Zenon DEF T!Next, T!Step

\* On each of the three stores concurrent calls have one serial order in which no write is
\* lost or applied twice and one delivery is the first, and the calls stay within their
\* attempts, for any number of attempts and failures.
THEOREM StoresSerialiseCorrect ==
  ASSUME MaxAttempts \in Nat \ {0}, MaxErrors \in Nat
  PROVE  T!Spec => []StoresSerialise
<1>1. T!Init => BoundsInv
  BY DEF T!Init, T!Start, BoundsInv
<1>2. TxnInv /\ BoundsInv => T!TxnTypeOK
  <2> SUFFICES ASSUME TxnInv, BoundsInv PROVE T!TxnTypeOK
    BY Zenon
  <2>1. Cardinality(lock) <= 1
    <3>1. CASE lock = {}
      BY <3>1, FS_EmptySet
    <3>2. CASE lock # {}
      <4>1. PICK c : lock = {c}
        BY <3>2 DEF BoundsInv
      <4> QED
        BY <4>1, FS_Singleton
    <3> QED
      BY <3>1, <3>2, Zenon
  <2>2. \A c \in Client : tx[c].tries \in 0 .. MaxAttempts
    BY DEF TxnInv, Types, BoundsInv
  <2> QED
    BY <2>1, <2>2, Zenon DEF TxnInv, Types, BoundsInv, T!TxnTypeOK, T!Cardinality, Cardinality
<1>3. T!TxnTypeOK /\ T!Serializable /\ T!AppliedOnce /\ T!SeenOnce => StoresSerialise
  BY Zenon DEF StoresSerialise, T!StoresSerialise
<1>4. TxnInv /\ BoundsInv /\ [T!Next]_T!vars => BoundsInv'
  BY BoundsNext, Zenon
<1> QED
  BY <1>1, <1>2, <1>3, <1>4, TxnInvariant, SerializableCorrect, AppliedOnceCorrect, SeenOnceCorrect, PTL
  DEF T!Spec
===============================================================================
