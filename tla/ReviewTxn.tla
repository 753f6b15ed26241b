------------------------------- MODULE ReviewTxn -------------------------------
(***************************************************************************)
(* The read-modify-write calls of the three stores (services/prreview/     *)
(* store: memory.go, firestore.go, postgres.go) on one document: Mutate,   *)
(* which ReviewWorker takes as one step, and Seen, which ReviewIntake      *)
(* does.  A document is the sequence of the calls whose write it holds, so *)
(* that a lost update is an element that is missing.                       *)
(*                                                                         *)
(* Firestore and PostgreSQL are modelled from how they are used: Firestore *)
(* refuses to commit when the document has changed since the read, and     *)
(* RunTransaction then runs the closure again, MaxAttempts times; under    *)
(* READ COMMITTED a PostgreSQL statement sees what is committed, and the   *)
(* second writer of one row waits for the first; both may lose the answer  *)
(* to a commit.                                                            *)
(***************************************************************************)
EXTENDS Naturals, Sequences, FiniteSets, Functions

CONSTANTS
  Client,       \* concurrent calls on one document
  MaxAttempts,  \* bound: RunTransaction's attempts
  MaxErrors     \* bound: statements that fail

VARIABLES
  backend,  \* "memory", "firestore" or "postgres"
  op,       \* the call they make: "mutate" or "seen"
  doc,      \* the committed document
  lock,     \* the advisory lock's holders: at most one
  tx,       \* per call: step, document read, attempts
  out,      \* per call: what it returned, <<>> before it returns
  errors

vars == <<backend, op, doc, lock, tx, out, errors>>

Start == [pc |-> "start", read |-> <<>>, tries |-> 0]

TxnTypeOK ==
  /\ backend \in {"memory", "firestore", "postgres"} /\ op \in {"mutate", "seen"}
  /\ doc \in Seq(Client) /\ lock \subseteq Client /\ Cardinality(lock) <= 1
  /\ \A c \in Client : /\ tx[c].pc \in {"start", "read", "write", "commit", "ok", "error"}
                       /\ tx[c].read \in Seq(Client) /\ tx[c].tries \in 0..MaxAttempts
                       /\ out[c] \in Seq(Client)
  /\ errors \in 0..MaxErrors

Init ==
  /\ backend \in {"memory", "firestore", "postgres"} /\ op \in {"mutate", "seen"}
  /\ doc = <<>> /\ lock = {} /\ tx = [c \in Client |-> Start]
  /\ out = [c \in Client |-> <<>>] /\ errors = 0

At(c, b, step) == backend = b /\ tx[c].pc = step
Goto(c, step) == tx' = [tx EXCEPT ![c].pc = step]

\* The document after the call: Mutate always writes, Seen only what is not there.
After(c, read) == IF op = "seen" /\ read # <<>> THEN read ELSE Append(read, c)

\* The call returns what it made of the document it read.
Returns(c) == out' = [out EXCEPT ![c] = After(c, tx[c].read)]

Keep == UNCHANGED <<backend, op>>

-----------------------------------------------------------------------------
MemoryCall(c) ==
  /\ At(c, "memory", "start")
  /\ doc' = After(c, doc) /\ out' = [out EXCEPT ![c] = doc'] /\ Goto(c, "ok")
  /\ UNCHANGED <<lock, errors>> /\ Keep

FirestoreGet(c) ==
  /\ At(c, "firestore", "start")
  /\ tx' = [tx EXCEPT ![c] = [pc |-> "commit", read |-> doc, tries |-> @.tries + 1]]
  /\ UNCHANGED <<doc, lock, out, errors>> /\ Keep

\* Mutant: commits over whatever is there.
CommitsBlindly(c) == TRUE

Commits(c) == doc = tx[c].read

FirestoreCommit(c) ==
  /\ At(c, "firestore", "commit")
  /\ \/ Commits(c) /\ doc' = After(c, tx[c].read) /\ Returns(c) /\ Goto(c, "ok")
     \/ ~Commits(c) /\ tx[c].tries < MaxAttempts /\ Goto(c, "start") /\ UNCHANGED <<doc, out>>
     \/ ~Commits(c) /\ tx[c].tries = MaxAttempts /\ Goto(c, "error") /\ UNCHANGED <<doc, out>>
  /\ UNCHANGED <<lock, errors>> /\ Keep

-----------------------------------------------------------------------------
LockKey(c) ==
  /\ At(c, "postgres", "start") /\ lock = {}
  /\ lock' = {c} /\ Goto(c, "read")
  /\ UNCHANGED <<doc, out, errors>> /\ Keep

GetJob(c) ==
  /\ At(c, "postgres", "read")
  /\ tx' = [tx EXCEPT ![c] = [@ EXCEPT !.pc = "write", !.read = doc]]
  /\ UNCHANGED <<doc, lock, out, errors>> /\ Keep

\* The statement's effect is seen at the commit.
UpsertJob(c) ==
  /\ At(c, "postgres", "write") /\ Goto(c, "commit")
  /\ UNCHANGED <<doc, lock, out, errors>> /\ Keep

\* The lock goes with the transaction.
PostgresCommit(c) ==
  /\ At(c, "postgres", "commit")
  /\ doc' = After(c, tx[c].read) /\ Returns(c) /\ Goto(c, "ok") /\ lock' = lock \ {c}
  /\ UNCHANGED errors /\ Keep

\* Mutant: the rollback leaves the lock taken.
RollbackKeepsLock(c) ==
  /\ backend = "postgres" /\ tx[c].pc \in {"start", "read", "write", "commit"}
  /\ errors < MaxErrors /\ errors' = errors + 1
  /\ Goto(c, "error")
  /\ UNCHANGED <<lock, doc, out>> /\ Keep

\* Any statement fails, or the commit does; PostgreSQL's is rolled back.
Rollback(c) ==
  /\ backend # "memory" /\ tx[c].pc \in {"start", "read", "write", "commit"}
  /\ errors < MaxErrors /\ errors' = errors + 1
  /\ Goto(c, "error") /\ lock' = lock \ {c}
  /\ UNCHANGED <<doc, out>> /\ Keep

\* The commit is made but its answer is lost: the call returns an error.
AnswerLost(c) ==
  /\ backend # "memory" /\ tx[c].pc = "commit" /\ (backend = "firestore" => Commits(c))
  /\ errors < MaxErrors /\ errors' = errors + 1
  /\ doc' = After(c, tx[c].read) /\ Goto(c, "error") /\ lock' = lock \ {c}
  /\ UNCHANGED out /\ Keep

Step(c) ==
  \/ MemoryCall(c) \/ FirestoreGet(c) \/ FirestoreCommit(c)
  \/ LockKey(c) \/ GetJob(c) \/ UpsertJob(c) \/ PostgresCommit(c)

Next == \E c \in Client : Step(c) \/ Rollback(c) \/ AnswerLost(c)

Spec == Init /\ [][Next]_vars /\ \A c \in Client : WF_vars(Step(c))

-----------------------------------------------------------------------------
Done(c) == tx[c].pc \in {"ok", "error"}

\* The committed documents are a history: every call that returned nil had the
\* document that it returned, and no later call lost its write.
Serializable ==
  \A c \in Client : tx[c].pc = "ok" =>
    out[c] # <<>> /\ Len(out[c]) <= Len(doc) /\ out[c] = SubSeq(doc, 1, Len(out[c]))

\* No write is applied twice, RunTransaction's repeated closures included, and
\* every Mutate that returned nil is in the document.
AppliedOnce ==
  /\ IsInjective(doc)
  /\ op = "mutate" => \A c \in Client : tx[c].pc = "ok" => c \in Range(doc)

\* Seen tells at most one of the concurrent deliveries of one body that it is the
\* first, also when no record exists yet.
SeenOnce ==
  op = "seen" => Cardinality({c \in Client : tx[c].pc = "ok" /\ out[c][Len(out[c])] = c}) <= 1

\* Concurrent calls on one document of each of the three stores have a serial
\* order: no write is lost or applied twice, and Seen calls one delivery the first.
StoresSerialise == TxnTypeOK /\ Serializable /\ AppliedOnce /\ SeenOnce

\* No call waits for ever for the advisory lock or for a quiet document.
CallsReturn == \A c \in Client : <>Done(c)
===============================================================================
