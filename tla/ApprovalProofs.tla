----------------------------- MODULE ApprovalProofs -----------------------------
(***************************************************************************)
(* Proofs about Approval, for any tokens, scopes, processes and clock, and  *)
(* any Save calls, overlapping ones included: a check passes on what a      *)
(* human approved, once.                                                    *)
(***************************************************************************)
EXTENDS Approval, TLAPS

Stores == UNION {[T -> Grants] : T \in SUBSET Token}

Types ==
  /\ now \in Nat
  /\ broker \in [Process -> Stores]
  /\ pending \in [Process -> {NoCall} \cup [call : {"grant"}, token : Token, scope : Scope,
                                           at : Nat, ttl : Nat]]
  /\ saving \in [Call -> {NoCall} \cup [call : {"copied", "opened", "written"}, grants : Stores,
                                       inode : Inode \cup {NoFile}]]
  /\ disk \in [Inode -> {Blank, Garbage} \cup [form : {"grants"}, grants : Stores]]
  /\ tmp \in Inode \cup {NoFile} /\ file \in Inode \cup {NoFile}
  /\ issued \in Stores
  /\ passes \in [Process -> SUBSET (Token \X Scope \X Nat)]

\* Every grant in g is the one in h, but for being used.
Genuine(g, h) ==
  \A t \in DOMAIN g :
    /\ t \in DOMAIN h
    /\ g[t].scope = h[t].scope
    /\ g[t].approvedAt = h[t].approvedAt
    /\ g[t].expiresAt = h[t].expiresAt

\* A Grant call has a token of its own that nobody was given, and a time that is past.
PendingInv ==
  /\ \A t \in DOMAIN issued : issued[t].approvedAt <= now /\ ~issued[t].used
  /\ \A p \in Process : pending[p] # NoCall =>
       /\ pending[p].token \notin DOMAIN issued
       /\ pending[p].at <= now
       /\ \A q \in Process : pending[q] # NoCall /\ pending[q].token = pending[p].token => p = q

\* Brokers, copies that Save calls hold and files hold genuine grants.
GenuineInv ==
  /\ \A p \in Process : Genuine(broker[p], issued)
  /\ \A c \in Call : saving[c] # NoCall => Genuine(saving[c].grants, issued)
  /\ \A i \in Inode : disk[i].form = "grants" => Genuine(disk[i].grants, issued)

ApprovalInv == Types /\ PendingInv /\ GenuineInv /\ PassesAreGranted /\ SingleUse

-----------------------------------------------------------------------------
(***************************************************************************)
(* Stores.                                                                 *)
(***************************************************************************)
\* A store is a function from tokens to grants.
LEMMA StoreIsFunction ==
  ASSUME NEW g \in Stores
  PROVE  /\ DOMAIN g \subseteq Token /\ g \in [DOMAIN g -> Grants]
         /\ \A t \in DOMAIN g : g[t] \in Grants
BY Zenon DEF Stores

\* Any function from tokens to grants is a store.
LEMMA FunctionIsStore ==
  ASSUME NEW T \in SUBSET Token, NEW g \in [T -> Grants]
  PROVE  g \in Stores
BY Zenon DEF Stores

\* pruneLocked leaves a store with some of the grants, as they are.
LEMMA PruneStore ==
  ASSUME NEW g \in Stores, NEW time
  PROVE  /\ Prune(g, time) \in Stores /\ DOMAIN Prune(g, time) \subseteq DOMAIN g
         /\ \A t \in DOMAIN Prune(g, time) :
              Prune(g, time)[t] = g[t] /\ ~g[t].used /\ ~Expired(g[t], time)
<1> DEFINE T == {t \in DOMAIN g : ~g[t].used /\ ~Expired(g[t], time)}
<1>1. Prune(g, time) = [t \in T |-> g[t]]
  BY Zenon DEF Prune, Keep
<1>2. T \in SUBSET Token /\ [t \in T |-> g[t]] \in [T -> Grants]
  BY StoreIsFunction, Zenon
<1>3. [t \in T |-> g[t]] \in Stores
  BY <1>2, FunctionIsStore, Zenon
<1> QED
  BY <1>1, <1>3, Zenon

\* Marking a grant as used changes that alone.
LEMMA UseStore ==
  ASSUME NEW g \in Stores, NEW u \in DOMAIN g
  PROVE  /\ Use(g, u) \in Stores /\ DOMAIN Use(g, u) = DOMAIN g /\ Use(g, u)[u].used
         /\ \A t \in DOMAIN g : /\ t # u => Use(g, u)[t] = g[t]
                                /\ Use(g, u)[t].scope = g[t].scope
                                /\ Use(g, u)[t].approvedAt = g[t].approvedAt
                                /\ Use(g, u)[t].expiresAt = g[t].expiresAt
<1>1. DOMAIN g \subseteq Token /\ g \in [DOMAIN g -> Grants]
  BY StoreIsFunction, Zenon
<1>2. Use(g, u) \in [DOMAIN g -> Grants]
  BY <1>1, Zenon DEF Use, Grants
<1>3. Use(g, u) \in Stores
  BY <1>1, <1>2, FunctionIsStore, Zenon
<1>4. Use(g, u)[u].used
  BY <1>1, Zenon DEF Use, Grants
<1> QED
  BY <1>1, <1>2, <1>3, <1>4, Zenon DEF Use, Grants

\* A grant that is added to a store.
Added(g, u, grant) == [t \in DOMAIN g \cup {u} |-> IF t = u THEN grant ELSE g[t]]

\* It leaves the others as they are.
LEMMA AddedStore ==
  ASSUME NEW g \in Stores, NEW u \in Token, NEW grant \in Grants
  PROVE  Added(g, u, grant) \in Stores
<1>1. DOMAIN g \cup {u} \in SUBSET Token /\ Added(g, u, grant) \in [DOMAIN g \cup {u} -> Grants]
  BY StoreIsFunction, Zenon DEF Added
<1> QED
  BY <1>1, FunctionIsStore, Zenon
-----------------------------------------------------------------------------
(***************************************************************************)
(* A check that passes, of either kind.                                    *)
(***************************************************************************)
Consumes(p, t, scope) ==
  LET g == Prune(broker[p], now)
  IN /\ t \in DOMAIN g /\ g[t].scope = scope
     /\ broker' = [broker EXCEPT ![p] = Use(g, t)]
     /\ passes' = [passes EXCEPT ![p] = @ \cup {<<t, scope, now>>}]
     /\ UNCHANGED <<now, pending, saving, disk, tmp, file, issued>>

\* Check and CheckToken both consume a grant for the scope.
LEMMA ChecksConsume ==
  ASSUME NEW p, NEW scope, Check(p, scope) \/ \E t \in Token : CheckToken(p, t, scope)
  PROVE  \E t : Consumes(p, t, scope)
<1>1. CASE Check(p, scope)
  BY <1>1, Zenon DEF Check, Consumes, Best, Matching
<1>2. CASE \E t \in Token : CheckToken(p, t, scope)
  BY <1>2, Zenon DEF CheckToken, Consumes, Matching
<1> QED
  BY <1>1, <1>2, Zenon

\* The store that is left, and what is known of the grant.
LEMMA ConsumedStore ==
  ASSUME Types, NEW p \in Process, NEW t, NEW scope, Consumes(p, t, scope)
  PROVE  /\ broker'[p] \in Stores /\ DOMAIN broker'[p] \subseteq DOMAIN broker[p]
         /\ t \in DOMAIN broker[p] /\ t \in Token /\ broker[p][t].scope = scope
         /\ ~broker[p][t].used /\ ~Expired(broker[p][t], now)
         /\ t \in DOMAIN broker'[p] /\ broker'[p][t].used
         /\ \A u \in DOMAIN broker'[p] : /\ u # t => broker'[p][u] = broker[p][u]
                                         /\ broker'[p][u].scope = broker[p][u].scope
                                         /\ broker'[p][u].approvedAt = broker[p][u].approvedAt
                                         /\ broker'[p][u].expiresAt = broker[p][u].expiresAt
<1> DEFINE g == Prune(broker[p], now)
<1>1. broker[p] \in Stores
  BY Zenon DEF Types
<1>2. /\ g \in Stores /\ DOMAIN g \subseteq DOMAIN broker[p]
      /\ \A u \in DOMAIN g : /\ g[u] = broker[p][u] /\ ~broker[p][u].used
                             /\ ~Expired(broker[p][u], now)
  BY <1>1, PruneStore, Zenon
<1>3. t \in DOMAIN g /\ g[t].scope = scope /\ broker'[p] = Use(g, t)
  BY Zenon DEF Consumes, Types
<1> HIDE DEF g
<1>4. /\ Use(g, t) \in Stores /\ DOMAIN Use(g, t) = DOMAIN g /\ Use(g, t)[t].used
      /\ \A u \in DOMAIN g : /\ u # t => Use(g, t)[u] = g[u]
                             /\ Use(g, t)[u].scope = g[u].scope
                             /\ Use(g, t)[u].approvedAt = g[u].approvedAt
                             /\ Use(g, t)[u].expiresAt = g[u].expiresAt
  BY <1>2, <1>3, UseStore, Zenon
<1>5. DOMAIN broker[p] \subseteq Token
  BY <1>1, StoreIsFunction, Zenon
<1> QED
  BY <1>2, <1>3, <1>4, <1>5

-----------------------------------------------------------------------------
(***************************************************************************)
(* The critical section of Grant.                                          *)
(***************************************************************************)
NewGrant(p) == [scope |-> pending[p].scope, approvedAt |-> pending[p].at,
                expiresAt |-> pending[p].at + pending[p].ttl, used |-> FALSE]

\* It adds the new grant to what it leaves of the store, and to what was issued.
LEMMA GrantAdds ==
  ASSUME Types, NEW p \in Process, Grant(p)
  PROVE  /\ pending[p].token \in Token /\ NewGrant(p) \in Grants
         /\ broker' = [broker EXCEPT ![p] =
              Added(Prune(broker[p], pending[p].at), pending[p].token, NewGrant(p))]
         /\ issued' = Added(issued, pending[p].token, NewGrant(p))
         /\ pending' = [pending EXCEPT ![p] = NoCall]
         /\ UNCHANGED <<now, saving, disk, tmp, file, passes>>
<1>1. pending[p] \in [call : {"grant"}, token : Token, scope : Scope, at : Nat, ttl : Nat]
  BY Zenon DEF Types, Grant
<1>2. NewGrant(p) \in Grants
  BY <1>1 DEF NewGrant, Grants
<1> QED
  BY <1>1, <1>2, Zenon DEF Grant, Added, NewGrant

-----------------------------------------------------------------------------
\* Every step keeps the types.
LEMMA TypesNext == Types /\ [Next]_vars => Types'
<1> SUFFICES ASSUME Types, [Next]_vars PROVE Types'
  BY Zenon
<1>1. ASSUME NEW p \in Process, NEW t \in Token, NEW s \in Scope, NEW ttl \in 1 .. MaxTTL,
             GrantBegins(p, t, s, ttl)
      PROVE  Types'
  BY <1>1, TokenAssumption DEF GrantBegins, Types
<1>2. ASSUME NEW p \in Process, Grant(p) PROVE Types'
  <2>1. broker[p] \in Stores /\ issued \in Stores
    BY Zenon DEF Types
  <2>2. /\ Added(Prune(broker[p], pending[p].at), pending[p].token, NewGrant(p)) \in Stores
        /\ Added(issued, pending[p].token, NewGrant(p)) \in Stores
    BY <1>2, <2>1, GrantAdds, PruneStore, AddedStore, Zenon
  <2> QED
    BY <1>2, <2>2, GrantAdds DEF Types
<1>3. ASSUME NEW p \in Process, NEW t, NEW s \in Scope, Consumes(p, t, s) PROVE Types'
  <2>1. broker'[p] \in Stores /\ t \in Token
    BY <1>3, ConsumedStore, Zenon
  <2>2. broker' \in [Process -> Stores]
    BY <1>3, <2>1, Zenon DEF Types, Consumes
  <2>3. passes' \in [Process -> SUBSET (Token \X Scope \X Nat)]
    BY <1>3, <2>1 DEF Types, Consumes
  <2> QED
    BY <1>3, <2>2, <2>3, Zenon DEF Types, Consumes
<1>4. ASSUME NEW p \in Process, Inspect(p) PROVE Types'
  <2>1. Prune(broker[p], now) \in Stores
    BY PruneStore, Zenon DEF Types
  <2> QED
    BY <1>4, <2>1, Zenon DEF Inspect, Types
<1>5. ASSUME NEW p \in Process, Load(p) PROVE Types'
  <2>1. Empty \in Stores
    <3>1. Empty \in [{} -> Grants]
      BY Zenon DEF Empty
    <3> QED
      BY <3>1, FunctionIsStore, Zenon
  <2>2. file # NoFile => disk[file].grants \in Stores
    BY <1>5 DEF Load, Types, Blank, Garbage
  <2> QED
    BY <1>5, <2>1, <2>2, Zenon DEF Load, Types
<1>6. ASSUME NEW p \in Process, NEW c \in Call, SaveCopies(c, p) PROVE Types'
  BY <1>6, Zenon DEF SaveCopies, Types
<1>7. ASSUME NEW c \in Call, SaveOpens(c) PROVE Types'
  <2>1. PICK i \in Inode :
          /\ saving' = [saving EXCEPT ![c].call = "opened", ![c].inode = i]
          /\ disk' = [disk EXCEPT ![i] = Blank] /\ tmp' = i
    BY <1>7, Zenon DEF SaveOpens, Types, Unused
  <2>2. saving[c] \in [call : {"copied", "opened", "written"}, grants : Stores,
                       inode : Inode \cup {NoFile}]
    BY <1>7 DEF SaveOpens, Types, NoCall
  <2>3. [saving[c] EXCEPT !.call = "opened", !.inode = i]
          \in [call : {"copied", "opened", "written"}, grants : Stores, inode : Inode \cup {NoFile}]
    BY <2>2, Zenon
  <2>4. saving' \in [Call -> {NoCall} \cup [call : {"copied", "opened", "written"}, grants : Stores,
                                           inode : Inode \cup {NoFile}]]
    BY <2>1, <2>3, Zenon DEF Types
  <2> QED
    BY <1>7, <2>1, <2>4, Zenon DEF SaveOpens, Types
<1>8. ASSUME NEW c \in Call, SaveWrites(c) PROVE Types'
  BY <1>8 DEF SaveWrites, Types, NoCall, Readable
<1>9. ASSUME NEW c \in Call, SaveRenames(c) \/ SaveFails(c) PROVE Types'
  BY <1>9, Zenon DEF SaveRenames, SaveFails, Types
<1>10. CASE Tick
  BY <1>10 DEF Tick, Types
<1>11. CASE UNCHANGED vars
  BY <1>11, Zenon DEF vars, Types
<1> QED
  BY <1>1, <1>2, <1>3, <1>4, <1>5, <1>6, <1>7, <1>8, <1>9, <1>10, <1>11, ChecksConsume, Zenon DEF Next

\* Every step keeps the tokens of Grant calls fresh and the times in the past.
LEMMA PendingNext == ApprovalInv /\ [Next]_vars => PendingInv'
<1> SUFFICES ASSUME ApprovalInv, [Next]_vars PROVE PendingInv'
  BY Zenon
<1> USE DEF ApprovalInv, PendingInv
<1>1. ASSUME NEW p \in Process, NEW t \in Token, NEW s \in Scope, NEW ttl \in 1 .. MaxTTL,
             GrantBegins(p, t, s, ttl)
      PROVE  PendingInv'
  BY <1>1 DEF GrantBegins, Types, NoCall
<1>2. ASSUME NEW p \in Process, Grant(p) PROVE PendingInv'
  <2>1. /\ issued' = Added(issued, pending[p].token, NewGrant(p))
        /\ pending' = [pending EXCEPT ![p] = NoCall] /\ now' = now
    BY <1>2, GrantAdds, Zenon
  <2>2. pending[p] # NoCall /\ pending[p].at <= now
    BY <1>2, Zenon DEF Grant
  <2>3. (\A t \in DOMAIN issued : issued[t].approvedAt <= now /\ ~issued[t].used)'
    BY <2>1, <2>2, Zenon DEF Added, NewGrant
  <2>4. ASSUME NEW q \in Process, pending'[q] # NoCall
        PROVE  q # p /\ pending'[q] = pending[q] /\ pending[q].token # pending[p].token
    BY <2>1, <2>2, <2>4, Zenon DEF Types
  <2>5. DOMAIN issued' = DOMAIN issued \cup {pending[p].token}
    BY <2>1, Zenon DEF Added
  <2>6. ASSUME NEW q \in Process, pending'[q] # NoCall
        PROVE  /\ pending'[q].token \notin DOMAIN issued' /\ pending'[q].at <= now'
               /\ \A r \in Process :
                    pending'[r] # NoCall /\ pending'[r].token = pending'[q].token => q = r
    BY <2>1, <2>4, <2>5, <2>6, Zenon
  <2> QED
    BY <2>3, <2>6, Zenon
<1>3. CASE Tick
  <2>1. now' = now + 1 /\ pending' = pending /\ issued' = issued /\ now \in Nat
    BY <1>3, Zenon DEF Tick, Types
  <2>2. \A t \in DOMAIN issued : issued[t].approvedAt \in Nat
    BY StoreIsFunction, Zenon DEF Types, Grants
  <2>3. \A p \in Process : pending[p] # NoCall => pending[p].at \in Nat
    BY Zenon DEF Types
  <2> QED
    BY <2>1, <2>2, <2>3
<1>4. ASSUME UNCHANGED <<now, pending, issued>> PROVE PendingInv'
  BY <1>4, Zenon
<1>5. ASSUME NEW p \in Process, NEW t, NEW s, Consumes(p, t, s) PROVE UNCHANGED <<now, pending, issued>>
  BY <1>5, Zenon DEF Consumes
<1>6. ASSUME NEW p \in Process, Inspect(p) \/ Load(p) \/ \E c \in Call : SaveCopies(c, p)
      PROVE  UNCHANGED <<now, pending, issued>>
  BY <1>6, Zenon DEF Inspect, Load, SaveCopies
<1>7. ASSUME NEW c \in Call, SaveOpens(c) \/ SaveWrites(c) \/ SaveRenames(c) \/ SaveFails(c)
      PROVE  UNCHANGED <<now, pending, issued>>
  BY <1>7, Zenon DEF SaveOpens, SaveWrites, SaveRenames, SaveFails
<1> QED
  BY <1>1, <1>2, <1>3, <1>4, <1>5, <1>6, <1>7, ChecksConsume, Zenon DEF Next, vars

\* What is genuine stays so when another token is issued.
LEMMA GenuineAdded ==
  ASSUME NEW g, NEW h, NEW u, NEW grant, Genuine(g, h), u \notin DOMAIN h
  PROVE  Genuine(g, Added(h, u, grant))
BY Zenon DEF Genuine, Added

\* A step that issues nothing, after which brokers, Save calls and files hold what they
\* held or what is genuine, leaves genuine grants.
LEMMA GenuineKept ==
  ASSUME GenuineInv, issued' = issued,
         \A q \in Process : broker'[q] = broker[q] \/ Genuine(broker'[q], issued),
         \A c \in Call : \/ saving'[c] = NoCall
                         \/ saving[c] # NoCall /\ saving'[c].grants = saving[c].grants
                         \/ Genuine(saving'[c].grants, issued),
         \A i \in Inode : \/ disk'[i] = disk[i] \/ disk'[i].form # "grants"
                          \/ Genuine(disk'[i].grants, issued)
  PROVE  GenuineInv'
<1>1. \A q \in Process : Genuine(broker'[q], issued)
  BY Zenon DEF GenuineInv
<1>2. \A c \in Call : saving'[c] # NoCall => Genuine(saving'[c].grants, issued)
  BY Zenon DEF GenuineInv
<1>3. \A i \in Inode : disk'[i].form = "grants" => Genuine(disk'[i].grants, issued)
  BY Zenon DEF GenuineInv
<1> QED
  BY <1>1, <1>2, <1>3, Zenon DEF GenuineInv, Genuine

\* Every step leaves genuine grants in brokers, Save calls and files.
LEMMA GenuineNext == ApprovalInv /\ [Next]_vars => GenuineInv'
<1> SUFFICES ASSUME ApprovalInv, [Next]_vars PROVE GenuineInv'
  BY Zenon
<1>a. Types /\ PendingInv /\ GenuineInv
  BY Zenon DEF ApprovalInv
<1>1. ASSUME UNCHANGED <<broker, saving, disk, issued>> PROVE GenuineInv'
  BY <1>1, <1>a, GenuineKept, Zenon
<1>2. ASSUME NEW p \in Process, Grant(p) PROVE GenuineInv'
  <2> DEFINE u == pending[p].token
             kept == Prune(broker[p], pending[p].at)
             new == Added(issued, u, NewGrant(p))
             left == Added(kept, u, NewGrant(p))
  <2>1. /\ broker' = [broker EXCEPT ![p] = left]
        /\ issued' = new /\ saving' = saving /\ disk' = disk
    BY <1>2, <1>a, GrantAdds, Zenon
  <2>2. u \notin DOMAIN issued
    BY <1>2, <1>a, Zenon DEF Grant, PendingInv
  <2>3. DOMAIN kept \subseteq DOMAIN broker[p] /\ \A t \in DOMAIN kept : kept[t] = broker[p][t]
    BY <1>a, PruneStore DEF Types
  <2>a. Genuine(broker[p], issued)
    BY <1>a, Zenon DEF GenuineInv
  <2>4. Genuine(kept, issued)
    BY <2>a, <2>3, Zenon DEF Genuine
  <2> HIDE DEF u, kept
  <2>5. Genuine(left, new)
    BY <2>2, <2>4, Zenon DEF Genuine, Added
  <2> HIDE DEF new, left
  <2>6. ASSUME NEW g, Genuine(g, issued) PROVE Genuine(g, new)
    BY <2>2, <2>6, GenuineAdded, Zenon DEF new
  <2>7. \A q \in Process : Genuine(broker'[q], issued')
    <3>1. \A q \in Process : broker'[q] = IF q = p THEN left ELSE broker[q]
      BY <2>1, <1>a, Zenon DEF Types
    <3>2. \A q \in Process : Genuine(broker[q], new)
      BY <2>6, <1>a, Zenon DEF GenuineInv
    <3> QED
      BY <2>1, <2>5, <3>1, <3>2, Zenon
  <2>8. \A c \in Call : saving[c] # NoCall => Genuine(saving[c].grants, new)
    BY <2>6, <1>a, Zenon DEF GenuineInv
  <2>9. \A i \in Inode : disk[i].form = "grants" => Genuine(disk[i].grants, new)
    BY <2>6, <1>a, Zenon DEF GenuineInv
  <2>10. \A c \in Call : saving'[c] # NoCall => Genuine(saving'[c].grants, issued')
    BY <2>1, <2>8, Zenon
  <2>11. \A i \in Inode : disk'[i].form = "grants" => Genuine(disk'[i].grants, issued')
    BY <2>1, <2>9, Zenon
  <2> QED
    BY <2>7, <2>10, <2>11, Zenon DEF GenuineInv, Genuine
<1>3. ASSUME NEW p \in Process, NEW t, NEW s, Consumes(p, t, s) PROVE GenuineInv'
  <2>1. /\ issued' = issued /\ saving' = saving /\ disk' = disk
        /\ \A q \in Process \ {p} : broker'[q] = broker[q]
    BY <1>3, <1>a, Zenon DEF Consumes, Types
  <2>2. /\ DOMAIN broker'[p] \subseteq DOMAIN broker[p]
        /\ \A u \in DOMAIN broker'[p] : /\ broker'[p][u].scope = broker[p][u].scope
                                        /\ broker'[p][u].approvedAt = broker[p][u].approvedAt
                                        /\ broker'[p][u].expiresAt = broker[p][u].expiresAt
    BY <1>3, <1>a, ConsumedStore
  <2>3. Genuine(broker[p], issued)
    BY <1>a, Zenon DEF GenuineInv
  <2>4. Genuine(broker'[p], issued)
    BY <2>2, <2>3, Zenon DEF Genuine
  <2> QED
    BY <2>1, <2>4, <1>a, GenuineKept, Zenon
<1>4. ASSUME NEW p \in Process, Inspect(p) PROVE GenuineInv'
  <2>1. /\ issued' = issued /\ saving' = saving /\ disk' = disk
        /\ \A q \in Process \ {p} : broker'[q] = broker[q]
        /\ broker'[p] = Prune(broker[p], now)
    BY <1>4, <1>a, Zenon DEF Inspect, Types
  <2>2. /\ DOMAIN broker'[p] \subseteq DOMAIN broker[p]
        /\ \A u \in DOMAIN broker'[p] : broker'[p][u] = broker[p][u]
    BY <2>1, <1>a, PruneStore DEF Types
  <2>3. Genuine(broker[p], issued)
    BY <1>a, Zenon DEF GenuineInv
  <2>4. Genuine(broker'[p], issued)
    BY <2>2, <2>3, Zenon DEF Genuine
  <2> QED
    BY <2>1, <2>4, <1>a, GenuineKept, Zenon
<1>5. ASSUME NEW p \in Process, Load(p) PROVE GenuineInv'
  <2>1. /\ issued' = issued /\ saving' = saving /\ disk' = disk
        /\ \A q \in Process \ {p} : broker'[q] = broker[q]
        /\ broker'[p] = IF file = NoFile THEN Empty ELSE disk[file].grants
    BY <1>5, <1>a, Zenon DEF Load, Types
  <2>2. Genuine(Empty, issued)
    BY Zenon DEF Empty, Genuine
  <2>3. file # NoFile => Genuine(disk[file].grants, issued)
    BY <1>5, <1>a, Zenon DEF Load, Types, GenuineInv
  <2> QED
    BY <2>1, <2>2, <2>3, <1>a, GenuineKept, Zenon
<1>6. ASSUME NEW p \in Process, NEW c \in Call, SaveCopies(c, p) PROVE GenuineInv'
  <2>1. /\ issued' = issued /\ broker' = broker /\ disk' = disk
        /\ \A d \in Call \ {c} : saving'[d] = saving[d]
        /\ saving'[c].grants = broker[p]
    BY <1>6, <1>a, Zenon DEF SaveCopies, Types
  <2>2. Genuine(saving'[c].grants, issued)
    BY <2>1, <1>a, Zenon DEF GenuineInv
  <2> QED
    BY <2>1, <2>2, <1>a, GenuineKept, Zenon
<1>7. ASSUME NEW c \in Call, SaveOpens(c) PROVE GenuineInv'
  <2>1. PICK i \in Inode :
          /\ saving' = [saving EXCEPT ![c].call = "opened", ![c].inode = i]
          /\ disk' = [disk EXCEPT ![i] = Blank]
    BY <1>7, <1>a, Zenon DEF SaveOpens, Types, Unused
  <2>2. issued' = issued /\ broker' = broker /\ saving[c] # NoCall
    BY <1>7 DEF SaveOpens, NoCall
  <2>3. \A j \in Inode : disk'[j] = disk[j] \/ disk'[j].form # "grants"
    BY <2>1, <1>a, Zenon DEF Types, Blank
  <2>4. \A d \in Call : d # c => saving'[d] = saving[d]
    BY <2>1, <1>a, Zenon DEF Types
  <2>5. saving'[c].grants = saving[c].grants
    BY <2>1, <2>2, <1>a DEF Types
  <2> QED
    BY <2>2, <2>3, <2>4, <2>5, <1>a, GenuineKept, Zenon
<1>8. ASSUME NEW c \in Call, SaveWrites(c) PROVE GenuineInv'
  <2>1. /\ issued' = issued /\ broker' = broker /\ saving[c] # NoCall
        /\ saving' = [saving EXCEPT ![c].call = "written"]
    BY <1>8 DEF SaveWrites, NoCall
  <2>2. PICK d \in {Readable(saving[c].grants), Garbage} :
          disk' = [disk EXCEPT ![saving[c].inode] = d]
    BY <1>8, Zenon DEF SaveWrites
  <2>3. \A e \in Call : e # c => saving'[e] = saving[e]
    BY <2>1, <1>a, Zenon DEF Types
  <2>4. saving'[c].grants = saving[c].grants
    BY <2>1, <1>a DEF Types
  <2>5. Genuine(saving[c].grants, issued)
    BY <2>1, <1>a, Zenon DEF GenuineInv
  <2>6. \A j \in Inode : disk'[j] = disk[j] \/ disk'[j] = d
    BY <2>2, <1>a, Zenon DEF Types
  <2>7. d.form # "grants" \/ d.grants = saving[c].grants
    BY <2>2 DEF Readable, Garbage
  <2> QED
    BY <2>1, <2>3, <2>4, <2>5, <2>6, <2>7, <1>a, GenuineKept, Zenon
<1>9. ASSUME NEW c \in Call, SaveRenames(c) \/ SaveFails(c) PROVE GenuineInv'
  <2>1. /\ issued' = issued /\ broker' = broker /\ disk' = disk
        /\ saving' = [saving EXCEPT ![c] = NoCall]
    BY <1>9, Zenon DEF SaveRenames, SaveFails
  <2>2. \A d \in Call : saving'[d] = NoCall \/ saving'[d] = saving[d]
    BY <2>1, <1>a, Zenon DEF Types
  <2> QED
    BY <2>1, <2>2, <1>a, GenuineKept, Zenon
<1> QED
  BY <1>1, <1>2, <1>3, <1>4, <1>5, <1>6, <1>7, <1>8, <1>9, ChecksConsume, Zenon
  DEF Next, GrantBegins, Tick, vars

\* Every step keeps the passes within what was issued.
LEMMA PassesNext == ApprovalInv /\ [Next]_vars => PassesAreGranted'
<1> SUFFICES ASSUME ApprovalInv, [Next]_vars PROVE PassesAreGranted'
  BY Zenon
<1> USE DEF ApprovalInv, PassesAreGranted
<1>1. ASSUME NEW p \in Process, Grant(p) PROVE PassesAreGranted'
  <2>1. issued' = Added(issued, pending[p].token, NewGrant(p)) /\ passes' = passes
    BY <1>1, GrantAdds, Zenon
  <2>2. pending[p].token \notin DOMAIN issued
    BY <1>1, Zenon DEF Grant, PendingInv
  <2>3. DOMAIN issued \subseteq DOMAIN issued' /\ \A t \in DOMAIN issued : issued'[t] = issued[t]
    BY <2>1, <2>2, Zenon DEF Added
  <2> QED
    BY <2>1, <2>3, Zenon
<1>2. ASSUME NEW p \in Process, NEW t, NEW s \in Scope, Consumes(p, t, s) PROVE PassesAreGranted'
  <2>1. /\ t \in DOMAIN broker[p] /\ broker[p][t].scope = s /\ ~Expired(broker[p][t], now)
    BY <1>2, ConsumedStore
  <2>a. Genuine(broker[p], issued)
    BY Zenon DEF GenuineInv
  <2>b. t \in DOMAIN issued /\ issued[t].scope = s /\ ~Expired(issued[t], now)
    BY <2>1, <2>a, Zenon DEF Genuine, Expired
  <2>2. /\ t \in DOMAIN issued /\ issued[t].scope = s /\ issued[t].approvedAt <= now
        /\ ~Expired(issued[t], now)
    BY <2>b, Zenon DEF PendingInv
  <2>3. issued[t].expiresAt \in Nat /\ now \in Nat
    BY <2>2, StoreIsFunction, Zenon DEF Types, Grants
  <2>4. now < issued[t].expiresAt
    BY <2>2, <2>3 DEF Expired
  <2>5. issued' = issued /\ passes' = [passes EXCEPT ![p] = @ \cup {<<t, s, now>>}]
    BY <1>2, Zenon DEF Consumes
  <2>6. \A q \in Process : passes'[q] \subseteq passes[q] \cup {<<t, s, now>>}
    BY <2>5, Zenon DEF Types
  <2> QED
    BY <2>2, <2>4, <2>5, <2>6
<1>3. ASSUME NEW p \in Process, Load(p) PROVE PassesAreGranted'
  BY <1>3, Zenon DEF Load, Types
<1>4. ASSUME UNCHANGED <<passes, issued>> PROVE PassesAreGranted'
  BY <1>4, Zenon
<1>5. ASSUME NEW p \in Process,
             \/ \E t \in Token, s \in Scope, ttl \in 1 .. MaxTTL : GrantBegins(p, t, s, ttl)
             \/ Inspect(p)
             \/ \E c \in Call : SaveCopies(c, p)
      PROVE  UNCHANGED <<passes, issued>>
  BY <1>5, Zenon DEF GrantBegins, Inspect, SaveCopies
<1>6. ASSUME NEW c \in Call, SaveOpens(c) \/ SaveWrites(c) \/ SaveRenames(c) \/ SaveFails(c)
      PROVE  UNCHANGED <<passes, issued>>
  BY <1>6, Zenon DEF SaveOpens, SaveWrites, SaveRenames, SaveFails
<1>7. CASE Tick
  BY <1>4, <1>7, Zenon DEF Tick
<1> QED
  BY <1>1, <1>2, <1>3, <1>4, <1>5, <1>6, <1>7, ChecksConsume, Zenon DEF Next, vars

\* Every step keeps a grant to one pass in the broker that holds it.
LEMMA SingleNext == ApprovalInv /\ [Next]_vars => SingleUse'
<1> SUFFICES ASSUME ApprovalInv, [Next]_vars PROVE SingleUse'
  BY Zenon
<1>a. Types /\ PendingInv /\ PassesAreGranted /\ SingleUse
  BY Zenon DEF ApprovalInv
<1>1. ASSUME NEW p \in Process, Grant(p) PROVE SingleUse'
  <2> DEFINE u == pending[p].token
             kept == Prune(broker[p], pending[p].at)
  <2>1. broker' = [broker EXCEPT ![p] = Added(kept, u, NewGrant(p))] /\ passes' = passes
    BY <1>1, <1>a, GrantAdds, Zenon
  <2>2. u \notin DOMAIN issued
    BY <1>1, <1>a, Zenon DEF Grant, PendingInv
  <2>3. DOMAIN kept \subseteq DOMAIN broker[p] /\ \A t \in DOMAIN kept : kept[t] = broker[p][t]
    BY <1>a, PruneStore DEF Types
  <2> HIDE DEF u, kept
  <2>4. \A a \in passes[p] : a[1] # u
    BY <2>2, <1>a, Zenon DEF PassesAreGranted
  <2>5. \A a \in passes[p] : a[1] \in DOMAIN broker'[p] => broker'[p][a[1]].used
    BY <2>1, <2>3, <2>4, <1>a, Zenon DEF Added, Types, SingleUse
  <2>6. \A q \in Process \ {p} : broker'[q] = broker[q]
    BY <2>1, <1>a, Zenon DEF Types
  <2> QED
    BY <2>1, <2>5, <2>6, <1>a, Zenon DEF SingleUse
<1>2. ASSUME NEW p \in Process, NEW t, NEW s \in Scope, Consumes(p, t, s) PROVE SingleUse'
  <2>1. /\ \A q \in Process \ {p} : broker'[q] = broker[q] /\ passes'[q] = passes[q]
        /\ passes'[p] = passes[p] \cup {<<t, s, now>>}
    BY <1>2, <1>a, Zenon DEF Consumes, Types
  <2>2. /\ t \in DOMAIN broker[p] /\ ~broker[p][t].used /\ broker'[p][t].used
        /\ DOMAIN broker'[p] \subseteq DOMAIN broker[p]
        /\ \A u \in DOMAIN broker'[p] : u # t => broker'[p][u] = broker[p][u]
    <3>1. /\ DOMAIN broker'[p] \subseteq DOMAIN broker[p] /\ t \in DOMAIN broker[p]
          /\ ~broker[p][t].used /\ broker'[p][t].used
      BY <1>2, <1>a, ConsumedStore, Zenon
    <3>2. \A u \in DOMAIN broker'[p] : u # t => broker'[p][u] = broker[p][u]
      BY <1>2, <1>a, ConsumedStore
    <3> QED
      BY <3>1, <3>2, Zenon
  <2>3. \A a \in passes[p] : a[1] # t
    BY <2>2, <1>a, Zenon DEF SingleUse
  <2>4. \A a \in passes'[p] : a[1] \in DOMAIN broker'[p] => broker'[p][a[1]].used
    BY <2>1, <2>2, <2>3, <1>a DEF SingleUse
  <2>5. \A a, b \in passes'[p] : a[1] = b[1] => a = b
    BY <2>1, <2>3, <1>a DEF SingleUse
  <2> QED
    BY <2>1, <2>4, <2>5, <1>a, Zenon DEF SingleUse
<1>3. ASSUME NEW p \in Process, Load(p) PROVE SingleUse'
  BY <1>3, <1>a, Zenon DEF Load, Types, SingleUse
<1>4. ASSUME NEW p \in Process, Inspect(p) PROVE SingleUse'
  <2>1. /\ DOMAIN Prune(broker[p], now) \subseteq DOMAIN broker[p]
        /\ \A t \in DOMAIN Prune(broker[p], now) : Prune(broker[p], now)[t] = broker[p][t]
    <3>1. broker[p] \in Stores
      BY <1>a, Zenon DEF Types
    <3> QED
      BY <3>1, PruneStore, Zenon
  <2> QED
    BY <1>4, <2>1, <1>a, Zenon DEF Inspect, Types, SingleUse
<1>5. ASSUME UNCHANGED <<passes, broker>> PROVE SingleUse'
  BY <1>5, <1>a, Zenon DEF SingleUse
<1>6. ASSUME NEW p \in Process,
             \/ \E t \in Token, s \in Scope, ttl \in 1 .. MaxTTL : GrantBegins(p, t, s, ttl)
             \/ \E c \in Call : SaveCopies(c, p)
      PROVE  UNCHANGED <<passes, broker>>
  BY <1>6, Zenon DEF GrantBegins, SaveCopies
<1>7. ASSUME NEW c \in Call, SaveOpens(c) \/ SaveWrites(c) \/ SaveRenames(c) \/ SaveFails(c)
      PROVE  UNCHANGED <<passes, broker>>
  BY <1>7, Zenon DEF SaveOpens, SaveWrites, SaveRenames, SaveFails
<1>8. CASE Tick
  BY <1>5, <1>8, Zenon DEF Tick
<1> QED
  BY <1>1, <1>2, <1>3, <1>4, <1>5, <1>6, <1>7, <1>8, ChecksConsume, Zenon DEF Next, vars

-----------------------------------------------------------------------------
\* The inductive invariant holds at all times.
THEOREM ApprovalInvariant == Spec => []ApprovalInv
<1>1. Init => ApprovalInv
  <2> SUFFICES ASSUME Init PROVE ApprovalInv
    BY Zenon
  <2>1. Empty \in [{} -> Grants] /\ DOMAIN Empty = {}
    BY Zenon DEF Empty
  <2>2. Empty \in Stores
    BY <2>1, FunctionIsStore, Zenon
  <2>3. Types
    BY <2>2, Zenon DEF Init, Types
  <2>4. PendingInv
    BY <2>1, Zenon DEF Init, PendingInv
  <2>5. GenuineInv
    BY <2>1, Zenon DEF Init, GenuineInv, Genuine, Blank
  <2>6. PassesAreGranted /\ SingleUse
    BY Zenon DEF Init, PassesAreGranted, SingleUse
  <2> QED
    BY <2>3, <2>4, <2>5, <2>6, Zenon DEF ApprovalInv
<1>2. ApprovalInv /\ [Next]_vars => ApprovalInv'
  BY TypesNext, PendingNext, GenuineNext, PassesNext, SingleNext, Zenon DEF ApprovalInv
<1> QED
  BY <1>1, <1>2, PTL DEF Spec

\* A check passes only on a grant that was issued, for its scope and in its time, and a
\* grant lets one check pass in the broker that holds it, however processes, Grant calls
\* and overlapping Save calls interleave.
THEOREM GrantsHonouredCorrect == Spec => []GrantsHonoured
<1>1. ApprovalInv => TypeOK
  <2> SUFFICES ASSUME ApprovalInv PROVE TypeOK
    BY Zenon
  <2>1. \A g \in Stores : IsStore(g)
    BY StoreIsFunction, Zenon DEF IsStore
  <2> QED
    BY <2>1, Zenon DEF ApprovalInv, Types, TypeOK, Readable
<1>2. ApprovalInv => GrantsHonoured
  BY <1>1, Zenon DEF ApprovalInv, GrantsHonoured
<1> QED
  BY <1>2, ApprovalInvariant, PTL

\* Save and Load forge and prolong nothing: every grant in a broker or in a file that
\* parses is the one that was issued, but for being used.
THEOREM StoresAreIssuedCorrect == Spec => []StoresAreIssued
<1>1. ApprovalInv => StoresAreIssued
  <2> SUFFICES ASSUME ApprovalInv,
                      NEW g \in {broker[p] : p \in Process} \cup
                        {disk[i].grants : i \in {j \in Inode : disk[j].form = "grants"}},
                      NEW t \in DOMAIN g
               PROVE  t \in DOMAIN issued /\ [g[t] EXCEPT !.used = FALSE] = issued[t]
    BY Zenon DEF StoresAreIssued
  <2>1. g \in Stores /\ Genuine(g, issued)
    BY DEF ApprovalInv, Types, GenuineInv, Blank, Garbage
  <2>2. t \in DOMAIN issued /\ g[t] \in Grants /\ issued[t] \in Grants /\ ~issued[t].used
    BY <2>1, StoreIsFunction, Zenon DEF ApprovalInv, Types, Genuine, PendingInv
  <2> QED
    BY <2>1, <2>2, Zenon DEF Genuine, Grants
<1> QED
  BY <1>1, ApprovalInvariant, PTL

-----------------------------------------------------------------------------
(***************************************************************************)
(* The file, while Save calls do not overlap.                              *)
(***************************************************************************)
\* path.tmp and path never name the same file; what a Save call has open is path.tmp,
\* blank until it is written, and path names a file that was written to its end.
FileInv ==
  /\ tmp # NoFile => tmp # file
  /\ LoadNeverPartial
  /\ \A c \in Call : saving[c].call \in {"opened", "written"} =>
       tmp # NoFile /\ saving[c].inode = tmp
  /\ \A c \in Call : saving[c].call = "opened" => disk[tmp] = Blank
  /\ \A c \in Call : saving[c].call = "written" => disk[tmp].form = "grants"

\* Every step of Save calls that do not overlap keeps path and path.tmp in order.
LEMMA FileNext ==
  ASSUME \A c, d \in Call : c = d
  PROVE  Types /\ FileInv /\ [Next]_vars => FileInv'
<1> SUFFICES ASSUME Types, FileInv, [Next]_vars PROVE FileInv'
  BY Zenon
<1>0. ASSUME UNCHANGED <<saving, disk, tmp, file>> PROVE FileInv'
  BY <1>0, Zenon DEF FileInv, LoadNeverPartial
<1>1. ASSUME NEW c \in Call, NEW p \in Process, SaveCopies(c, p) PROVE FileInv'
  <2>1. UNCHANGED <<disk, tmp, file>> /\ saving'[c].call = "copied"
    BY <1>1, Zenon DEF SaveCopies, Types
  <2> QED
    BY <2>1, Zenon DEF FileInv, LoadNeverPartial
<1>2. ASSUME NEW c \in Call, SaveOpens(c) PROVE FileInv'
  <2>1. PICK i \in Inode :
          /\ saving' = [saving EXCEPT ![c].call = "opened", ![c].inode = i]
          /\ disk' = [disk EXCEPT ![i] = Blank] /\ tmp' = i /\ i # file
    BY <1>2, Zenon DEF SaveOpens, Types, Unused, FileInv
  <2>2. saving[c] \in [call : {"copied", "opened", "written"}, grants : Stores,
                       inode : Inode \cup {NoFile}]
    BY <1>2 DEF SaveOpens, Types, NoCall
  <2>3. saving'[c].call = "opened" /\ saving'[c].inode = i
    BY <2>1, <2>2, Zenon DEF Types
  <2>4. /\ disk'[i] = Blank /\ file' = file /\ i # NoFile
        /\ file # NoFile => disk'[file] = disk[file]
    BY <1>2, <2>1, InodeAssumption, Zenon DEF SaveOpens, Types
  <2> QED
    BY <2>1, <2>3, <2>4, Zenon DEF FileInv, LoadNeverPartial
<1>3. ASSUME NEW c \in Call, SaveWrites(c) PROVE FileInv'
  <2>1. /\ saving[c].call = "opened" /\ saving[c].inode = tmp
        /\ tmp \in Inode /\ tmp # file /\ tmp # NoFile /\ disk[tmp] = Blank
    BY <1>3, Zenon DEF SaveWrites, FileInv, Types
  <2>2. disk' = [disk EXCEPT ![tmp] = Readable(saving[c].grants)]
    BY <1>3, <2>1, Zenon DEF SaveWrites
  <2>3. disk'[tmp].form = "grants" /\ \A i \in Inode : i # tmp => disk'[i] = disk[i]
    BY <2>1, <2>2, Zenon DEF Types, Readable
  <2>4. saving[c] \in [call : {"copied", "opened", "written"}, grants : Stores,
                       inode : Inode \cup {NoFile}]
    BY <2>1 DEF Types, NoCall
  <2>5. saving'[c].call = "written" /\ saving'[c].inode = saving[c].inode
    BY <1>3, <2>4, Zenon DEF SaveWrites, Types
  <2>6. UNCHANGED <<tmp, file>>
    BY <1>3, Zenon DEF SaveWrites
  <2> QED
    BY <2>1, <2>3, <2>5, <2>6, Zenon DEF FileInv, LoadNeverPartial, Types
<1>4. ASSUME NEW c \in Call, SaveRenames(c) PROVE FileInv'
  <2>1. tmp # NoFile /\ disk[tmp].form = "grants"
    BY <1>4, Zenon DEF SaveRenames, FileInv
  <2>2. file' = tmp /\ tmp' = NoFile /\ disk' = disk /\ saving'[c].call = "none"
    BY <1>4, <2>1, Zenon DEF SaveRenames, Types, NoCall
  <2> QED
    BY <2>1, <2>2, Zenon DEF FileInv, LoadNeverPartial
<1>5. ASSUME NEW c \in Call, SaveFails(c) PROVE FileInv'
  <2>1. UNCHANGED <<disk, tmp, file>> /\ saving'[c].call = "none"
    BY <1>5, Zenon DEF SaveFails, Types, NoCall
  <2> QED
    BY <2>1, Zenon DEF FileInv, LoadNeverPartial
<1> QED
  BY <1>0, <1>1, <1>2, <1>3, <1>4, <1>5, Zenon
  DEF Next, GrantBegins, Grant, Check, CheckToken, Inspect, Load, Tick, vars

\* While Save calls do not overlap, whichever of them fails or dies half-way and whatever
\* it leaves in path.tmp, path names a complete encoding of grants that were issued.
THEOREM StoreHonestCorrect ==
  ASSUME \A c, d \in Call : c = d
  PROVE  Spec => []StoreHonest
<1>1. Init => FileInv
  BY DEF Init, FileInv, LoadNeverPartial, NoCall
<1>2. Types /\ FileInv /\ [Next]_vars => FileInv'
  BY FileNext, Zenon
<1>3. ApprovalInv => Types
  BY Zenon DEF ApprovalInv
<1>4. FileInv => LoadNeverPartial
  BY Zenon DEF FileInv
<1>5. Spec => []FileInv
  BY <1>1, <1>2, <1>3, ApprovalInvariant, PTL DEF Spec
<1> QED
  BY <1>4, <1>5, StoresAreIssuedCorrect, PTL DEF StoreHonest
===============================================================================
