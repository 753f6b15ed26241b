-------------------------------- MODULE Approval --------------------------------
(***************************************************************************)
(* approval.Broker and approval.FileStore (approval/): grants a human      *)
(* gives for a scope, which expire, are consumed by the check they let     *)
(* pass, and are carried between processes in a file.                      *)
(*                                                                         *)
(* A process holds one broker; its methods hold the broker's mutex and are *)
(* one step each, but for Grant, which reads the clock before it locks,    *)
(* and Save, which copies the grants under the lock and then creates,      *)
(* writes and renames a temporary file whose name is always the same.  A   *)
(* token stands for its hash as well: tokens are ordered as hashes are.    *)
(***************************************************************************)
EXTENDS Naturals, FiniteSets

CONSTANTS
  Token,   \* tokens generateToken may return, ordered as their hashes are
  Scope,   \* pairs of an action and a resource
  Process, \* processes that hold a broker and share the file
  Call,    \* Save calls that may overlap
  Inode,   \* files the store's directory may hold, a name each or only open
  MaxTime, \* bound: the clock's last value
  MaxTTL   \* bound: the longest time to live

ASSUME TokenAssumption == Token \subseteq Nat /\ MaxTime \in Nat /\ MaxTTL \in Nat

Grants == [scope : Scope, approvedAt : Nat, expiresAt : Nat, used : BOOLEAN]

\* A broker's grants, by token.
IsStore(g) == DOMAIN g \subseteq Token /\ g \in [DOMAIN g -> Grants]
Empty == [t \in {} |-> 0]

\* What a file holds: JSON that Load accepts, nothing, or the head of one
\* encoding followed by the tail of a longer one.
Readable(g) == [form |-> "grants", grants |-> g]
Blank == [form |-> "blank"]
Garbage == [form |-> "garbage"]

NoFile == 0
ASSUME InodeAssumption == NoFile \notin Inode

VARIABLES
  now,     \* the clock
  broker,  \* Broker.grants of each process
  pending, \* a Grant call that has read the clock and not yet locked
  saving,  \* the Save calls: the copied grants, the step, the open file
  disk,    \* what each file holds
  tmp,     \* the file named path.tmp, or NoFile
  file,    \* the file named path, or NoFile
  issued,  \* history: what the human granted, by token
  passes   \* history: the checks that passed, by process, since its Load

vars == <<now, broker, pending, saving, disk, tmp, file, issued, passes>>

NoCall == [call |-> "none"]

TypeOK ==
  /\ now \in Nat
  /\ DOMAIN broker = Process /\ \A p \in Process : IsStore(broker[p])
  /\ DOMAIN pending = Process
  /\ \A p \in Process : pending[p] = NoCall \/
       pending[p] \in [call : {"grant"}, token : Token, scope : Scope,
                       at : Nat, ttl : Nat]
  /\ DOMAIN saving = Call
  /\ \A c \in Call : saving[c] = NoCall \/
       /\ saving[c].call \in {"copied", "opened", "written"}
       /\ IsStore(saving[c].grants)
       /\ saving[c].inode \in Inode \cup {NoFile}
  /\ DOMAIN disk = Inode
  /\ \A i \in Inode : disk[i] \in {Blank, Garbage} \/
       (disk[i] = Readable(disk[i].grants) /\ IsStore(disk[i].grants))
  /\ {tmp, file} \subseteq Inode \cup {NoFile}
  /\ IsStore(issued)
  /\ DOMAIN passes = Process
  /\ \A p \in Process : passes[p] \subseteq Token \X Scope \X Nat

\* NewBroker in every process; no file yet.
Init ==
  /\ now = 0
  /\ broker = [p \in Process |-> Empty]
  /\ pending = [p \in Process |-> NoCall]
  /\ saving = [c \in Call |-> NoCall]
  /\ disk = [i \in Inode |-> Blank]
  /\ tmp = NoFile
  /\ file = NoFile
  /\ issued = Empty
  /\ passes = [p \in Process |-> {}]

-----------------------------------------------------------------------------
(***************************************************************************)
(* What a broker's methods compute.                                        *)
(***************************************************************************)
Keep(g, T) == [t \in T |-> g[t]]

\* Grant.expired.
Expired(grant, time) == time >= grant.expiresAt

\* pruneLocked.
Prune(g, time) == Keep(g, {t \in DOMAIN g : ~g[t].used /\ ~Expired(g[t], time)})

\* matchesScope, over a pruned store.
Matching(g, scope) == {t \in DOMAIN g : g[t].scope = scope}

\* The order of findMatch: earliest approval, then smallest hash.
Precedes(g, t, u) ==
  \/ g[t].approvedAt < g[u].approvedAt
  \/ g[t].approvedAt = g[u].approvedAt /\ t <= u

\* The grants findMatch("", scope) returns from a pruned store: none or one.
Best(g, scope) ==
  {t \in Matching(g, scope) : \A u \in Matching(g, scope) : Precedes(g, t, u)}

Use(g, t) == [g EXCEPT ![t].used = TRUE]

-----------------------------------------------------------------------------
(***************************************************************************)
(* Broker.                                                                 *)
(***************************************************************************)
\* Grant with valid arguments: the token is generated and the clock read.
GrantBegins(p, token, scope, ttl) ==
  /\ pending[p] = NoCall
  /\ token \notin DOMAIN issued
  /\ \A q \in Process : pending[q] # NoCall => pending[q].token # token
  /\ pending' = [pending EXCEPT ![p] =
       [call |-> "grant", token |-> token, scope |-> scope, at |-> now, ttl |-> ttl]]
  /\ UNCHANGED <<now, broker, saving, disk, tmp, file, issued, passes>>

\* The critical section of Grant, with the time read earlier.
Grant(p) ==
  /\ pending[p] # NoCall
  /\ LET c == pending[p]
         g == [scope |-> c.scope, approvedAt |-> c.at,
               expiresAt |-> c.at + c.ttl, used |-> FALSE]
         kept == Prune(broker[p], c.at)
     IN /\ broker' = [broker EXCEPT ![p] =
             [t \in DOMAIN kept \cup {c.token} |-> IF t = c.token THEN g ELSE kept[t]]]
        /\ issued' =
             [t \in DOMAIN issued \cup {c.token} |-> IF t = c.token THEN g ELSE issued[t]]
  /\ pending' = [pending EXCEPT ![p] = NoCall]
  /\ UNCHANGED <<now, saving, disk, tmp, file, passes>>

\* Mutant: the grant that matched is not marked.
CheckWithoutUse(p, scope) ==
  LET g == Prune(broker[p], now)
  IN \E t \in Best(g, scope) :
       /\ broker' = [broker EXCEPT ![p] = g]
       /\ passes' = [passes EXCEPT ![p] = @ \cup {<<t, scope, now>>}]
       /\ UNCHANGED <<now, pending, saving, disk, tmp, file, issued>>

\* Check, when it passes; one that does not is Inspect.
Check(p, scope) ==
  LET g == Prune(broker[p], now)
  IN \E t \in Best(g, scope) :
       /\ broker' = [broker EXCEPT ![p] = Use(g, t)]
       /\ passes' = [passes EXCEPT ![p] = @ \cup {<<t, scope, now>>}]
       /\ UNCHANGED <<now, pending, saving, disk, tmp, file, issued>>

\* CheckToken, when it passes.
CheckToken(p, token, scope) ==
  LET g == Prune(broker[p], now)
  IN /\ token \in Matching(g, scope)
     /\ broker' = [broker EXCEPT ![p] = Use(g, token)]
     /\ passes' = [passes EXCEPT ![p] = @ \cup {<<token, scope, now>>}]
     /\ UNCHANGED <<now, pending, saving, disk, tmp, file, issued>>

\* A check that is refused, DryRunCheck, DryRunCheckToken and ActiveGrants:
\* they only prune.
Inspect(p) ==
  /\ broker' = [broker EXCEPT ![p] = Prune(@, now)]
  /\ UNCHANGED <<now, pending, saving, disk, tmp, file, issued, passes>>

-----------------------------------------------------------------------------
(***************************************************************************)
(* FileStore.                                                              *)
(***************************************************************************)
\* Save copies the grants under the lock, ...
SaveCopies(c, p) ==
  /\ saving[c] = NoCall
  /\ saving' = [saving EXCEPT ![c] =
       [call |-> "copied", grants |-> broker[p], inode |-> NoFile]]
  /\ UNCHANGED <<now, broker, pending, disk, tmp, file, issued, passes>>

\* Files that have no name and that no Save call has open.
Unused == Inode \ ({tmp, file} \cup {saving[c].inode : c \in {d \in Call : saving[d] # NoCall}})

\* Mutant: the file in use is opened and truncated in place.
SaveOpensInPlace(c) ==
  /\ saving[c].call = "copied"
  /\ \E i \in IF file = NoFile THEN Unused ELSE {file} :
       /\ saving' = [saving EXCEPT ![c].call = "opened", ![c].inode = i]
       /\ disk' = [disk EXCEPT ![i] = Blank]
       /\ tmp' = i
  /\ UNCHANGED <<now, broker, pending, file, issued, passes>>

\* ... os.WriteFile opens path.tmp, creating or truncating it, ...
SaveOpens(c) ==
  /\ saving[c].call = "copied"
  /\ \E i \in IF tmp = NoFile THEN Unused ELSE {tmp} :
       /\ saving' = [saving EXCEPT ![c].call = "opened", ![c].inode = i]
       /\ disk' = [disk EXCEPT ![i] = Blank]
       /\ tmp' = i
  /\ UNCHANGED <<now, broker, pending, file, issued, passes>>

\* ... writes from the start of the file it opened, whose tail stays when
\* another call wrote more, ...
SaveWrites(c) ==
  /\ saving[c].call = "opened"
  /\ LET i == saving[c].inode
         new == Readable(saving[c].grants)
     IN disk' \in {[disk EXCEPT ![i] = d] :
                     d \in {new} \cup (IF disk[i] \in {Blank, new} THEN {} ELSE {Garbage})}
  /\ saving' = [saving EXCEPT ![c].call = "written"]
  /\ UNCHANGED <<now, broker, pending, tmp, file, issued, passes>>

\* ... and renames whatever is path.tmp by then; with none the call fails.
SaveRenames(c) ==
  /\ saving[c].call = "written"
  /\ file' = IF tmp = NoFile THEN file ELSE tmp
  /\ tmp' = NoFile
  /\ saving' = [saving EXCEPT ![c] = NoCall]
  /\ UNCHANGED <<now, broker, pending, disk, issued, passes>>

\* An error, or the end of the process, before the rename: path.tmp stays.
SaveFails(c) ==
  /\ saving[c] # NoCall
  /\ saving' = [saving EXCEPT ![c] = NoCall]
  /\ UNCHANGED <<now, broker, pending, disk, tmp, file, issued, passes>>

\* A process starts, or an operation begins, with a broker read from the file.
\* A file that does not parse is an error and gives no broker.
Load(p) ==
  /\ pending[p] = NoCall
  /\ file # NoFile => disk[file].form = "grants"
  /\ broker' = [broker EXCEPT ![p] = IF file = NoFile THEN Empty ELSE disk[file].grants]
  /\ passes' = [passes EXCEPT ![p] = {}]
  /\ UNCHANGED <<now, pending, saving, disk, tmp, file, issued>>

Tick ==
  /\ now < MaxTime
  /\ now' = now + 1
  /\ UNCHANGED <<broker, pending, saving, disk, tmp, file, issued, passes>>

Next ==
  \/ \E p \in Process :
       \/ \E t \in Token, s \in Scope, ttl \in 1..MaxTTL : GrantBegins(p, t, s, ttl)
       \/ Grant(p)
       \/ \E s \in Scope : Check(p, s)
       \/ \E t \in Token, s \in Scope : CheckToken(p, t, s)
       \/ Inspect(p)
       \/ Load(p)
       \/ \E c \in Call : SaveCopies(c, p)
  \/ \E c \in Call : SaveOpens(c) \/ SaveWrites(c) \/ SaveRenames(c) \/ SaveFails(c)
  \/ Tick

Spec == Init /\ [][Next]_vars

-----------------------------------------------------------------------------
(***************************************************************************)
(* Properties.                                                             *)
(***************************************************************************)
\* A check passes only on a grant that a human issued for exactly this scope
\* and before it expired, however the grant reached the broker: by Grant, with
\* a clock read before the lock, or through a file another process wrote.
PassesAreGranted ==
  \A p \in Process : \A pass \in passes[p] :
    /\ pass[1] \in DOMAIN issued
    /\ pass[2] = issued[pass[1]].scope
    /\ issued[pass[1]].approvedAt <= pass[3]
    /\ pass[3] < issued[pass[1]].expiresAt

\* A grant lets one check pass in the broker that holds it: once consumed it
\* is used or gone there, and stays so until the broker is loaded again.
SingleUse ==
  \A p \in Process : \A a \in passes[p] :
    /\ a[1] \in DOMAIN broker[p] => broker[p][a[1]].used
    /\ \A b \in passes[p] : a[1] = b[1] => a = b

\* No broker and no file Load accepts ever holds a grant that differs from the
\* one issued, but for being used: Save and Load forge and prolong nothing.
StoresAreIssued ==
  \A g \in {broker[p] : p \in Process} \cup
          {disk[i].grants : i \in {j \in Inode : disk[j].form = "grants"}} :
    \A t \in DOMAIN g :
      t \in DOMAIN issued /\ [g[t] EXCEPT !.used = FALSE] = issued[t]

\* approval/store.go:63-64 says of Save that it "Writes to a temp file and
\* renames into place, so a concurrent Load never observes a partially-written
\* file."  It holds while Save calls do not overlap, whenever one of them
\* stops half-way and whatever it leaves in path.tmp.
LoadNeverPartial == file # NoFile => disk[file].form = "grants"

\* A check passes for an approval that was given, for its scope and in its time, and
\* for each approval once.
GrantsHonoured == TypeOK /\ PassesAreGranted /\ SingleUse

\* What Save and Load carry between processes is what was approved, complete.
StoreHonest == StoresAreIssued /\ LoadNeverPartial

===============================================================================
