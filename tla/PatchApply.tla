------------------------------- MODULE PatchApply -------------------------------
(***************************************************************************)
(* patchapply.Apply and patchapply.Rollback (patchapply/): a batch of      *)
(* writes and deletions under one directory, gated by an approval, applied *)
(* file by file, with a journal from which it is undone.                   *)
(*                                                                         *)
(* One step is one operation on the file system, so that other programs    *)
(* may edit the tree between any two of them, and each may fail.  A path   *)
(* is the sequence of its components; the target directory is <<>>.        *)
(* Symbolic links are left out.                                            *)
(***************************************************************************)
EXTENDS Naturals, Sequences, SequencesExt, FiniteSets

CONSTANTS
  Path,      \* paths under the target directory, closed under prefixes
  Content,   \* what files hold
  Blank,     \* the empty content
  Mode,      \* permission bits
  NewMode,   \* defaultNewFileMode
  Trees,     \* trees Apply may find
  Batches,   \* batches it may be called with
  Faults,    \* operations that may fail: "read", "mkdir", "write", "remove"
  MaxFaults, \* bound: operations that fail
  MaxEdits   \* bound: edits by other programs

None == [kind |-> "none"]     \* no file, and no expectation
Dir == [kind |-> "dir"]
File(content, mode) == [kind |-> "file", content |-> content, mode |-> mode]
IsFile(x) == x.kind = "file"

VARIABLES
  fs,       \* the tree: a node for each path
  litter,   \* directories that hold a temporary file left behind
  batch,    \* the changes
  broker,   \* ApplyOptions.Broker: is there one
  grants,   \* the sets of paths its live grants are for
  pc,       \* where Apply or Rollback is
  entries,  \* captureCurrentState's journal entries
  applied,  \* entries of the changes made; the journal once Apply succeeded
  undo,     \* entries rollbackEntries has still to restore, last one first
  outcome,  \* what Apply returned: "none" while it runs, "ok" or "error"
  top,      \* ensureDir's topmost missing directory, <<>> for none
  cursor,   \* the directory that removeCreatedDir looks at
  undoErr,  \* has rollbackEntries collected an error
  approved, \* history: has this call consumed a grant
  origin,   \* history: the tree at Apply's call
  edited,   \* history: was the tree edited since the call in progress began
  edits, faults

call == <<batch, broker, origin>>
vars == <<fs, litter, batch, broker, grants, pc, entries, applied, undo, outcome,
          top, cursor, undoErr, approved, origin, edited, edits, faults>>

Steps == {"validate", "approve", "capture", "apply", "mkdir", "write", "applied",
          "undo", "undoDirs", "undoMkdir", "undoWrite", "failed",
          "rollback", "refused", "rolledBack"}

-----------------------------------------------------------------------------
(***************************************************************************)
(* The file system: what os calls see and do.                              *)
(***************************************************************************)
At(p) == IF p = <<>> THEN Dir ELSE fs[p]
Above(p) == {SubSeq(p, 1, k) : k \in 0..(Len(p) - 1)}
Below(p) == {q \in Path : IsStrictPrefix(p, q)}

\* ENOTDIR: some directory on the way is a file.
Blocked(p) == \E a \in Above(p) : IsFile(At(a))
EmptyDir(p) == At(p) = Dir /\ p \notin litter /\ \A q \in Below(p) : fs[q] = None

\* os.Remove succeeds on files and on empty directories.
Removable(p) == IsFile(At(p)) \/ EmptyDir(p)
Without(p) == [fs EXCEPT ![p] = None]

\* An operation of this kind fails although the tree allows it.
Fails(kind) == kind \in Faults /\ faults < MaxFaults /\ faults' = faults + 1
Works == UNCHANGED faults

-----------------------------------------------------------------------------
IsEntry(e) == /\ e.path \in Path /\ e.original \in {None} \cup
                   {File(c, m) : c \in Content, m \in Mode}
              /\ e.createdDir = <<>> \/ e.createdDir \in Path

PatchTypeOK ==
  /\ \A p \in Path : fs[p] \in {None, Dir} \cup {File(c, m) : c \in Content, m \in Mode}
  /\ \A p \in Path : fs[p] # None => At(Front(p)) = Dir
  /\ litter \subseteq Path \cup {<<>>}
  /\ pc \in Steps
  /\ \A s \in {entries, applied, undo} :
       Len(s) <= Len(batch) /\ \A i \in 1..Len(s) : IsEntry(s[i])
  /\ outcome \in {"none", "ok", "error"}
  /\ {undoErr, approved, edited, broker} \subseteq BOOLEAN

Init ==
  /\ fs \in Trees
  /\ litter = {}
  /\ batch \in Batches
  /\ broker \in BOOLEAN
  /\ grants = {}
  /\ pc = "validate"
  /\ entries = <<>> /\ applied = <<>> /\ undo = <<>>
  /\ outcome = "none"
  /\ top = <<>> /\ cursor = <<>>
  /\ undoErr = FALSE /\ approved = FALSE
  /\ origin = fs /\ edited = FALSE
  /\ edits = 0 /\ faults = 0

PathsOf(s) == {s[i].path : i \in 1..Len(s)}
Change == batch[Len(applied) + 1]
Entry == entries[Len(applied) + 1]

-----------------------------------------------------------------------------
(***************************************************************************)
(* Apply.                                                                  *)
(***************************************************************************)
Goto(step) ==
  /\ pc' = step
  /\ UNCHANGED <<fs, litter, entries, applied, undo, outcome, top, cursor, undoErr>>

\* A return before anything was written.
Refuse ==
  /\ pc' = "failed"
  /\ outcome' = "error"
  /\ UNCHANGED <<fs, litter, entries, applied, undo, top, cursor, undoErr>>

\* validateChangePaths: a path that does not resolve, or one twice.
Validate ==
  /\ pc = "validate"
  /\ IF \E p \in PathsOf(batch) : Blocked(p)
        \/ Cardinality(PathsOf(batch)) < Len(batch)
     THEN Refuse
     ELSE /\ Goto("approve")
  /\ UNCHANGED <<call, grants, approved, edited, edits, faults>>

\* checkBrokerScope with the scope BatchScope derives: consumes a grant for
\* exactly these paths.
Consume(paths) ==
  /\ paths \in grants
  /\ grants' = grants \ {paths}
  /\ approved' = TRUE

HasDelete == \E i \in 1..Len(batch) : batch[i].delete

\* checkApproval.
CheckApproval ==
  /\ pc = "approve"
  /\ \/ /\ broker /\ Consume(PathsOf(batch))
        /\ Goto("capture")
     \/ /\ IF broker THEN PathsOf(batch) \notin grants ELSE HasDelete
        /\ Refuse
        /\ UNCHANGED <<grants, approved>>
     \/ /\ ~broker /\ ~HasDelete
        /\ Goto("capture")
        /\ UNCHANGED <<grants, approved>>
  /\ UNCHANGED <<call, edited, edits, faults>>

\* What readCurrent returns for content: nil, which equals the empty content,
\* for a file that is not there.
Current(node) == IF IsFile(node) THEN node.content ELSE Blank

Expected(c, node) == c.expected # None => c.expected.content = Current(node)

\* captureCurrentState, one change.
Capture ==
  /\ pc = "capture"
  /\ Len(entries) < Len(batch)
  /\ LET c == batch[Len(entries) + 1]
         node == At(c.path)
     IN \/ /\ Fails("read") /\ Refuse
        \/ /\ Works
           /\ Blocked(c.path) \/ node = Dir \/ ~Expected(c, node)
           /\ Refuse
        \/ /\ Works
           /\ ~Blocked(c.path) /\ node # Dir /\ Expected(c, node)
           /\ entries' = Append(entries,
                [path |-> c.path, original |-> node, createdDir |-> <<>>])
           /\ UNCHANGED <<fs, litter, pc, applied, undo, outcome, top, cursor, undoErr>>
  /\ UNCHANGED <<call, grants, approved, edited, edits>>

CaptureEnds ==
  /\ pc = "capture"
  /\ Len(entries) = Len(batch)
  /\ Goto("apply")
  /\ UNCHANGED <<call, grants, approved, edited, edits, faults>>

\* A change failed: rollbackEntries on these entries, then the error.
Abort(list) ==
  /\ undo' = list
  /\ pc' = "undo"
  /\ outcome' = "error"
  /\ UNCHANGED <<fs, entries, applied, cursor, undoErr>>

\* The entry of the change in progress is complete.
Done(entry) ==
  /\ applied' = Append(applied, entry)
  /\ pc' = "apply"
  /\ UNCHANGED <<entries, undo, outcome, cursor, undoErr>>

\* applyDelete, of a file that captureCurrentState saw or did not see.
ApplyDelete ==
  /\ pc = "apply"
  /\ Len(applied) < Len(batch)
  /\ Change.delete
  /\ \/ /\ Entry.original = None
        /\ Works /\ Done(Entry)
        /\ UNCHANGED fs
     \/ /\ Entry.original # None /\ Removable(Change.path)
        /\ Works /\ Done(Entry)
        /\ fs' = Without(Change.path)
     \/ /\ Entry.original # None /\ ~Removable(Change.path)
        /\ Works /\ Abort(applied)
     \/ /\ Entry.original # None
        /\ Fails("remove") /\ Abort(applied)
  /\ UNCHANGED <<litter, top, call, grants, approved, edited, edits>>

\* ensureDir's look at the directory: where the missing chain starts.
MissingTop(dir) ==
  LET missing == {a \in Above(dir) \cup {dir} : At(a) = None}
  IN IF missing = {} THEN <<>> ELSE CHOOSE a \in missing : \A b \in missing : Len(a) <= Len(b)

\* applyWrite begins: ensureDir.
ApplyWrite ==
  /\ pc = "apply"
  /\ Len(applied) < Len(batch)
  /\ ~Change.delete
  /\ LET dir == Front(Change.path)
     IN \/ /\ ~Blocked(Change.path)
           /\ top' = MissingTop(dir)
           /\ pc' = IF At(dir) = Dir THEN "write" ELSE "mkdir"
           /\ UNCHANGED <<fs, entries, applied, undo, outcome, cursor, undoErr>>
        \/ /\ Blocked(Change.path)
           /\ top' = <<>>
           /\ Abort(Append(applied, Entry))
  /\ UNCHANGED <<litter, call, grants, approved, edited, edits, faults>>

\* The next directory os.MkdirAll makes for dir.
NextDir(dir) == MissingTop(dir)

\* os.MkdirAll makes one directory, or fails: then ensureDir returns "" and
\* what it made so far is not in the entry.
Mkdir ==
  /\ pc = "mkdir"
  /\ LET dir == Front(Change.path)
     IN \/ /\ Works /\ ~Blocked(Change.path) /\ At(dir) # Dir
           /\ fs' = [fs EXCEPT ![NextDir(dir)] = Dir]
           /\ UNCHANGED <<pc, entries, applied, undo, outcome, top, cursor, undoErr>>
        \/ /\ Works /\ ~Blocked(Change.path) /\ At(dir) = Dir
           /\ pc' = "write"
           /\ UNCHANGED <<fs, entries, applied, undo, outcome, top, cursor, undoErr>>
        \/ /\ \/ Blocked(Change.path) /\ Works
              \/ ~Blocked(Change.path) /\ At(dir) # Dir /\ Fails("mkdir")
           /\ Abort(Append(applied, Entry))
           /\ UNCHANGED top
  /\ UNCHANGED <<litter, call, grants, approved, edited, edits>>

\* writeViaRename on path: the rename needs the directory and no directory at
\* the path.  A failure removes the temporary file, unless that fails as well.
CanRename(p) == At(Front(p)) = Dir /\ At(p) # Dir
WriteFails(p) ==
  \/ ~CanRename(p) /\ Works /\ UNCHANGED litter
  \/ CanRename(p) /\ Fails("write") /\ UNCHANGED litter
  \/ /\ CanRename(p) /\ {"write", "remove"} \subseteq Faults
     /\ faults + 2 <= MaxFaults /\ faults' = faults + 2
     /\ litter' = litter \cup {Front(p)}

\* The mode applyAll writes with.
ModeFor(entry) == IF entry.original = None THEN NewMode ELSE entry.original.mode

\* applyWrite ends; on failure too the entry names the directories made.
Write ==
  /\ pc = "write"
  /\ LET entry == [Entry EXCEPT !.createdDir = top]
     IN \/ /\ CanRename(Change.path) /\ Works
           /\ fs' = [fs EXCEPT ![Change.path] = File(Change.content, ModeFor(Entry))]
           /\ Done(entry)
           /\ UNCHANGED litter
        \/ /\ WriteFails(Change.path)
           /\ Abort(Append(applied, entry))
  /\ UNCHANGED <<top, call, grants, approved, edited, edits>>

ApplyReturns ==
  /\ pc = "apply"
  /\ Len(applied) = Len(batch)
  /\ pc' = "applied"
  /\ outcome' = "ok"
  /\ UNCHANGED <<fs, litter, entries, applied, undo, top, cursor, undoErr,
                 call, grants, approved, edited, edits, faults>>

-----------------------------------------------------------------------------
(***************************************************************************)
(* rollbackEntries, by Apply after a failure and by Rollback.              *)
(***************************************************************************)
Target == Last(undo)

\* On to the entry before, with or without an error for this one.
NextEntry(failed) ==
  /\ undo' = Front(undo)
  /\ undoErr' = (undoErr \/ failed)
  /\ pc' = "undo"

\* restoreEntry of a path that was not there: os.Remove, then the directories
\* made for it unless they are gone.
UndoRemove ==
  /\ pc = "undo" /\ undo # <<>> /\ Target.original = None
  /\ \/ /\ Blocked(Target.path) \/ (At(Target.path) # None /\ ~Removable(Target.path))
        /\ Works /\ NextEntry(TRUE)
        /\ UNCHANGED <<fs, cursor>>
     \/ /\ Removable(Target.path) /\ Fails("remove") /\ NextEntry(TRUE)
        /\ UNCHANGED <<fs, cursor>>
     \/ /\ ~Blocked(Target.path)
        /\ At(Target.path) = None \/ Removable(Target.path)
        /\ Works
        /\ fs' = Without(Target.path)
        /\ IF Target.createdDir = <<>> \/ At(Target.createdDir) = None
           THEN NextEntry(FALSE) /\ UNCHANGED cursor
           ELSE /\ pc' = "undoDirs"
                /\ cursor' = Front(Target.path)
                /\ UNCHANGED <<undo, undoErr>>
  /\ UNCHANGED <<litter, entries, applied, outcome, top,
                 call, grants, approved, edited, edits>>

\* The walk of removeCreatedDir goes on above cursor, or ends at createdDir.
WalkUp ==
  IF cursor = Target.createdDir
  THEN NextEntry(FALSE) /\ UNCHANGED cursor
  ELSE cursor' = Front(cursor) /\ UNCHANGED <<undo, undoErr, pc>>

\* Mutant: os.RemoveAll on the directory.
RemoveAllCreatedDirs ==
  /\ pc = "undoDirs"
  /\ fs' = [p \in Path |-> IF IsPrefix(Target.createdDir, p) THEN None ELSE fs[p]]
  /\ NextEntry(FALSE)
  /\ UNCHANGED <<cursor, litter, entries, applied, outcome, top,
                 call, grants, approved, edited, edits, faults>>

\* removeCreatedDir, one directory: only an empty one is removed, and the
\* first that is not empty ends the walk.
RemoveCreatedDir ==
  /\ pc = "undoDirs"
  /\ \/ At(cursor) = None /\ ~Blocked(cursor) /\ Works /\ WalkUp /\ UNCHANGED fs
     \/ /\ At(cursor) = Dir /\ ~EmptyDir(cursor) /\ Works
        /\ NextEntry(FALSE) /\ UNCHANGED <<fs, cursor>>
     \/ EmptyDir(cursor) /\ Works /\ WalkUp /\ fs' = Without(cursor)
     \/ /\ \/ EmptyDir(cursor) /\ Fails("remove")
           \/ (IsFile(At(cursor)) \/ Blocked(cursor)) /\ Works
        /\ NextEntry(TRUE) /\ UNCHANGED <<fs, cursor>>
  /\ UNCHANGED <<litter, entries, applied, outcome, top,
                 call, grants, approved, edited, edits>>

\* restoreEntry of a path that was there: ensureDir, ...
UndoEnsureDir ==
  /\ pc = "undo" /\ undo # <<>> /\ Target.original # None
  /\ \/ Blocked(Target.path) /\ NextEntry(TRUE)
     \/ ~Blocked(Target.path) /\ pc' = "undoMkdir" /\ UNCHANGED <<undo, undoErr>>
  /\ UNCHANGED <<fs, cursor, litter, entries, applied, outcome, top,
                 call, grants, approved, edited, edits, faults>>

UndoMkdir ==
  /\ pc = "undoMkdir"
  /\ LET dir == Front(Target.path)
     IN \/ /\ ~Blocked(Target.path) /\ At(dir) # Dir /\ Works
           /\ fs' = [fs EXCEPT ![NextDir(dir)] = Dir]
           /\ UNCHANGED <<pc, undo, undoErr>>
        \/ /\ ~Blocked(Target.path) /\ At(dir) = Dir /\ Works
           /\ pc' = "undoWrite"
           /\ UNCHANGED <<fs, undo, undoErr>>
        \/ /\ \/ Blocked(Target.path) /\ Works
              \/ ~Blocked(Target.path) /\ At(dir) # Dir /\ Fails("mkdir")
           /\ NextEntry(TRUE)
           /\ UNCHANGED fs
  /\ UNCHANGED <<cursor, litter, entries, applied, outcome, top,
                 call, grants, approved, edited, edits>>

\* ... and writeViaRename with the original content and mode.
UndoWrite ==
  /\ pc = "undoWrite"
  /\ \/ /\ CanRename(Target.path) /\ Works
        /\ fs' = [fs EXCEPT ![Target.path] = Target.original]
        /\ NextEntry(FALSE)
        /\ UNCHANGED litter
     \/ WriteFails(Target.path) /\ NextEntry(TRUE) /\ UNCHANGED fs
  /\ UNCHANGED <<cursor, entries, applied, outcome, top,
                 call, grants, approved, edited, edits>>

UndoEnds ==
  /\ pc = "undo" /\ undo = <<>>
  /\ Goto(IF outcome = "error" THEN "failed" ELSE "rolledBack")
  /\ UNCHANGED <<call, grants, approved, edited, edits, faults>>

-----------------------------------------------------------------------------
(***************************************************************************)
(* Rollback of an Apply that succeeded, and the surroundings.              *)
(***************************************************************************)
\* Rollback is called, also again after it was refused or met errors.
Rollback ==
  /\ pc \in {"applied", "refused", "rolledBack"}
  /\ pc' = "rollback"
  /\ approved' = FALSE /\ edited' = FALSE /\ undoErr' = FALSE
  /\ UNCHANGED <<fs, litter, entries, applied, undo, outcome, top, cursor,
                 call, grants, edits, faults>>

\* The paths that Rollback has to delete.
CreatedPaths == {e \in ToSet(applied) : e.original = None}
DeletePaths == {e.path : e \in CreatedPaths}

\* Mutants: the order of application, and only the files Apply made.
JournalForward == Reverse(applied)
\* What Rollback hands to rollbackEntries.
Journal == applied

\* Every path of the journal resolves, and checkRollbackApproval.
CheckRollbackApproval ==
  /\ pc = "rollback"
  /\ LET blocked == \E p \in PathsOf(applied) : Blocked(p)
         needed == DeletePaths # {}
     IN \/ /\ ~blocked /\ needed /\ broker /\ Consume(DeletePaths)
           /\ pc' = "undo" /\ undo' = Journal
        \/ /\ ~blocked /\ ~needed
           /\ pc' = "undo" /\ undo' = Journal
           /\ UNCHANGED <<grants, approved>>
        \/ /\ blocked \/ (needed /\ ~(broker /\ DeletePaths \in grants))
           /\ pc' = "refused"
           /\ UNCHANGED <<undo, grants, approved>>
  /\ UNCHANGED <<fs, litter, entries, applied, outcome, top, cursor, undoErr,
                 call, edited, edits, faults>>

\* A human grants what is about to be asked for.
Grant ==
  /\ broker
  /\ \/ pc \in {"validate", "approve"} /\ grants' = grants \cup {PathsOf(batch)}
     \/ pc = "rollback" /\ grants' = grants \cup {DeletePaths}
  /\ UNCHANGED <<fs, litter, pc, entries, applied, undo, outcome, top, cursor, undoErr,
                 call, approved, edited, edits, faults>>

\* Another program writes or removes a file, makes or removes a directory.
Edit(p) ==
  /\ edits < MaxEdits
  /\ At(Front(p)) = Dir
  /\ \/ At(p) # Dir /\ \E c \in Content, m \in Mode : fs' = [fs EXCEPT ![p] = File(c, m)]
     \/ At(p) = None /\ fs' = [fs EXCEPT ![p] = Dir]
     \/ Removable(p) /\ fs' = Without(p)
  /\ edits' = edits + 1
  /\ edited' = TRUE
  /\ UNCHANGED <<litter, pc, entries, applied, undo, outcome, top, cursor, undoErr,
                 call, grants, approved, faults>>

Apply == \/ Validate \/ CheckApproval \/ Capture \/ CaptureEnds \/ ApplyDelete
         \/ ApplyWrite \/ Mkdir \/ Write \/ ApplyReturns
Undo == \/ UndoRemove \/ RemoveCreatedDir \/ UndoEnsureDir \/ UndoMkdir \/ UndoWrite
        \/ UndoEnds
Program == Apply \/ Undo \/ Rollback \/ CheckRollbackApproval

Next == Program \/ Grant \/ \E p \in Path : Edit(p)

Spec == Init /\ [][Next]_vars

-----------------------------------------------------------------------------
(***************************************************************************)
(* Properties.                                                             *)
(***************************************************************************)
\* Apply's comment (patchapply.go:438-444): on failure "targetDir has been
\* restored to its exact pre-Apply state", whichever operation failed, unless
\* the undoing failed too and the error says so, or another program edited
\* the tree meanwhile: contents, modes and directories.
FailedApplyRestores ==
  pc = "failed" /\ ~undoErr /\ edits = 0 /\ litter = {} => fs = origin

\* Where os.MkdirAll may stop half-way: files are restored all the same, and
\* what Apply leaves are empty directories that were not there.
FailedApplyRestoresFiles ==
  pc = "failed" /\ ~undoErr /\ edits = 0 =>
    \A p \in Path : fs[p] # origin[p] => origin[p] = None /\ fs[p] = Dir

\* Rollback of a successful Apply that returns nil brings back the tree Apply
\* found, also when an earlier Rollback call was refused or met an error.
RollbackRestores ==
  pc = "rolledBack" /\ ~undoErr /\ edits = 0 /\ litter = {} => fs = origin

\* A batch one of whose expectations the tree does not meet writes nothing at
\* any moment, whichever change it is: drift is looked for before any write.
DriftWritesNothing ==
  edits = 0 /\ (\E c \in ToSet(batch) :
                    c.expected # None /\ c.expected.content # Current(origin[c.path])) =>
    fs = origin /\ outcome # "ok"

\* Verify.
Verify == \A e \in ToSet(applied) : ~Blocked(e.path) /\ At(e.path) = e.original

\* When Rollback returns nil and nobody edits the tree during it, Verify finds
\* every journalled path as it was, whatever was edited between Apply and it.
RollbackVerifies == pc = "rolledBack" /\ ~undoErr /\ ~edited => Verify

\* Apply and Rollback touch the files of the batch and no others, and make and
\* remove directories above them only: a file that someone else put into a
\* directory made by Apply stays.
KeepsOthers ==
  [][edits' = edits => \A p \in Path : fs'[p] # fs[p] =>
       \/ p \in PathsOf(batch)
       \/ /\ {fs[p], fs'[p]} = {None, Dir}
          /\ \E q \in PathsOf(batch) : IsStrictPrefix(p, q)]_vars

\* Apply deletes a file, and Rollback removes one that Apply made, only in a
\* call that consumed a grant; Apply's undoing of its own failure needs none.
DeletesApproved ==
  [][edits' = edits /\ (\E p \in Path : IsFile(fs[p]) /\ fs'[p] = None) =>
       approved \/ outcome = "error"]_vars

===============================================================================
