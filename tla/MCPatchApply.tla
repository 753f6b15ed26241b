------------------------------ MODULE MCPatchApply ------------------------------
(***************************************************************************)
(* Batches of changes over a file in the target directory, one in a         *)
(* directory and one in a directory below that, and over the directory's    *)
(* own path.  An initial state picks a scene: "patch" (pairs of changes,    *)
(* operations that fail) or "edits" (three changes, a directory that cannot *)
(* be made, other programs' edits).                                         *)
(***************************************************************************)
EXTENDS Naturals, Sequences

CONSTANTS Scenes, PatchFaults

VARIABLES scene, fs, litter, batch, broker, grants, pc, entries, applied, undo, outcome,
          top, cursor, undoErr, approved, origin, edited, edits, faults

patchVars == <<fs, litter, batch, broker, grants, pc, entries, applied, undo, outcome,
               top, cursor, undoErr, approved, origin, edited, edits, faults>>

f == <<"f">>
d == <<"d">>
x == <<"d", "x">>
e == <<"d", "e">>
y == <<"d", "e", "y">>

Paths == {f, d, x, e, y}
None == [kind |-> "none"]
OldFile(content) == [kind |-> "file", content |-> content, mode |-> 600]

\* The tree with these directories, where these paths are old files.
Tree(dirs, files) ==
  [p \in Paths |-> IF p \in dirs THEN [kind |-> "dir"]
                   ELSE IF p \in files THEN OldFile("old") ELSE None]

SomeTrees == {Tree({}, {}), Tree({}, {f, d}), Tree({d}, {f, x}), Tree({d, e}, {y})}

Changes(paths, expected) ==
  [path : paths, delete : BOOLEAN, content : {"new"}, expected : expected]

Plain == Changes({f, d, x, y}, {None})
Expecting == Changes({f, x}, {OldFile(c) : c \in {"blank", "old"}})

\* Every pair of changes, and pairs where one or the other expects something.
Pairs ==
  {<<a>> : a \in Plain} \cup (Plain \X Plain)
    \cup (Plain \X Expecting) \cup (Expecting \X Plain)

\* Three changes, two of them below the same directory.
Triples == Changes({x}, {None}) \X Changes({x, y}, {None}) \X Changes({y, f}, {None})

P == INSTANCE PatchApply WITH
  Path <- Paths, Content <- {"blank", "old", "new"}, Blank <- "blank", Mode <- {600, 644},
  NewMode <- 644, Trees <- SomeTrees, Batches <- Pairs, Faults <- PatchFaults, MaxFaults <- 2,
  MaxEdits <- 0

E == INSTANCE PatchApply WITH
  Path <- Paths, Content <- {"blank", "old", "new"}, Blank <- "blank", Mode <- {600, 644},
  NewMode <- 644, Trees <- SomeTrees, Batches <- Triples, Faults <- {"mkdir"}, MaxFaults <- 1,
  MaxEdits <- 2

Init == scene \in Scenes /\ IF scene = "patch" THEN P!Init ELSE E!Init

Next ==
  \/ scene = "patch" /\ P!Next /\ UNCHANGED scene
  \/ scene = "edits" /\ E!Next /\ UNCHANGED scene

Spec == Init /\ [][Next]_<<scene, patchVars>>

(***************************************************************************)
(* Properties, each where its assumptions hold: nobody else edits the tree, *)
(* or no directory operation fails.                                         *)
(***************************************************************************)
\* An Apply that returns an error has restored the tree.
FailedApplyRestores == scene = "patch" => P!FailedApplyRestores

\* The same with drift, which writes nothing, and, where other programs edit the
\* tree and directories cannot be made, for every file nobody edited.
FailedApplyIsUndone ==
  /\ scene \in {"patch", "edits"} => P!PatchTypeOK
  /\ FailedApplyRestores /\ (scene = "patch" => P!DriftWritesNothing)
  /\ scene = "edits" => E!FailedApplyRestoresFiles

\* A Rollback that returns nil has brought back the tree that Apply found, and where
\* the tree was edited since, what Verify looks at.
RollbackUndoes ==
  (scene = "patch" => P!RollbackRestores) /\ (scene = "edits" => E!RollbackVerifies)

\* Both ways back: a failed Apply and a Rollback undo what was applied, and the journal
\* they go through brings back what was there before each change.
UndoRestores == FailedApplyIsUndone /\ RollbackUndoes

\* Apply and Rollback leave other files alone, those put into their directories
\* included, and delete a file only in a call that consumed a grant.
RemovesOnlyItsOwn == E!KeepsOthers /\ E!DeletesApproved
===============================================================================
