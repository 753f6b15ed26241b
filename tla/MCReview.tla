------------------------------- MODULE MCReview -------------------------------
(***************************************************************************)
(* The review service: an initial state picks one of its parts and the      *)
(* others stay as they are.  Of four webhook bodies one is of an action     *)
(* that is not reviewed and one of another installation.                    *)
(***************************************************************************)
EXTENDS ReviewService

CONSTANTS Scenes, b1, b2, b3, b4, i1, i2

VARIABLE scene

Installations == [b \in {b1, b2, b3, b4} |-> IF b = b3 THEN i2 ELSE i1]

Start == /\ W!Init /\ T!Init /\ I!Init
         /\ scene # "txn" => backend = "memory" /\ op = "seen"
Init == scene \in Scenes /\ Start

Next ==
  \/ scene = "worker" /\ W!Next /\ UNCHANGED <<scene, txnVars, intakeVars>>
  \/ scene = "txn" /\ T!Next /\ UNCHANGED <<scene, workerVars, intakeVars>>
  \/ scene = "intake" /\ I!Next /\ UNCHANGED <<scene, workerVars, txnVars>>

Spec == Init /\ [][Next]_<<scene, workerVars, txnVars, intakeVars>>
===============================================================================
