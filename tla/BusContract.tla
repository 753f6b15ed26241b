------------------------------ MODULE BusContract ------------------------------
(***************************************************************************)
(* What an EventBus promises of its Close (the doc comments of Close in     *)
(* nats, rabbitmq, watermill and JetStream): once it has returned without   *)
(* an error no handler is running, and none is started any more.            *)
(***************************************************************************)
CONSTANT Invocation

VARIABLES
  running,   \* invocations of handlers in progress
  returned   \* Close has returned nil

busVars == <<running, returned>>

Start(i) == /\ ~returned /\ i \notin running
            /\ running' = running \cup {i} /\ UNCHANGED returned

End(i) == i \in running /\ running' = running \ {i} /\ UNCHANGED returned

Return == running = {} /\ returned' = TRUE /\ UNCHANGED running

Init == running = {} /\ returned = FALSE

Next == Return \/ \E i \in Invocation : Start(i) \/ End(i)

Spec == Init /\ [][Next]_busVars
===============================================================================
