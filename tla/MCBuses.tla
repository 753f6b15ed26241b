------------------------------- MODULE MCBuses -------------------------------
(***************************************************************************)
(* The four event buses side by side: an initial state picks one of them    *)
(* and the variables of the others stay as they are.  Of Watermill's two    *)
(* subscriptions one, plain or pooled, is made in a behaviour.              *)
(***************************************************************************)
EXTENDS LocalBuses, RabbitPromises, JetPromises

CONSTANTS Scenes, plain, pooled

VARIABLE scene

\* Two calls that name one consumer and disagree about it.
Wants == [l \in {plain, pooled} |-> IF l = plain THEN [policy |-> "all", conf |-> 1]
                                                 ELSE [policy |-> "new", conf |-> 2]]

Start == Nats!Init /\ W!Init /\ R!Init /\ J!Init
Init == scene \in Scenes /\ Start

Watermill(absent) ==
  W!Next /\ wStep'[absent] = "new" /\ UNCHANGED <<scene, natsVars, rabbitVars, jetVars>>

Next ==
  \/ scene = "nats" /\ Nats!Next /\ UNCHANGED <<scene, watermillVars, rabbitVars, jetVars>>
  \/ scene = "watermill plain" /\ Watermill(pooled)
  \/ scene = "watermill pooled" /\ Watermill(plain)
  \/ scene = "rabbit" /\ R!Next /\ UNCHANGED <<scene, natsVars, watermillVars, jetVars>>
  \/ scene = "jetstream" /\ J!Next /\ UNCHANGED <<scene, natsVars, watermillVars, rabbitVars>>

vars == <<scene, natsVars, watermillVars, rabbitVars, jetVars>>

Spec == Init /\ [][Next]_vars
===============================================================================
