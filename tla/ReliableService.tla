--------------------------- MODULE ReliableService ---------------------------
(***************************************************************************)
(* What MeshService promises of reliable messages (MeshMessage.isReliable, *)
(* NetworkingBridge.onReliableMessageComplete): one is accepted at a time, *)
(* and each one accepted is completed once, with success or failure, or    *)
(* given up when the link is cleared.                                      *)
(***************************************************************************)
CONSTANTS ReliableMessages, NoMessage

VARIABLES pending,  \* the message accepted and not completed yet
          outcome   \* what has become of each message

vars == <<pending, outcome>>

Init == /\ pending = NoMessage
        /\ outcome = [m \in ReliableMessages |-> "new"]

Accept(m) == /\ pending = NoMessage
             /\ outcome[m] = "new"
             /\ pending' = m
             /\ outcome' = [outcome EXCEPT ![m] = "pending"]

Resolve(result) == /\ pending # NoMessage
                   /\ pending' = NoMessage
                   /\ outcome' = [outcome EXCEPT ![pending] = result]

Complete == \E result \in {"success", "failure"} : Resolve(result)

Drop == Resolve("dropped")

Next == (\E m \in ReliableMessages : Accept(m)) \/ Complete \/ Drop

\* What holds of it whatever the scheduling, and with its promise of completion.
SafeSpec == Init /\ [][Next]_vars

Spec == SafeSpec /\ WF_vars(Complete \/ Drop)
=============================================================================
