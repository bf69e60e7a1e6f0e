---------------------------- MODULE TaskService ----------------------------
(***************************************************************************)
(* What the crypto pool promises its callers, without workers, queues or   *)
(* messages: every call returns a promise of its own, a promise settles    *)
(* once and in any order, a call after close() is refused, and close()     *)
(* resolves with every promise settled.                                    *)
(***************************************************************************)
EXTENDS Naturals

CONSTANT MaxTasks

VARIABLES calls, promise, phase

serviceVars == <<calls, promise, phase>>

ServiceInit ==
  /\ calls = 0
  /\ promise = [k \in 1 .. MaxTasks |-> "none"]
  /\ phase = "open"

Submit ==
  /\ calls < MaxTasks
  /\ calls' = calls + 1
  /\ promise' = [promise EXCEPT ![calls + 1] =
                   IF phase = "open" THEN "unsettled" ELSE "refused"]
  /\ UNCHANGED phase

Settle(k, outcome) ==
  /\ phase # "closed"
  /\ promise[k] = "unsettled"
  /\ promise' = [promise EXCEPT ![k] = outcome]
  /\ UNCHANGED <<calls, phase>>

BeginClose ==
  /\ phase = "open"
  /\ phase' = "closing"
  /\ UNCHANGED <<calls, promise>>

EndClose ==
  /\ phase = "closing"
  /\ phase' = "closed"
  /\ promise' = [k \in 1 .. MaxTasks |->
                   IF promise[k] = "unsettled" THEN "rejected" ELSE promise[k]]
  /\ UNCHANGED calls

ServiceNext ==
  \/ Submit
  \/ \E k \in 1 .. MaxTasks, outcome \in {"resolved", "rejected"} : Settle(k, outcome)
  \/ BeginClose
  \/ EndClose

ServiceSpec == ServiceInit /\ [][ServiceNext]_serviceVars
=============================================================================
