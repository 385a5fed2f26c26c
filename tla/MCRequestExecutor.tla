-------------------------- MODULE MCRequestExecutor --------------------------
(* Three requests when nothing races with Stop(), two when calls and Stops   *)
(* do.                                                                       *)
EXTENDS RequestExecutor

Spare == CHOOSE r \in Async : TRUE

MCNext == Next /\ (lateCalls => caller'[Spare] = "start")

MCSpec == Init /\ [][MCNext]_<<vars, lateCalls>> /\ Fairness
=============================================================================
