---------------------------- MODULE BrokerAccess ----------------------------
(*************************************************************************)
(* The two queues before the broker, each on its own: the exit pool with  *)
(* its lane inside one process (ExitPool), and the account's rate         *)
(* governor between the processes (RestGovernor).  They share no variable *)
(* and wait for nothing of each other but the end of a broker call, which *)
(* each takes for granted; `part' says whose behaviour this is.           *)
(*************************************************************************)
EXTENDS MCExitPool, RestGovernor

VARIABLE part

AccessInit == Init /\ GInit /\ part \in {"pool", "governor"}

PoolStep == part = "pool" /\ Next /\ UNCHANGED <<gvars, part>>
GovernorStep == part = "governor" /\ GNext /\ UNCHANGED <<vars, part>>
TickStep == part = "governor" /\ Tick /\ UNCHANGED <<vars, part>>
PassStep(c) == part = "governor" /\ Pass(c) /\ UNCHANGED <<vars, part>>

AccessSpec ==
    /\ AccessInit /\ [][PoolStep \/ GovernorStep]_<<vars, gvars, part>>
    /\ Fairness
    /\ WF_gvars(TickStep) /\ \A c \in Callers : WF_gvars(PassStep(c))
=============================================================================
