---------------------------- MODULE ExitRegistry ----------------------------
(***************************************************************************)
(* What the exit worker pool and the broker lane promise their users       *)
(* (blocks/stop/v3/exit_pool.py, broker_lane.py), without threads, permits *)
(* or locks: each trade path has at most one exit job, a job waits, works  *)
(* on the trade inside the lane and leaves, jobs of one trade id never     *)
(* work together and at most LaneSize jobs work.  ExitPool implements it;  *)
(* ExitCommands and the supervisor's model use it.                         *)
(***************************************************************************)
EXTENDS Integers, FiniteSets

CONSTANTS
  Paths,       \* trade JSON paths
  Names,       \* trade ids of the lane
  NameOf,      \* os.path.basename
  LaneSize     \* STOP_BROKER_LANE_SIZE

VARIABLE phase \* where the exit job of each path is, "none" without a job

Phases == {"none", "waiting", "working", "leaving"}

WorkingPaths == {p \in Paths : phase[p] = "working"}

Init == phase = [p \in Paths |-> "none"]

\* submit() returned True
Start(p) ==
  /\ phase[p] = "none"
  /\ phase' = [phase EXCEPT ![p] = "waiting"]

\* the pipeline starts inside the lane
Work(p) ==
  /\ phase[p] = "waiting"
  /\ \A q \in WorkingPaths : NameOf[q] # NameOf[p]
  /\ Cardinality(WorkingPaths) < LaneSize
  /\ phase' = [phase EXCEPT ![p] = "working"]

\* the job ends without entering the lane
Abandon(p) ==
  /\ phase[p] = "waiting"
  /\ phase' = [phase EXCEPT ![p] = "leaving"]

\* the pipeline returned or raised
Finish(p) ==
  /\ phase[p] = "working"
  /\ phase' = [phase EXCEPT ![p] = "leaving"]

\* the path is free for the next submit()
End(p) ==
  /\ phase[p] = "leaving"
  /\ phase' = [phase EXCEPT ![p] = "none"]

Proceed(p) == Work(p) \/ Abandon(p) \/ Finish(p) \/ End(p)

Next == \E p \in Paths : Start(p) \/ Proceed(p)

Spec == Init /\ [][Next]_phase

\* Every accepted job goes on until its path is free again.
FairSpec == Spec /\ \A p \in Paths : WF_phase(Proceed(p))
=============================================================================
