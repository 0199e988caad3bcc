------------------------- MODULE BrokerAccess_proofs -------------------------
(***************************************************************************)
(* Proofs about the two queues before the broker.                          *)
(*                                                                         *)
(* ExitPool, for every number of paths, threads and permits: the safety    *)
(* properties follow from one inductive invariant.  It is stronger than    *)
(* the properties in three ways: a live thread has a path, the pool's      *)
(* registry and the lane's locks point at exactly the threads whose stage  *)
(* says so, and each counter of free permits is tied to the set of threads *)
(* between its acquire and its release.                                    *)
(*                                                                         *)
(* RestGovernor, for every burst, period and number of callers, whoever    *)
(* dies while it waits: no more than a burst of calls starts within a      *)
(* period, and no call overtakes one that stands before it in the file.    *)
(* The file does not keep what the ceiling speaks about: it drops old      *)
(* tokens and caps their ages.  Tracks says that the calls of the last     *)
(* period are exactly its youngest tokens, so the bound on the file is a   *)
(* bound on the calls.                                                     *)
(***************************************************************************)
EXTENDS ExitPool, RestGovernor, FiniteSetTheorems, SequenceTheorems, TLAPS

Registered == Stages \ {"release"}

Types ==
  /\ active \in [Paths -> Workers \union {None}]
  /\ pc \in [Workers -> Stages \union {"idle"}]
  /\ job \in [Workers -> Paths \union {None}]
  /\ permits \in Nat
  /\ tradeLock \in [Names -> Workers \union {None}]
  /\ laneFree \in Nat
  /\ inFlight \in Nat

LiveHasPath == \A w \in Workers : pc[w] \in Stages => job[w] \in Paths

LocksMatchThreads ==
  \A n \in Names, w \in Workers :
    tradeLock[n] = w <=> (pc[w] \in InTrade /\ NameOf[job[w]] = n)

LaneConserved == laneFree + Cardinality(Holders(InLane)) = LaneSize

InFlightExact == inFlight = Cardinality(Holders({"pipeline"}))

Links == LiveHasPath /\ RegistryMatchesThreads /\ LocksMatchThreads
Counts == PermitsConserved /\ LaneConserved /\ InFlightExact
IInv == Types /\ Links /\ Counts

-----------------------------------------------------------------------------
(* How the set of threads in given stages changes when one thread moves.   *)

LEMMA HoldersFinite ==
  ASSUME NEW S
  PROVE  IsFiniteSet(Holders(S)) /\ Cardinality(Holders(S)) \in Nat
<1>1. Holders(S) \subseteq Workers
  BY DEF Holders
<1>2. IsFiniteSet(Holders(S))
  BY <1>1, FiniteAssumption, FS_Subset
<1> QED BY <1>2, FS_CardinalityType

\* A thread that enters the stages S adds one to their number.
LEMMA HoldersEnter ==
  ASSUME NEW S, NEW w \in Workers, NEW s \in S, Types,
         pc[w] \notin S, pc' = [pc EXCEPT ![w] = s]
  PROVE  Cardinality(Holders(S)') = Cardinality(Holders(S)) + 1
<1>1. Holders(S)' = Holders(S) \union {w}
  BY DEF Holders, Types
<1>2. w \notin Holders(S)
  BY DEF Holders
<1> QED BY <1>1, <1>2, HoldersFinite, FS_AddElement

\* A thread that leaves the stages S takes one from their number.
LEMMA HoldersLeave ==
  ASSUME NEW S, NEW w \in Workers, NEW s, s \notin S, Types,
         pc[w] \in S, pc' = [pc EXCEPT ![w] = s]
  PROVE  /\ Cardinality(Holders(S)') = Cardinality(Holders(S)) - 1
         /\ Cardinality(Holders(S)) > 0
<1>1. Holders(S)' = Holders(S) \ {w}
  BY DEF Holders, Types
<1>2. w \in Holders(S)
  BY DEF Holders
<1>3. Cardinality(Holders(S) \ {w}) = Cardinality(Holders(S)) - 1
  BY <1>2, HoldersFinite, FS_RemoveElement
<1>4. Holders(S) # {}
  BY <1>2
<1>5. Cardinality(Holders(S)) # 0
  BY <1>4, HoldersFinite, FS_EmptySet
<1> QED BY <1>1, <1>3, <1>5, HoldersFinite

\* A thread that moves inside or outside the stages S leaves them alone.
LEMMA HoldersKeep ==
  ASSUME NEW S, NEW w \in Workers, NEW s, Types,
         pc[w] \in S <=> s \in S, pc' = [pc EXCEPT ![w] = s]
  PROVE  Holders(S)' = Holders(S)
BY DEF Holders, Types

\* A thread in its pipeline is in the lane.
LEMMA HoldersPipelineInLane ==
  Cardinality(Holders({"pipeline"})) <= Cardinality(Holders(InLane))
<1>1. Holders({"pipeline"}) \subseteq Holders(InLane)
  BY DEF Holders, InLane
<1> QED BY <1>1, HoldersFinite, FS_Subset

-----------------------------------------------------------------------------
LEMMA InitIInv == Init => IInv
<1> SUFFICES ASSUME Init PROVE IInv
  OBVIOUS
<1>1. Types
  BY BoundAssumption DEF Init, Types
<1>2. Links
  BY NoneAssumption
     DEF Init, Links, LiveHasPath, RegistryMatchesThreads, LocksMatchThreads, Stages, InTrade
<1>3. \A S : "idle" \notin S => Cardinality(Holders(S)) = 0
  BY FS_EmptySet DEF Init, Holders
<1>4. Counts
  BY <1>3, BoundAssumption
     DEF Init, Counts, PermitsConserved, LaneConserved, InFlightExact, InPool, InLane, Stages
<1> QED BY <1>1, <1>2, <1>4 DEF IInv

\* The registry, the locks and the jobs stay consistent: one step per action.
LEMMA LinksStep == IInv /\ [Next]_vars => Types' /\ Links'
<1> SUFFICES ASSUME IInv, [Next]_vars PROVE Types' /\ Links'
  OBVIOUS
<1> USE NameAssumption, NoneAssumption
    DEF IInv, Types, Links, LiveHasPath, RegistryMatchesThreads, LocksMatchThreads,
        Stages, InTrade
<1>1. ASSUME NEW p \in Paths, NEW w \in Workers, Submit(p, w) PROVE Types' /\ Links'
  BY <1>1 DEF Submit, HasJob, laneVars
<1>2. ASSUME NEW w \in Workers, SkipLane(w) PROVE Types' /\ Links'
  BY <1>2 DEF SkipLane, laneVars
<1>3. ASSUME NEW w \in Workers, AcquirePermit(w) PROVE Types' /\ Links'
  BY <1>3 DEF AcquirePermit, laneVars
<1>4. ASSUME NEW w \in Workers, LockTrade(w) PROVE Types' /\ Links'
  BY <1>4 DEF LockTrade
<1>5. ASSUME NEW w \in Workers, AcquireLane(w) PROVE Types' /\ Links'
  BY <1>5 DEF AcquireLane
<1>6. ASSUME NEW w \in Workers, EnterPipeline(w) PROVE Types' /\ Links'
  BY <1>6 DEF EnterPipeline
<1>7. ASSUME NEW w \in Workers, LeavePipeline(w) PROVE Types' /\ Links'
  BY <1>7 DEF LeavePipeline
<1>8. ASSUME NEW w \in Workers, ReleaseLane(w) PROVE Types' /\ Links'
  BY <1>8 DEF ReleaseLane
<1>9. ASSUME NEW w \in Workers, UnlockTrade(w) PROVE Types' /\ Links'
  BY <1>9 DEF UnlockTrade
<1>10. ASSUME NEW w \in Workers, PopJob(w) PROVE Types' /\ Links'
  BY <1>10 DEF PopJob, laneVars
<1>11. ASSUME NEW w \in Workers, ReleasePermit(w) PROVE Types' /\ Links'
  BY <1>11 DEF ReleasePermit, laneVars
<1>12. CASE UNCHANGED vars
  BY <1>12 DEF vars
<1> QED
  BY <1>1, <1>2, <1>3, <1>4, <1>5, <1>6, <1>7, <1>8, <1>9, <1>10, <1>11, <1>12
     DEF Next, Scan, Thread, Acquire, Progress

\* Every permit taken is accounted for by exactly one thread.
LEMMA CountsStep == IInv /\ [Next]_vars => Counts'
<1> SUFFICES ASSUME IInv, [Next]_vars PROVE Counts'
  OBVIOUS
<1> DEFINE P == Holders(InPool)
           L == Holders(InLane)
           F == Holders({"pipeline"})
<1>a. Types /\ PermitsConserved /\ LaneConserved /\ InFlightExact
  BY DEF IInv, Counts
<1>b. Cardinality(P) \in Nat /\ Cardinality(L) \in Nat /\ Cardinality(F) \in Nat
  BY HoldersFinite
<1>1. ASSUME NEW p \in Paths, NEW w \in Workers, Submit(p, w) PROVE Counts'
  <2>1. P' = P /\ L' = L /\ F' = F
    BY <1>1, <1>a, HoldersKeep DEF Submit, InPool, InLane, Stages
  <2> QED BY <2>1, <1>1, <1>a
          DEF Submit, laneVars, Counts, PermitsConserved, LaneConserved, InFlightExact
<1>2. ASSUME NEW w \in Workers, SkipLane(w) PROVE Counts'
  <2>1. P' = P /\ L' = L /\ F' = F
    BY <1>2, <1>a, HoldersKeep DEF SkipLane, InPool, InLane, Stages
  <2> QED BY <2>1, <1>2, <1>a
          DEF SkipLane, laneVars, Counts, PermitsConserved, LaneConserved, InFlightExact
<1>3. ASSUME NEW w \in Workers, AcquirePermit(w) PROVE Counts'
  <2>1. L' = L /\ F' = F
    BY <1>3, <1>a, HoldersKeep DEF AcquirePermit, InLane, Stages
  <2>2. Cardinality(P') = Cardinality(P) + 1
    BY <1>3, <1>a, HoldersEnter DEF AcquirePermit, InPool, Stages
  <2> QED BY <2>1, <2>2, <1>3, <1>a, <1>b, BoundAssumption
          DEF AcquirePermit, laneVars, Types, Counts, PermitsConserved, LaneConserved, InFlightExact
<1>4. ASSUME NEW w \in Workers, LockTrade(w) PROVE Counts'
  <2>1. P' = P /\ L' = L /\ F' = F
    BY <1>4, <1>a, HoldersKeep DEF LockTrade, InPool, InLane, Stages
  <2> QED BY <2>1, <1>4, <1>a
          DEF LockTrade, Counts, PermitsConserved, LaneConserved, InFlightExact
<1>5. ASSUME NEW w \in Workers, AcquireLane(w) PROVE Counts'
  <2>1. P' = P /\ F' = F
    BY <1>5, <1>a, HoldersKeep DEF AcquireLane, InPool, Stages
  <2>2. Cardinality(L') = Cardinality(L) + 1
    BY <1>5, <1>a, HoldersEnter DEF AcquireLane, InLane
  <2> QED BY <2>1, <2>2, <1>5, <1>a, <1>b, BoundAssumption
          DEF AcquireLane, Types, Counts, PermitsConserved, LaneConserved, InFlightExact
<1>6. ASSUME NEW w \in Workers, EnterPipeline(w) PROVE Counts'
  <2>1. P' = P /\ L' = L
    BY <1>6, <1>a, HoldersKeep DEF EnterPipeline, InPool, InLane, Stages
  <2>2. Cardinality(F') = Cardinality(F) + 1
    BY <1>6, <1>a, HoldersEnter DEF EnterPipeline
  <2> QED BY <2>1, <2>2, <1>6, <1>a, <1>b
          DEF EnterPipeline, Types, Counts, PermitsConserved, LaneConserved, InFlightExact
<1>7. ASSUME NEW w \in Workers, LeavePipeline(w) PROVE Counts'
  <2>1. P' = P /\ L' = L
    BY <1>7, <1>a, HoldersKeep DEF LeavePipeline, InPool, InLane, Stages
  <2>2. Cardinality(F') = Cardinality(F) - 1 /\ Cardinality(F) > 0
    BY <1>7, <1>a, HoldersLeave DEF LeavePipeline
  <2> QED BY <2>1, <2>2, <1>7, <1>a, <1>b
          DEF LeavePipeline, Types, Counts, PermitsConserved, LaneConserved, InFlightExact
<1>8. ASSUME NEW w \in Workers, ReleaseLane(w) PROVE Counts'
  <2>1. P' = P /\ F' = F
    BY <1>8, <1>a, HoldersKeep DEF ReleaseLane, InPool, Stages
  <2>2. Cardinality(L') = Cardinality(L) - 1
    BY <1>8, <1>a, HoldersLeave DEF ReleaseLane, InLane
  <2> QED BY <2>1, <2>2, <1>8, <1>a, <1>b, BoundAssumption
          DEF ReleaseLane, Types, Counts, PermitsConserved, LaneConserved, InFlightExact
<1>9. ASSUME NEW w \in Workers, UnlockTrade(w) PROVE Counts'
  <2>1. P' = P /\ L' = L /\ F' = F
    BY <1>9, <1>a, HoldersKeep DEF UnlockTrade, InPool, InLane, Stages
  <2> QED BY <2>1, <1>9, <1>a
          DEF UnlockTrade, Counts, PermitsConserved, LaneConserved, InFlightExact
<1>10. ASSUME NEW w \in Workers, PopJob(w) PROVE Counts'
  <2>1. P' = P /\ L' = L /\ F' = F
    BY <1>10, <1>a, HoldersKeep DEF PopJob, InPool, InLane, Stages
  <2> QED BY <2>1, <1>10, <1>a
          DEF PopJob, laneVars, Counts, PermitsConserved, LaneConserved, InFlightExact
<1>11. ASSUME NEW w \in Workers, ReleasePermit(w) PROVE Counts'
  <2>1. L' = L /\ F' = F
    BY <1>11, <1>a, HoldersKeep DEF ReleasePermit, InLane, Stages
  <2>2. Cardinality(P') = Cardinality(P) - 1
    BY <1>11, <1>a, HoldersLeave DEF ReleasePermit, InPool, Stages
  <2> QED BY <2>1, <2>2, <1>11, <1>a, <1>b, BoundAssumption
          DEF ReleasePermit, laneVars, Types, Counts, PermitsConserved, LaneConserved, InFlightExact
<1>12. CASE UNCHANGED vars
  <2>1. P' = P /\ L' = L /\ F' = F
    BY <1>12 DEF vars, Holders
  <2> QED BY <2>1, <1>12, <1>a
          DEF vars, Counts, PermitsConserved, LaneConserved, InFlightExact
<1> QED
  BY <1>1, <1>2, <1>3, <1>4, <1>5, <1>6, <1>7, <1>8, <1>9, <1>10, <1>11, <1>12
     DEF Next, Scan, Thread, Acquire, Progress

\* A lock per trade id: its holder is the only thread between acquire and
\* release.
LEMMA IInvSerialized == IInv => TradeSerialized
BY NameAssumption
   DEF IInv, Types, Links, LiveHasPath, LocksMatchThreads, TradeSerialized, Stages, InTrade

\* The inductive invariant holds in every reachable state.
THEOREM Invariance == Spec => []IInv
<1>1. IInv /\ [Next]_vars => IInv'
  BY LinksStep, CountsStep DEF IInv
<1> QED BY InitIInv, <1>1, PTL DEF Spec

-----------------------------------------------------------------------------
\* Type correctness of the pool and the lane; the counters stay within the
\* sizes they were created with.
THEOREM TypeCorrect == Spec => []TypeOK
<1>1. IInv => TypeOK
  BY HoldersFinite, BoundAssumption, HoldersPipelineInLane
     DEF IInv, Types, Counts, PermitsConserved, LaneConserved, InFlightExact, TypeOK
<1> QED BY Invariance, <1>1, PTL

\* One active exit owner per trade path: two registered threads never work on
\* the same trade (exit_pool._submit).
THEOREM OneOwner == Spec => []OneOwnerPerPath
<1>1. IInv => OneOwnerPerPath
  BY DEF IInv, Types, Links, LiveHasPath, RegistryMatchesThreads, OneOwnerPerPath, Stages
<1> QED BY Invariance, <1>1, PTL

\* The pool's registry holds exactly the jobs that may still act on a trade.
THEOREM RegistryExact == Spec => []RegistryMatchesThreads
<1>1. IInv => RegistryMatchesThreads
  BY DEF IInv, Links
<1> QED BY Invariance, <1>1, PTL

\* The pipelines of one trade id never overlap (BrokerLane.trade_pipeline).
THEOREM Serialized == Spec => []TradeSerialized
BY Invariance, IInvSerialized, PTL

\* The broker sees at most LaneSize pipelines at once and the heartbeat's
\* in_flight is their exact number (BrokerLane.run).
THEOREM LaneIsBounded == Spec => []LaneBounded
<1>1. IInv => LaneBounded
  BY HoldersFinite, BoundAssumption
     DEF IInv, Types, Counts, LaneConserved, InFlightExact, LaneBounded
<1> QED BY Invariance, <1>1, PTL

\* No job, failed or not, leaks a pool permit (exit_pool._runner).
THEOREM PermitsAreConserved == Spec => []PermitsConserved
<1>1. IInv => PermitsConserved
  BY DEF IInv, Counts
<1> QED BY Invariance, <1>1, PTL

\* All of it in one: exit_pool.py and broker_lane.py are safe for any number
\* of paths, threads, permits and lane places.
THEOREM PoolIsSound == Spec => []PoolSound
<1>1. OneOwnerPerPath /\ TradeSerialized /\ LaneBounded /\ PermitsConserved => PoolSound
  BY DEF PoolSound
<1> QED BY OneOwner, Serialized, LaneIsBounded, PermitsAreConserved, <1>1, PTL
-----------------------------------------------------------------------------
(* Refinement: the pool and the lane implement ExitRegistry (safety).      *)

\* The registry's phase of a job in a given stage.
PhaseOf(stage) ==
  IF stage \in Waiting THEN "waiting"
  ELSE IF stage = "pipeline" THEN "working"
  ELSE "leaving"

\* A registered thread is the owner of its path, and of no other.
LEMMA OwnerOfJob ==
  ASSUME IInv, NEW w \in Workers, pc[w] \in Registered
  PROVE  /\ job[w] \in Paths
         /\ \A p \in Paths : active[p] = w <=> p = job[w]
BY DEF IInv, Links, LiveHasPath, RegistryMatchesThreads, Registered, Stages

\* When a registered thread moves and keeps its path, only the phase of that
\* path follows it.
LEMMA PhaseFollows ==
  ASSUME IInv, NEW w \in Workers, NEW s \in Stages, pc[w] \in Registered,
         pc' = [pc EXCEPT ![w] = s], active' = active
  PROVE  /\ Phase[job[w]] = PhaseOf(pc[w])
         /\ Phase' = [Phase EXCEPT ![job[w]] = PhaseOf(s)]
<1>1. active \in [Paths -> Workers \union {None}] /\ pc \in [Workers -> Stages \union {"idle"}]
  BY DEF IInv, Types
<1>2. job[w] \in Paths /\ \A p \in Paths : active[p] = w <=> p = job[w]
  BY OwnerOfJob
<1>3. \A p \in Paths : p # job[w] => Phase'[p] = Phase[p]
  BY <1>1, <1>2, NoneAssumption DEF Phase
<1>4. Phase[job[w]] = PhaseOf(pc[w]) /\ Phase'[job[w]] = PhaseOf(s)
  BY <1>1, <1>2, NoneAssumption DEF Phase, PhaseOf
<1>5. DOMAIN Phase = Paths /\ DOMAIN Phase' = Paths
  BY DEF Phase
<1> QED BY <1>2, <1>3, <1>4, <1>5 DEF Phase

\* The registry never counts more working paths than there are pipelines.
LEMMA WorkingHavePipelines ==
  ASSUME IInv
  PROVE  /\ Cardinality(Registry!WorkingPaths) \in Nat
         /\ Cardinality(Registry!WorkingPaths) <= Cardinality(Holders({"pipeline"}))
<1> DEFINE W == Registry!WorkingPaths
           F == Holders({"pipeline"})
           owner == [p \in W |-> active[p]]
<1>1. active \in [Paths -> Workers \union {None}] /\ pc \in [Workers -> Stages \union {"idle"}]
  BY DEF IInv, Types
<1>2. \A p \in W : p \in Paths /\ active[p] \in Workers /\ pc[active[p]] = "pipeline"
  BY <1>1 DEF Registry!WorkingPaths, Phase
<1>3. \A p, q \in W : active[p] = active[q] => p = q
  BY <1>2, OwnerOfJob DEF Registered, Stages
<1>4. owner \in Injection(W, F)
  BY <1>2, <1>3 DEF Injection, IsInjective, Holders
<1> QED BY <1>4, HoldersFinite, FS_Injection, FS_CardinalityType

\* The registry counts with the operator of the same library module.
LEMMA RegistryCardinality == \A S : Registry!Cardinality(S) = Cardinality(S)
BY DEF Registry!Cardinality, Cardinality

\* Every step of a thread or of the scan is a step of the registry or leaves
\* it alone.  Only EnterPipeline needs more than the moving thread: no other
\* path of its trade id may work, and a place among LaneSize must be free.
LEMMA RegistryStep == IInv /\ [Next]_vars => [Registry!Next]_Phase
<1> SUFFICES ASSUME IInv, [Next]_vars PROVE [Registry!Next]_Phase
  OBVIOUS
<1>a. /\ active \in [Paths -> Workers \union {None}]
      /\ pc \in [Workers -> Stages \union {"idle"}]
      /\ Phase \in [Paths -> Registry!Phases]
  BY DEF IInv, Types, Phase, Registry!Phases
<1>b. ASSUME NEW w \in Workers, NEW s \in Stages, pc[w] \in Registered,
             pc' = [pc EXCEPT ![w] = s], active' = active, PhaseOf(s) = PhaseOf(pc[w])
      PROVE  UNCHANGED Phase
  <2>1. job[w] \in Paths /\ Phase[job[w]] = PhaseOf(s)
        /\ Phase' = [Phase EXCEPT ![job[w]] = PhaseOf(s)]
    BY <1>b, PhaseFollows, OwnerOfJob
  <2> QED BY <1>a, <2>1
<1>c. ASSUME NEW w \in Workers, NEW s \in Stages, pc[w] \in Registered,
             pc' = [pc EXCEPT ![w] = s], active' = active,
             PhaseOf(pc[w]) \in {"waiting", "working"}, PhaseOf(s) = "leaving"
      PROVE  Registry!Next
  <2>1. job[w] \in Paths /\ Phase[job[w]] = PhaseOf(pc[w])
        /\ Phase' = [Phase EXCEPT ![job[w]] = "leaving"]
    BY <1>c, PhaseFollows, OwnerOfJob, ZenonT(60)
  <2>2. Registry!Abandon(job[w]) \/ Registry!Finish(job[w])
    BY <1>c, <2>1 DEF Registry!Abandon, Registry!Finish
  <2> QED BY <2>1, <2>2 DEF Registry!Next, Registry!Proceed
<1>1. ASSUME NEW p \in Paths, NEW w \in Workers, Submit(p, w) PROVE Registry!Next
  <2>1. \A q \in Paths : active[q] # w
    BY <1>1 DEF Submit, IInv, Links, RegistryMatchesThreads, Stages
  <2>2. Phase[p] = "none"
    BY <1>1 DEF Submit, HasJob, Phase
  <2>3. \A q \in Paths : Phase'[q] = IF q = p THEN "waiting" ELSE Phase[q]
    BY <1>1, <1>a, <2>1, NoneAssumption DEF Submit, Phase, Waiting
  <2>4. Phase' = [Phase EXCEPT ![p] = "waiting"]
    BY <2>3 DEF Phase
  <2> QED BY <2>2, <2>4 DEF Registry!Next, Registry!Start
<1>2. ASSUME NEW w \in Workers, SkipLane(w) PROVE Registry!Next
  BY <1>2, <1>c DEF SkipLane, PhaseOf, Waiting, Registered, Stages
<1>3. ASSUME NEW w \in Workers, Acquire(w) PROVE UNCHANGED Phase
  BY <1>3, <1>b
     DEF Acquire, AcquirePermit, LockTrade, AcquireLane, laneVars, PhaseOf, Waiting, Registered, Stages
<1>4. ASSUME NEW w \in Workers, EnterPipeline(w) PROVE Registry!Next
  <2>1. /\ job[w] \in Paths
        /\ Phase[job[w]] = "waiting"
        /\ Phase' = [Phase EXCEPT ![job[w]] = "working"]
    BY <1>4, PhaseFollows, OwnerOfJob DEF EnterPipeline, PhaseOf, Waiting, Registered, Stages
  <2>2. \A q \in Registry!WorkingPaths : NameOf[q] # NameOf[job[w]]
    <3> SUFFICES ASSUME NEW q \in Registry!WorkingPaths
                 PROVE  NameOf[q] # NameOf[job[w]]
      OBVIOUS
    <3>1. q \in Paths /\ active[q] \in Workers /\ pc[active[q]] = "pipeline"
      BY <1>a DEF Registry!WorkingPaths, Phase
    <3>2. job[active[q]] = q
      BY <3>1, OwnerOfJob DEF Registered, Stages
    <3>3. active[q] # w /\ pc[w] \in InTrade /\ pc[active[q]] \in InTrade
      BY <1>4, <3>1 DEF EnterPipeline, InTrade
    <3> QED BY <3>1, <3>2, <3>3, IInvSerialized DEF TradeSerialized
  <2>3. Cardinality(Registry!WorkingPaths) < LaneSize
    <3> DEFINE F == Holders({"pipeline"})
               L == Holders(InLane)
    <3>1. F \subseteq L \ {w} /\ w \in L
      BY <1>4 DEF EnterPipeline, Holders, InLane
    <3>2. Cardinality(L \ {w}) = Cardinality(L) - 1
      BY <3>1, HoldersFinite, FS_RemoveElement
    <3>3. IsFiniteSet(L \ {w}) /\ Cardinality(F) <= Cardinality(L \ {w})
      BY <3>1, HoldersFinite, FS_Subset, FS_RemoveElement
    <3>4. Cardinality(L) <= LaneSize
      BY HoldersFinite, BoundAssumption DEF IInv, Types, Counts, LaneConserved
    <3>5. Cardinality(Registry!WorkingPaths) \in Nat
      BY WorkingHavePipelines
    <3> QED BY <3>2, <3>3, <3>4, <3>5, WorkingHavePipelines, HoldersFinite, BoundAssumption
  <2>4. Registry!Work(job[w])
    BY <2>1, <2>2, <2>3, RegistryCardinality DEF Registry!Work
  <2> QED BY <2>1, <2>4 DEF Registry!Next, Registry!Proceed
<1>5. ASSUME NEW w \in Workers, LeavePipeline(w) PROVE Registry!Next
  BY <1>5, <1>c DEF LeavePipeline, PhaseOf, Waiting, Registered, Stages
<1>6. ASSUME NEW w \in Workers, ReleaseLane(w) \/ UnlockTrade(w) PROVE UNCHANGED Phase
  BY <1>6, <1>b DEF ReleaseLane, UnlockTrade, PhaseOf, Waiting, Registered, Stages
<1>7. ASSUME NEW w \in Workers, PopJob(w) PROVE Registry!Next
  <2>1. job[w] \in Paths /\ \A p \in Paths : active[p] = w <=> p = job[w]
    BY <1>7, OwnerOfJob DEF PopJob, Registered, Stages
  <2>2. Phase[job[w]] = "leaving"
    BY <1>7, <2>1, NoneAssumption DEF PopJob, Phase, Waiting
  <2>3. \A q \in Paths : Phase'[q] = IF q = job[w] THEN "none" ELSE Phase[q]
    BY <1>7, <1>a, <2>1 DEF PopJob, Phase
  <2>4. Phase' = [Phase EXCEPT ![job[w]] = "none"]
    BY <2>3 DEF Phase
  <2>5. Registry!End(job[w])
    BY <2>2, <2>4 DEF Registry!End
  <2> QED BY <2>1, <2>5 DEF Registry!Next, Registry!Proceed
<1>8. ASSUME NEW w \in Workers, ReleasePermit(w) PROVE UNCHANGED Phase
  <2>1. \A q \in Paths : active[q] # w
    BY <1>8 DEF ReleasePermit, IInv, Links, RegistryMatchesThreads, Stages
  <2> QED BY <1>8, <1>a, <2>1 DEF ReleasePermit, Phase
<1>9. CASE UNCHANGED vars
  BY <1>9 DEF vars, Phase
<1> QED
  BY <1>1, <1>2, <1>3, <1>4, <1>5, <1>6, <1>7, <1>8, <1>9 DEF Next, Scan, Thread, Progress

\* The pool and the lane implement the registry: what the supervisor may rely
\* on (one exit job per path, the jobs of one trade id one after the other, at
\* most LaneSize at once) holds for threads, permits and locks.
THEOREM RefinesRegistry == Spec => Registry!Spec
<1>1. Init => Registry!Init
  BY DEF Init, Phase, Registry!Init
<1> QED BY Invariance, <1>1, RegistryStep, PTL DEF Spec, Registry!Spec

-----------------------------------------------------------------------------
(* --- logs, oldest entry first -------------------------------------------- *)
Sorted(log) == \A i, j \in 1..Len(log) : i < j => log[i] >= log[j]

\* The younger entries of a log are those behind its first n, for some n.
LEMMA YoungerIsEnd ==
  ASSUME NEW log \in Seq(Nat), NEW limit \in Nat, Sorted(log)
  PROVE  \E n \in 0..Len(log) :
           /\ Younger(log, limit) \in Seq(Nat)
           /\ Len(Younger(log, limit)) = Len(log) - n
           /\ \A i \in 1..(Len(log) - n) : Younger(log, limit)[i] = log[n + i]
           /\ \A i \in 1..n : log[i] >= limit
           /\ \A i \in (n + 1)..Len(log) : log[i] < limit
<1> DEFINE Old == {i \in DOMAIN log : log[i] >= limit}
           n == Cardinality(Old)
<1>1. DOMAIN log = 1..Len(log) /\ Len(log) \in Nat /\ \A i \in 1..Len(log) : log[i] \in Nat
  BY LenProperties, ElementOfSeq
<1>2. /\ Old \subseteq 1..Len(log)
      /\ \A i \in Old : 1..i \subseteq Old
  BY <1>1 DEF Sorted
<1>3. IsFiniteSet(Old) /\ n \in Nat /\ n <= Len(log)
  <2> HIDE DEF Old
  <2>1. IsFiniteSet(1..Len(log)) /\ Cardinality(1..Len(log)) = Len(log)
    BY <1>1, FS_Interval
  <2> QED
    BY <1>2, <2>1, FS_Subset, FS_CardinalityType, ZenonT(60)
<1>4. Old \subseteq 1..n
  <2> SUFFICES ASSUME NEW i \in Old PROVE i \in 1..n
    OBVIOUS
  <2>1. i \in 1..Len(log) /\ 1..i \subseteq Old
    BY <1>2
  <2>2. Cardinality(1..i) = i
    BY <1>1, <2>1, FS_Interval
  <2> HIDE DEF Old
  <2>3. Cardinality(1..i) <= n
    BY <1>3, <2>1, FS_Subset
  <2> QED
    BY <1>1, <1>3, <2>1, <2>2, <2>3
<1>5. Old = 1..n
  <2>1. IsFiniteSet(1..n) /\ Cardinality(1..n) = n
    BY <1>3, FS_Interval
  <2> HIDE DEF Old
  <2> QED
    BY <1>4, <2>1, FS_Subset
<1>6. /\ \A i \in 1..n : log[i] >= limit
      /\ \A i \in (n + 1)..Len(log) : log[i] < limit
  <2> HIDE DEF n
  <2>1. ASSUME NEW i \in (n + 1)..Len(log) PROVE log[i] < limit
    <3>1. i \notin Old /\ i \in DOMAIN log
      BY <1>1, <1>3, <1>5
    <3> QED
      BY <1>1, <3>1
  <2> QED
    BY <1>5, <2>1
<1>7. Younger(log, limit) = SubSeq(log, n + 1, Len(log))
  BY DEF Younger
<1> HIDE DEF n, Old
<1>8. /\ Younger(log, limit) \in Seq(Nat)
      /\ Len(Younger(log, limit)) = Len(log) - n
      /\ \A i \in 1..(Len(log) - n) : Younger(log, limit)[i] = log[n + i]
  <2> DEFINE len == Len(log)
  <2>1. n + 1 \in Int /\ len \in Int /\ \A i \in (n + 1)..len : log[i] \in Nat
    BY <1>1, <1>3
  <2>2. /\ SubSeq(log, n + 1, len) \in Seq(Nat)
        /\ Len(SubSeq(log, n + 1, len)) = IF n + 1 <= len THEN len - (n + 1) + 1 ELSE 0
        /\ \A i \in 1..(len - (n + 1) + 1) : SubSeq(log, n + 1, len)[i] = log[n + 1 + i - 1]
    BY <2>1, SubSeqProperties
  <2>3. /\ \A i \in Nat : n + 1 + i - 1 = n + i
        /\ len - (n + 1) + 1 = len - n
        /\ ~(n + 1 <= len) => len - n = 0
    <3>1. n \in Int /\ len \in Int /\ n <= len
      BY <1>1, <1>3
    <3> HIDE DEF len
    <3> QED
      BY <3>1
  <2> HIDE DEF len
  <2>4. \A i \in 1..(len - n) : i \in Nat
    OBVIOUS
  <2> QED
    BY <1>7, <2>2, <2>3, <2>4 DEF len
<1>9. n \in 0..Len(log)
  BY <1>1, <1>3
<1> QED
  BY <1>6, <1>8, <1>9

(* --- the inductive invariant --------------------------------------------- *)
GTypes ==
  /\ caller \in [Callers -> {"idle", "waiting", "sent", "gone"}]
  /\ since \in [Callers -> Nat]
  /\ queue \subseteq Callers /\ passed \subseteq Callers
  /\ stamps \in Seq(Nat) /\ recent \in Seq(Nat)

\* the youngest entries of a log of tokens are the calls of the last period
TracksIn(log) ==
  \E k \in 0..Len(log) :
    /\ Len(recent) = Len(log) - k
    /\ \A i \in 1..(Len(log) - k) : recent[i] = log[k + i] /\ recent[i] < Period
    /\ \A i \in 1..k : log[i] >= Period

Tokens == Len(stamps) <= Burst /\ Sorted(stamps) /\ TracksIn(stamps)

\* a caller that has made a pass stays in the file as long as it is not too old
Written == \A c \in passed : caller[c] = "waiting" /\ (Live(since[c]) => c \in queue)

GInv == GTypes /\ Tokens /\ Written

LEMMA Rates == /\ Burst \in Nat /\ Burst >= 1 /\ Period \in Nat /\ Period >= 1 /\ Memory \in Nat
               /\ Memory >= Period /\ Stale \in Nat
BY RateAssumption

LEMMA GInvInit == GInit => GInv
<1> SUFFICES ASSUME GInit PROVE GInv
  OBVIOUS
<1>1. stamps = << >> /\ recent = << >> /\ Len(stamps) = 0 /\ Len(recent) = 0 /\ stamps \in Seq(Nat)
      /\ recent \in Seq(Nat)
  BY DEF GInit
<1>2. Tokens
  <2>1. 0 \in 0..Len(stamps)
    BY <1>1
  <2> QED
    BY <1>1, <2>1, Rates DEF Tokens, Sorted, TracksIn
<1> QED
  BY <1>1, <1>2 DEF GInit, GInv, GTypes, Written

\* Dropping the tokens that are too old loses none that counts.
LEMMA Evicted ==
  ASSUME GTypes, Tokens
  PROVE  /\ FreshStamps \in Seq(Nat) /\ Len(FreshStamps) <= Burst /\ Sorted(FreshStamps)
         /\ TracksIn(FreshStamps)
<1>1. PICK n \in 0..Len(stamps) :
        /\ FreshStamps \in Seq(Nat)
        /\ Len(FreshStamps) = Len(stamps) - n
        /\ \A i \in 1..(Len(stamps) - n) : FreshStamps[i] = stamps[n + i]
        /\ \A i \in 1..n : stamps[i] >= Memory + 1
        /\ \A i \in (n + 1)..Len(stamps) : stamps[i] < Memory + 1
  <2>1. stamps \in Seq(Nat) /\ Memory + 1 \in Nat /\ Sorted(stamps)
    BY Rates DEF GTypes, Tokens
  <2> QED
    BY <2>1, YoungerIsEnd DEF FreshStamps
<1>2. /\ Len(stamps) \in Nat /\ \A i \in 1..Len(stamps) : stamps[i] \in Nat
      /\ Len(recent) \in Nat /\ \A i \in 1..Len(recent) : recent[i] \in Nat
  BY LenProperties, ElementOfSeq DEF GTypes
<1>3. Sorted(FreshStamps) /\ Len(FreshStamps) <= Burst
  <2>1. Len(FreshStamps) <= Burst
    BY <1>1, <1>2, Rates DEF Tokens
  <2>2. ASSUME NEW i \in 1..Len(FreshStamps), NEW j \in 1..Len(FreshStamps), i < j
        PROVE  FreshStamps[i] >= FreshStamps[j]
    <3>1. /\ FreshStamps[i] = stamps[n + i] /\ FreshStamps[j] = stamps[n + j]
          /\ n + i \in 1..Len(stamps) /\ n + j \in 1..Len(stamps) /\ n + i < n + j
      BY <1>1, <1>2, <2>2
    <3> QED
      BY <3>1 DEF Tokens, Sorted
  <2> QED
    BY <2>1, <2>2 DEF Sorted
<1>4. PICK k \in 0..Len(stamps) :
        /\ Len(recent) = Len(stamps) - k
        /\ \A i \in 1..(Len(stamps) - k) : recent[i] = stamps[k + i] /\ recent[i] < Period
        /\ \A i \in 1..k : stamps[i] >= Period
  BY DEF Tokens, TracksIn
<1>5. n <= k
  <2>1. ASSUME n > k PROVE FALSE
    <3>1. recent[n - k] = stamps[n] /\ recent[n - k] < Period /\ stamps[n] >= Memory + 1
      BY <1>1, <1>2, <1>4, <2>1
    <3> QED
      BY <1>1, <1>2, <2>1, <3>1, Rates
  <2> QED
    BY <1>1, <1>4, <2>1
<1>6. k - n \in 0..Len(FreshStamps) /\ Len(recent) = Len(FreshStamps) - (k - n)
  BY <1>1, <1>2, <1>4, <1>5
<1>7. \A i \in 1..(Len(FreshStamps) - (k - n)) :
        recent[i] = FreshStamps[(k - n) + i] /\ recent[i] < Period
  BY <1>1, <1>2, <1>4, <1>5
<1>8. \A i \in 1..(k - n) : FreshStamps[i] >= Period
  <2> SUFFICES ASSUME NEW i \in 1..(k - n) PROVE FreshStamps[i] >= Period
    OBVIOUS
  <2>1. n + i \in 1..k /\ i \in 1..Len(FreshStamps) /\ i \in 1..(Len(stamps) - n)
    BY <1>1, <1>2, <1>4, <1>5
  <2>2. FreshStamps[i] = stamps[n + i] /\ stamps[n + i] >= Period
    BY <1>1, <1>4, <2>1
  <2> QED
    BY <2>2
<1> QED
  BY <1>1, <1>3, <1>6, <1>7, <1>8 DEF TracksIn

\* A token is spent only where the calls of the period leave room for it.
LEMMA Spent ==
  ASSUME GTypes, Tokens, ~MustWait(FreshStamps), stamps' = Spend(FreshStamps),
         recent' = Append(recent, 0)
  PROVE  Tokens' /\ stamps' \in Seq(Nat) /\ recent' \in Seq(Nat)
<1> DEFINE log == FreshStamps
<1>1. log \in Seq(Nat) /\ Len(log) <= Burst /\ Sorted(log) /\ TracksIn(log) /\ Len(log) \in Nat
  BY Evicted, LenProperties
<1>2. PICK k \in 0..Len(log) :
        /\ Len(recent) = Len(log) - k
        /\ \A i \in 1..(Len(log) - k) : recent[i] = log[k + i] /\ recent[i] < Period
        /\ \A i \in 1..k : log[i] >= Period
  BY <1>1 DEF TracksIn
<1> DEFINE d == IF Len(log) >= Burst THEN 1 ELSE 0
           kept == IF Len(log) >= Burst THEN Tail(log) ELSE log
<1>3. Len(log) >= Burst => k >= 1
  <2>1. ASSUME Len(log) >= Burst, k = 0 PROVE FALSE
    BY <1>1, <1>2, <2>1, Rates DEF MustWait
  <2> QED
    BY <1>2, <2>1
<1>4. /\ kept \in Seq(Nat) /\ Len(kept) = Len(log) - d
      /\ \A i \in 1..(Len(log) - d) : kept[i] = log[i + d]
  BY <1>1, Rates, HeadTailProperties
<1>5. /\ stamps' \in Seq(Nat) /\ Len(stamps') = Len(log) - d + 1
      /\ \A i \in 1..(Len(log) - d) : stamps'[i] = log[i + d]
      /\ stamps'[Len(log) - d + 1] = 0
  <2>1. stamps' = kept \o <<0>>
    BY DEF Spend
  <2>2. <<0>> \in Seq(Nat) /\ Len(<<0>>) = 1 /\ <<0>>[1] = 0
    OBVIOUS
  <2>3. d \in {0, 1} /\ Len(kept) \in Nat
    BY <1>4, LenProperties
  <2> HIDE DEF kept, d, log
  <2>4. /\ kept \o <<0>> \in Seq(Nat) /\ Len(kept \o <<0>>) = Len(kept) + 1
        /\ \A i \in 1..(Len(kept) + 1) :
             (kept \o <<0>>)[i] = IF i <= Len(kept) THEN kept[i] ELSE <<0>>[i - Len(kept)]
    BY <1>4, <2>2, ConcatProperties
  <2>5. (kept \o <<0>>)[Len(kept) + 1] = 0 /\ \A i \in 1..Len(kept) : (kept \o <<0>>)[i] = kept[i]
    BY <2>2, <2>3, <2>4
  <2> QED
    BY <1>4, <2>1, <2>4, <2>5
<1> HIDE DEF log
<1>6. /\ recent' \in Seq(Nat) /\ Len(recent') = Len(recent) + 1 /\ recent'[Len(recent) + 1] = 0
      /\ \A i \in 1..Len(recent) : recent'[i] = recent[i]
  BY AppendProperties DEF GTypes
<1>7. \A i \in 1..Len(log) : log[i] \in Nat
  BY <1>1, ElementOfSeq
<1>8. Len(stamps') <= Burst
  BY <1>1, <1>5, Rates
<1>9. d \in Nat /\ d <= 1 /\ k \in Nat /\ Len(log) \in Nat /\ Len(log) - d \in Nat /\ d <= k /\ k <= Len(log)
  BY <1>1, <1>2, <1>3, Rates
<1> HIDE DEF d, kept
<1>10. Sorted(stamps')
  <2> SUFFICES ASSUME NEW i \in 1..(Len(log) - d + 1), NEW j \in 1..(Len(log) - d + 1), i < j
               PROVE  stamps'[i] >= stamps'[j]
    BY <1>5 DEF Sorted
  <2> DEFINE m == Len(log)
  <2>0. m \in Nat /\ i \in Int /\ j \in Int /\ 1 <= i /\ i < j /\ j <= m - d + 1
    BY <1>9
  <2>1. i \in 1..(m - d) /\ i + d \in 1..m /\ stamps'[i] = log[i + d]
    <3>1. i \in 1..(m - d) /\ i + d \in 1..m
      <4> HIDE DEF m
      <4> QED
        BY <2>0, <1>9
    <3> QED
      BY <1>5, <3>1
  <2>2. CASE j = Len(log) - d + 1
    BY <1>5, <1>7, <2>1, <2>2
  <2>3. CASE j # Len(log) - d + 1
    <3>1. j \in 1..(m - d) /\ j + d \in 1..m /\ i + d < j + d
      <4>1. j # m - d + 1
        BY <2>3
      <4> HIDE DEF m
      <4> QED
        BY <2>0, <1>9, <4>1
    <3>2. stamps'[j] = log[j + d]
      BY <1>5, <3>1
    <3> QED
      BY <1>1, <2>1, <3>1, <3>2 DEF Sorted
  <2> QED
    BY <2>2, <2>3
<1>11. k - d \in 0..Len(stamps') /\ Len(recent') = Len(stamps') - (k - d)
  BY <1>2, <1>5, <1>6, <1>9
<1>12. ASSUME NEW i \in 1..(Len(stamps') - (k - d))
       PROVE  recent'[i] = stamps'[(k - d) + i] /\ recent'[i] < Period
  <2>1. i \in 1..(Len(recent) + 1) /\ Len(recent) \in Nat
    BY <1>2, <1>5, <1>9
  <2>2. CASE i = Len(recent) + 1
    <3>1. (k - d) + i = Len(log) - d + 1
      BY <1>2, <1>9, <2>2
    <3> QED
      BY <1>5, <1>6, <2>2, <3>1, Rates
  <2>3. CASE i # Len(recent) + 1
    <3>1. i \in 1..Len(recent) /\ (k - d) + i \in 1..(Len(log) - d) /\ (k - d) + i + d = k + i
      <4> DEFINE m == Len(log)
      <4>1. i \in Int /\ m \in Nat /\ 1 <= i /\ i <= m - k
        BY <1>2, <1>9, <2>1, <2>3
      <4> HIDE DEF m
      <4>2. i \in 1..(m - k) /\ (k - d) + i \in 1..(m - d) /\ (k - d) + i + d = k + i
        BY <1>9, <4>1
      <4> QED
        BY <1>2, <4>2 DEF m
    <3> QED
      BY <1>2, <1>5, <1>6, <3>1
  <2> QED
    BY <2>2, <2>3
<1>13. ASSUME NEW i \in 1..(k - d) PROVE stamps'[i] >= Period
  <2>1. i \in 1..(Len(log) - d) /\ i + d \in 1..k
    BY <1>2, <1>9
  <2> QED
    BY <1>2, <1>5, <2>1
<1> QED
  BY <1>5, <1>6, <1>8, <1>10, <1>11, <1>12, <1>13 DEF Tokens, TracksIn

\* Time passes in the file and for the calls alike.
LEMMA Aged ==
  ASSUME GTypes, Tokens, stamps' = [i \in DOMAIN stamps |-> Older(stamps[i], Memory)],
         recent' = Younger([i \in DOMAIN recent |-> recent[i] + 1], Period)
  PROVE  Tokens' /\ stamps' \in Seq(Nat) /\ recent' \in Seq(Nat)
<1> DEFINE older == [i \in DOMAIN recent |-> recent[i] + 1]
<1>1. /\ DOMAIN stamps = 1..Len(stamps) /\ Len(stamps) \in Nat
      /\ DOMAIN recent = 1..Len(recent) /\ Len(recent) \in Nat
      /\ \A i \in 1..Len(stamps) : stamps[i] \in Nat
      /\ \A i \in 1..Len(recent) : recent[i] \in Nat
  BY LenProperties, ElementOfSeq DEF GTypes
<1>2. /\ stamps' \in Seq(Nat) /\ Len(stamps') = Len(stamps)
      /\ \A i \in 1..Len(stamps) : stamps'[i] = Older(stamps[i], Memory)
  BY <1>1, IsASeq, Rates DEF Older
<1>3. /\ older \in Seq(Nat) /\ Len(older) = Len(recent)
      /\ \A i \in 1..Len(recent) : older[i] = recent[i] + 1
  BY <1>1, IsASeq
<1> HIDE DEF older
<1>4. PICK k \in 0..Len(stamps) :
        /\ Len(recent) = Len(stamps) - k
        /\ \A i \in 1..(Len(stamps) - k) : recent[i] = stamps[k + i] /\ recent[i] < Period
        /\ \A i \in 1..k : stamps[i] >= Period
  BY DEF Tokens, TracksIn
<1>5. Sorted(stamps')
  <2> SUFFICES ASSUME NEW i \in 1..Len(stamps), NEW j \in 1..Len(stamps), i < j
               PROVE  stamps'[i] >= stamps'[j]
    BY <1>2 DEF Sorted
  <2>1. stamps[i] >= stamps[j] /\ stamps[i] \in Nat /\ stamps[j] \in Nat
    BY <1>1 DEF Tokens, Sorted
  <2> QED
    BY <1>2, <2>1, Rates, SMTT(60) DEF Older
<1>6. Sorted(older)
  <2> SUFFICES ASSUME NEW i \in 1..Len(recent), NEW j \in 1..Len(recent), i < j
               PROVE  recent[i] >= recent[j]
    BY <1>1, <1>3 DEF Sorted
  <2>1. /\ recent[i] = stamps[k + i] /\ recent[j] = stamps[k + j]
        /\ k + i \in 1..Len(stamps) /\ k + j \in 1..Len(stamps) /\ k + i < k + j
    BY <1>1, <1>4
  <2> QED
    BY <2>1 DEF Tokens, Sorted
<1>7. PICK n \in 0..Len(older) :
        /\ recent' \in Seq(Nat)
        /\ Len(recent') = Len(older) - n
        /\ \A i \in 1..(Len(older) - n) : recent'[i] = older[n + i]
        /\ \A i \in 1..n : older[i] >= Period
        /\ \A i \in (n + 1)..Len(older) : older[i] < Period
  BY <1>3, <1>6, YoungerIsEnd, Rates, ZenonT(40) DEF older
<1>8. k + n \in 0..Len(stamps') /\ Len(recent') = Len(stamps') - (k + n)
  <2>1. k \in Int /\ n \in Int /\ 0 <= k /\ 0 <= n /\ n <= Len(stamps) - k
    BY <1>1, <1>3, <1>4, <1>7
  <2>2. Len(recent') = Len(stamps) - k - n
    BY <1>3, <1>4, <1>7
  <2>3. Len(stamps') = Len(stamps) /\ Len(stamps) \in Nat
    BY <1>1, <1>2
  <2>4. k + n \in 0..Len(stamps)
    BY <2>1, <2>3
  <2>5. Len(stamps) - k - n = Len(stamps) - (k + n)
    BY <2>1, <2>3
  <2> QED
    BY <2>2, <2>3, <2>4, <2>5
<1>9. ASSUME NEW i \in 1..(Len(stamps') - (k + n))
      PROVE  recent'[i] = stamps'[(k + n) + i] /\ recent'[i] < Period
  <2>1. /\ n + i \in 1..Len(recent) /\ n + i \in (n + 1)..Len(older) /\ i \in 1..(Len(older) - n)
        /\ (k + n) + i \in 1..Len(stamps) /\ k + (n + i) = (k + n) + i
    BY <1>1, <1>2, <1>3, <1>4, <1>7
  <2>2. recent'[i] = recent[n + i] + 1 /\ recent'[i] < Period
    BY <1>3, <1>7, <2>1
  <2>3. recent[n + i] = stamps[(k + n) + i] /\ recent[n + i] < Period
    BY <1>1, <1>4, <2>1
  <2>4. stamps'[(k + n) + i] = stamps[(k + n) + i] + 1
    BY <1>1, <1>2, <2>1, <2>3, Rates DEF Older
  <2> QED
    BY <2>2, <2>3, <2>4
<1>10. ASSUME NEW i \in 1..(k + n) PROVE stamps'[i] >= Period
  <2>0. i \in 1..Len(stamps)
    BY <1>1, <1>3, <1>4, <1>7
  <2>1. CASE i <= k
    <3>1. stamps[i] >= Period
      BY <1>4, <2>1
    <3> QED
      BY <1>1, <1>2, <2>0, <3>1, Rates DEF Older
  <2>2. CASE i > k
    <3>1. i - k \in 1..n /\ i - k \in 1..Len(recent) /\ k + (i - k) = i
      BY <1>1, <1>3, <1>4, <1>7, <2>2
    <3>2. recent[i - k] = stamps[i] /\ recent[i - k] + 1 >= Period /\ recent[i - k] < Period
      BY <1>1, <1>3, <1>4, <1>7, <3>1
    <3> QED
      BY <1>1, <1>2, <2>0, <3>2, Rates DEF Older
  <2> QED
    BY <1>4, <2>1, <2>2
<1>11. TracksIn(stamps)'
  BY <1>8, <1>9, <1>10 DEF TracksIn
<1> QED
  BY <1>2, <1>5, <1>7, <1>11 DEF Tokens

LEMMA GInvStep == GInv /\ [GNext]_gvars => GInv'
<1> SUFFICES ASSUME GInv, [GNext]_gvars PROVE GInv'
  OBVIOUS
<1>1. GTypes /\ Tokens /\ Written
  BY DEF GInv
<1>2. UNCHANGED <<stamps, recent>> => Tokens'
  BY <1>1 DEF Tokens, TracksIn, Sorted
<1>3. ASSUME NEW c \in Callers, Call(c) \/ Skip(c) PROVE GInv'
  <2>1. CASE Call(c)
    <3>1. /\ caller[c] = "idle" /\ caller' = [caller EXCEPT ![c] = "waiting"]
          /\ since' = [since EXCEPT ![c] = 0] /\ UNCHANGED <<queue, passed, stamps, recent>>
      BY <2>1 DEF Call
    <3>2. Written'
      BY <1>1, <3>1 DEF GTypes, Written, Live
    <3> QED
      BY <1>1, <1>2, <3>1, <3>2 DEF GInv, GTypes
  <2>2. CASE Skip(c)
    BY <1>1, <1>2, <2>2 DEF Skip, GInv, GTypes, Written
  <2> QED
    BY <1>3, <2>1, <2>2
<1>4. ASSUME NEW c \in Callers, Pass(c) PROVE GInv'
  <2>1. CASE ~Best(c) \/ MustWait(FreshStamps)
    <3>1. /\ queue' = WaitingAfter(c) /\ stamps' = FreshStamps /\ passed' = passed \union {c}
          /\ UNCHANGED <<caller, recent, since>> /\ caller[c] = "waiting"
      BY <1>4, <2>1 DEF Pass
    <3>2. Tokens' /\ stamps' \in Seq(Nat)
      BY <1>1, <3>1, Evicted DEF Tokens, TracksIn, Sorted
    <3> QED
      BY <1>1, <3>1, <3>2 DEF GInv, GTypes, Written, WaitingAfter, Dropped, Live
  <2>2. CASE Best(c) /\ ~MustWait(FreshStamps)
    <3>1. /\ caller' = [caller EXCEPT ![c] = "sent"] /\ queue' = Dropped(c)
          /\ stamps' = Spend(FreshStamps) /\ recent' = Append(recent, 0)
          /\ passed' = passed \ {c} /\ UNCHANGED since
      BY <1>4, <2>2 DEF Pass
    <3>2. Tokens' /\ stamps' \in Seq(Nat) /\ recent' \in Seq(Nat)
      BY <1>1, <2>2, <3>1, Spent
    <3> QED
      BY <1>1, <3>1, <3>2 DEF GInv, GTypes, Written, Dropped, Live
  <2> QED
    BY <2>1, <2>2
<1>5. ASSUME NEW c \in Callers, Answer(c) PROVE GInv'
  BY <1>1, <1>2, <1>5 DEF Answer, GInv, GTypes, Written
<1>6. ASSUME NEW c \in Callers, Leave(c) PROVE GInv'
  BY <1>1, <1>2, <1>6 DEF Leave, GInv, GTypes, Written
<1>7. CASE CoolDown
  BY <1>1, <1>2, <1>7 DEF CoolDown, GInv, GTypes, Written
<1>8. CASE Tick
  <2>1. Tokens' /\ stamps' \in Seq(Nat) /\ recent' \in Seq(Nat)
    BY <1>1, <1>8, Aged DEF Tick
  <2>2. /\ since' \in [Callers -> Nat] /\ UNCHANGED <<caller, queue, passed>>
        /\ \A c \in Callers : caller[c] = "waiting" /\ Live(since'[c]) => Live(since[c])
    BY <1>1, <1>8, Rates DEF Tick, Older, Live, GTypes
  <2> QED
    BY <1>1, <2>1, <2>2 DEF GInv, GTypes, Written
<1>9. CASE UNCHANGED gvars
  BY <1>1, <1>2, <1>9 DEF gvars, GInv, GTypes, Written
<1> QED
  BY <1>3, <1>4, <1>5, <1>6, <1>7, <1>8, <1>9 DEF GNext

\* The calls of the last period are the youngest tokens of the file, and who
\* waits stays written in it (rest_limiter.py).
THEOREM GovernorInvariant == GSpec => []GInv
BY GInvInit, GInvStep, PTL DEF GSpec

\* All processes together never start more than a burst of calls within a
\* period, whatever their number (rest_limiter.py:5).
THEOREM CeilingIsHeld == GSpec => []CeilingHeld
<1>1. GInv => CeilingHeld
  <2> SUFFICES ASSUME GInv PROVE Len(recent) <= Burst
    BY DEF CeilingHeld
  <2>1. PICK k \in 0..Len(stamps) : Len(recent) = Len(stamps) - k
    BY DEF GInv, Tokens, TracksIn
  <2>2. Len(stamps) \in Nat /\ Len(stamps) <= Burst
    BY LenProperties DEF GInv, GTypes, Tokens
  <2> QED
    BY <2>1, <2>2, Rates
<1> QED
  BY <1>1, GovernorInvariant, PTL

\* A call let through stands before every caller that made a pass and is not
\* too old for the file (_best_waiter).
THEOREM RankIsKept == GSpec => RankKept
<1> DEFINE Kept == \A c \in Callers : caller[c] = "waiting" /\ caller'[c] = "sent" =>
             \A d \in passed \ {c} :
               Live(since[d]) => ~(Rank(d) < Rank(c) \/ (Rank(d) = Rank(c) /\ since[d] > since[c]))
<1>1. ASSUME GInv, GNext PROVE Kept
  <2> SUFFICES ASSUME NEW c \in Callers, caller[c] = "waiting", caller'[c] = "sent",
                      NEW d \in passed \ {c}, Live(since[d])
               PROVE  ~(Rank(d) < Rank(c) \/ (Rank(d) = Rank(c) /\ since[d] > since[c]))
    OBVIOUS
  <2>1. Pass(c) /\ Best(c)
    BY <1>1 DEF GNext, Call, Skip, Pass, Answer, Leave, CoolDown, Tick, GInv, GTypes
  <2>2. Entry(d) \in Others(c)
    BY <1>1 DEF GInv, Written, Others
  <2>3. /\ Rank(c) \in Nat /\ Rank(d) \in Nat /\ since[c] \in Nat /\ since[d] \in Nat
        /\ Entry(d).rank = Rank(d) /\ Entry(d).age = since[d]
    BY <1>1 DEF Rank, Entry, GInv, GTypes
  <2> QED
    BY <2>1, <2>2, <2>3 DEF Best
<1>2. GInv /\ [GNext]_gvars => [Kept]_gvars
  BY <1>1
<1> QED
  BY <1>2, GovernorInvariant, PTL DEF GSpec, RankKept
=============================================================================
