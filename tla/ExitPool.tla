------------------------------ MODULE ExitPool ------------------------------
(***************************************************************************)
(* The exit worker pool and the broker lane of the V3 stop engine          *)
(* (blocks/stop/v3/exit_pool.py, blocks/stop/v3/broker_lane.py).           *)
(*                                                                         *)
(* The scan thread submits one exit job per trade path; each job is a      *)
(* daemon thread that waits for a pool permit, then runs its handler's     *)
(* pipeline inside the broker lane (per-trade lock, then a global permit). *)
(* A Worker is a thread: it is "idle" before it is started and after it    *)
(* has ended, so that identifiers can be reused in a finite instance.      *)
(***************************************************************************)
EXTENDS Integers, FiniteSets

CONSTANTS
  Paths,       \* trade JSON paths
  Names,       \* base names of those paths: the trade ids of the lane
  NameOf,      \* os.path.basename, two strategies may share a base name
  Workers,     \* identities of exit threads
  None,        \* no worker / no path
  MaxJobs,     \* STOP_MAX_EXIT_JOBS
  LaneSize     \* STOP_BROKER_LANE_SIZE

ASSUME NameAssumption == NameOf \in [Paths -> Names]
ASSUME NoneAssumption == None \notin Paths /\ None \notin Workers
ASSUME FiniteAssumption == IsFiniteSet(Workers)
ASSUME BoundAssumption == MaxJobs \in Nat \ {0} /\ LaneSize \in Nat \ {0}

VARIABLES
  active,      \* ExitWorkerPool._active: path -> the job (thread) that owns it
  pc,          \* where each thread is
  job,         \* the path a thread was started for
  permits,     \* ExitWorkerPool._sem
  tradeLock,   \* BrokerLane._trade_locks: name -> holder
  laneFree,    \* BrokerLane._global
  inFlight     \* BrokerLane._in_flight

poolVars == <<active, pc, job, permits>>
laneVars == <<tradeLock, laneFree, inFlight>>
vars == <<active, pc, job, permits, tradeLock, laneFree, inFlight>>

\* Threads between t.start() and the end of _runner.
Stages == {"queued", "running", "laneLock", "lanePermit", "pipeline",
           "laneExit", "unlock", "finally", "release"}
InPool == Stages \ {"queued"}                  \* hold a pool permit
InTrade == {"laneLock", "lanePermit", "pipeline", "laneExit", "unlock"}
InLane == {"lanePermit", "pipeline", "laneExit"}

Holders(stages) == {w \in Workers : pc[w] \in stages}

Init ==
  /\ active = [p \in Paths |-> None]
  /\ pc = [w \in Workers |-> "idle"]
  /\ job = [w \in Workers |-> None]
  /\ permits = MaxJobs
  /\ tradeLock = [n \in Names |-> None]
  /\ laneFree = LaneSize
  /\ inFlight = 0

\* Mutant: the duplicate check always misses.
HasJobNever(p) == FALSE

HasJob(p) == active[p] # None

-----------------------------------------------------------------------------
(* The scan thread.                                                        *)

\* _submit: the duplicate check and the registration are one locked block.
Submit(p, w) ==
  /\ ~HasJob(p)
  /\ pc[w] = "idle"
  /\ active' = [active EXCEPT ![p] = w]
  /\ pc' = [pc EXCEPT ![w] = "queued"]
  /\ job' = [job EXCEPT ![w] = p]
  /\ UNCHANGED <<permits, laneVars>>

-----------------------------------------------------------------------------
(* An exit thread.                                                         *)

\* with self._sem
AcquirePermit(w) ==
  /\ pc[w] = "queued"
  /\ permits > 0
  /\ permits' = permits - 1
  /\ pc' = [pc EXCEPT ![w] = "running"]
  /\ UNCHANGED <<active, job, laneVars>>

\* Mutant: an exception before the lane ends the thread and leaks its permit.
SkipLaneLeaksPermit(w) ==
  /\ pc[w] = "running"
  /\ active' = [active EXCEPT ![job[w]] = None]
  /\ pc' = [pc EXCEPT ![w] = "idle"]
  /\ job' = [job EXCEPT ![w] = None]
  /\ UNCHANGED <<permits, laneVars>>

\* The handler raises, or returns, before it enters the lane.
SkipLane(w) ==
  /\ pc[w] = "running"
  /\ pc' = [pc EXCEPT ![w] = "finally"]
  /\ UNCHANGED <<active, job, permits, laneVars>>

\* Mutant: the lane has one lock per thread instead of one per trade.
LockTradeUnshared(w) ==
  /\ pc[w] = "running"
  /\ tradeLock' = [tradeLock EXCEPT ![NameOf[job[w]]] = w]
  /\ pc' = [pc EXCEPT ![w] = "laneLock"]
  /\ UNCHANGED <<active, job, permits, laneFree, inFlight>>

\* trade_pipeline: lock.acquire()
LockTrade(w) ==
  LET n == NameOf[job[w]] IN
  /\ pc[w] = "running"
  /\ tradeLock[n] = None
  /\ tradeLock' = [tradeLock EXCEPT ![n] = w]
  /\ pc' = [pc EXCEPT ![w] = "laneLock"]
  /\ UNCHANGED <<active, job, permits, laneFree, inFlight>>

\* Mutant: acquire(blocking=False) with its result ignored.
AcquireLaneNonBlocking(w) ==
  /\ pc[w] = "laneLock"
  /\ laneFree' = laneFree - 1
  /\ pc' = [pc EXCEPT ![w] = "lanePermit"]
  /\ UNCHANGED <<active, job, permits, tradeLock, inFlight>>

\* self._global.acquire()
AcquireLane(w) ==
  /\ pc[w] = "laneLock"
  /\ laneFree > 0
  /\ laneFree' = laneFree - 1
  /\ pc' = [pc EXCEPT ![w] = "lanePermit"]
  /\ UNCHANGED <<active, job, permits, tradeLock, inFlight>>

\* self._in_flight += 1, then fn() starts
EnterPipeline(w) ==
  /\ pc[w] = "lanePermit"
  /\ inFlight' = inFlight + 1
  /\ pc' = [pc EXCEPT ![w] = "pipeline"]
  /\ UNCHANGED <<active, job, permits, tradeLock, laneFree>>

\* Mutant: the counter is decremented only when the lane is released.
LeavePipelineUncounted(w) ==
  /\ pc[w] = "pipeline"
  /\ pc' = [pc EXCEPT ![w] = "laneExit"]
  /\ UNCHANGED <<active, job, permits, laneVars>>

\* fn() returns or raises: self._in_flight = max(0, self._in_flight - 1)
LeavePipeline(w) ==
  /\ pc[w] = "pipeline"
  /\ inFlight' = IF inFlight = 0 THEN 0 ELSE inFlight - 1
  /\ pc' = [pc EXCEPT ![w] = "laneExit"]
  /\ UNCHANGED <<active, job, permits, tradeLock, laneFree>>

\* self._global.release()
ReleaseLane(w) ==
  /\ pc[w] = "laneExit"
  /\ laneFree' = laneFree + 1
  /\ pc' = [pc EXCEPT ![w] = "unlock"]
  /\ UNCHANGED <<active, job, permits, tradeLock, inFlight>>

\* trade_pipeline: lock.release()
UnlockTrade(w) ==
  /\ pc[w] = "unlock"
  /\ tradeLock' = [tradeLock EXCEPT ![NameOf[job[w]]] = None]
  /\ pc' = [pc EXCEPT ![w] = "finally"]
  /\ UNCHANGED <<active, job, permits, laneFree, inFlight>>

\* Mutant: the pop is outside the finally block and an exception skips it.
PopJobSkipped(w) ==
  /\ pc[w] = "finally"
  /\ pc' = [pc EXCEPT ![w] = "release"]
  /\ UNCHANGED <<active, job, permits, laneVars>>

\* _runner's finally: self._active.pop(path, None)
PopJob(w) ==
  /\ pc[w] = "finally"
  /\ active' = [active EXCEPT ![job[w]] = None]
  /\ pc' = [pc EXCEPT ![w] = "release"]
  /\ UNCHANGED <<job, permits, laneVars>>

\* leaving "with self._sem": the permit is returned after the path was popped
ReleasePermit(w) ==
  /\ pc[w] = "release"
  /\ permits' = permits + 1
  /\ pc' = [pc EXCEPT ![w] = "idle"]
  /\ job' = [job EXCEPT ![w] = None]
  /\ UNCHANGED <<active, laneVars>>

Scan == \E p \in Paths, w \in Workers : Submit(p, w)

Acquire(w) == AcquirePermit(w) \/ LockTrade(w) \/ AcquireLane(w)

Progress(w) ==
  \/ EnterPipeline(w)
  \/ LeavePipeline(w)
  \/ ReleaseLane(w)
  \/ UnlockTrade(w)
  \/ PopJob(w)
  \/ ReleasePermit(w)

Thread(w) == SkipLane(w) \/ Acquire(w) \/ Progress(w)

Next == Scan \/ \E w \in Workers : Thread(w)

Spec == Init /\ [][Next]_vars

\* A runnable thread runs, a pipeline ends (every broker call has a timeout),
\* and a lock that is freed again and again is not withheld from one waiter
\* for ever.  Nothing makes the scan thread submit.
Fairness ==
  \A w \in Workers :
    /\ WF_vars(Progress(w))
    /\ SF_vars(AcquirePermit(w))
    /\ SF_vars(LockTrade(w))
    /\ SF_vars(AcquireLane(w))

FairSpec == Spec /\ Fairness

-----------------------------------------------------------------------------
TypeOK ==
  /\ active \in [Paths -> Workers \union {None}]
  /\ pc \in [Workers -> Stages \union {"idle"}]
  /\ job \in [Workers -> Paths \union {None}]
  /\ permits \in 0..MaxJobs
  /\ tradeLock \in [Names -> Workers \union {None}]
  /\ laneFree \in 0..LaneSize
  /\ inFlight \in 0..LaneSize

\* One active exit owner per trade path (exit_pool.py, STOP_MONITOR_V3_DESIGN
\* 6.3.1): two threads whose job is still registered never work on one path.
OneOwnerPerPath ==
  \A v, w \in Workers :
    /\ v # w
    /\ pc[v] \in Stages \ {"release"}
    /\ pc[w] \in Stages \ {"release"}
    => job[v] # job[w]

\* has_job(path) is true exactly while a thread that may still act on the
\* trade exists: the pool forgets no running job and keeps no dead one.
RegistryMatchesThreads ==
  \A p \in Paths, w \in Workers :
    active[p] = w <=> (pc[w] \in Stages \ {"release"} /\ job[w] = p)

\* BrokerLane serializes the steps of one trade: never two pipelines for
\* one trade id, even when two paths share the base name.
TradeSerialized ==
  \A v, w \in Workers :
    v # w /\ pc[v] \in InTrade /\ pc[w] \in InTrade => NameOf[job[v]] # NameOf[job[w]]

\* At most LaneSize pipelines talk to the broker, and the in_flight counter
\* published in the heartbeat is the number of them: max(0, ...) never hides
\* an imbalance.
LaneBounded ==
  /\ Cardinality(Holders(InLane)) <= LaneSize
  /\ inFlight = Cardinality(Holders({"pipeline"}))

\* At most MaxJobs jobs run, and no permit leaks when a handler fails.
PermitsConserved == permits + Cardinality(Holders(InPool)) = MaxJobs

\* The pool's safety in one: one thread per trade path, the steps of a trade
\* serialized, the lane and the permits counted (exit_pool.py, broker_lane.py).
PoolSound == OneOwnerPerPath /\ TradeSerialized /\ LaneBounded /\ PermitsConserved

\* Every accepted exit job ends: neither the permits nor the locks can make
\* the threads wait on each other for ever.
JobsEnd == \A p \in Paths : HasJob(p) ~> ~HasJob(p)

-----------------------------------------------------------------------------
(* Refinement: threads, permits and locks implement ExitRegistry.          *)

Waiting == {"queued", "running", "laneLock", "lanePermit"}

\* The registry's view of a path, from the stage of the thread that owns it.
Phase ==
  [p \in Paths |->
     IF active[p] = None THEN "none"
     ELSE IF pc[active[p]] \in Waiting THEN "waiting"
     ELSE IF pc[active[p]] = "pipeline" THEN "working"
     ELSE "leaving"]

Registry == INSTANCE ExitRegistry WITH phase <- Phase

\* The pool and the lane implement the registry: one job per path, jobs of
\* one trade id and more than LaneSize jobs never work together, and every
\* accepted job goes on until its path is free.
ImplementsRegistry == Registry!FairSpec
=============================================================================
