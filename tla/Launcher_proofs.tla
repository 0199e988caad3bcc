--------------------------- MODULE Launcher_proofs ---------------------------
(***************************************************************************)
(* For any number of days, processes and faults: one process of a service  *)
(* is past its lock, a launcher that sleeps has left nothing running, and  *)
(* entries run on days and with probes that the calendar allows.           *)
(*                                                                         *)
(* Why it holds: a process that runs is the one its lock file names, and   *)
(* no process is started before the last one has taken its lock (Locks);   *)
(* what the launcher started and still runs is what it has a handle of     *)
(* (Handles); the coordinator runs only between the market's open and the  *)
(* first look at the clock after the close (Session).                      *)
(***************************************************************************)
EXTENDS Launcher, FiniteSetTheorems, TLAPS

Runs(svc, i) == child[svc][i].at # "none"
Starting(svc, i) == child[svc][i].at \in {"boot", "checked"}

Runner == [thread : BOOLEAN, done : BOOLEAN, stop : BOOLEAN, entered : BOOLEAN,
           skip : BOOLEAN, open : BOOLEAN, off : BOOLEAN]
Child == [at : {"none", "boot", "checked", "up"}, own : BOOLEAN]
Main == [pc : {"off", "day", "wait", "start", "loop", "eod", "final", "asleep", "mwait"},
         closed : BOOLEAN, since : 0..Days, trade : BOOLEAN, ends : BOOLEAN]

Types ==
  /\ main \in Main /\ child \in [Services -> [Ids -> Child]] /\ runner \in [Runners -> Runner]
  /\ lock \in [Services -> Ids \cup {0}] /\ handle \in [Services -> Ids \cup {0}]
  /\ budget \in [of : Scenarios, left : 0..MaxFaults]
  /\ day \in 1..Days /\ hour \in 1..Len(Phase) /\ kind \in [1..Days -> {"trade", "closed", "fomc"}]
  /\ entry \in BOOLEAN /\ probes \in 0..Days /\ press \in BOOLEAN
  /\ dash \in {"down", "child", "orphan"} /\ panel \in Services \cup {"none"}

Locks ==
  "overlap" \notin budget.of =>
    \A svc \in Services, i, j \in Ids :
      /\ child[svc][i].at = "up" => lock[svc] = i
      /\ Starting(svc, i) /\ Starting(svc, j) => i = j
      /\ child[svc][i].at = "checked" => child[svc][j].at # "up"

Handles ==
  /\ \A svc \in Services, i \in Ids : child[svc][i].own /\ Runs(svc, i) => handle[svc] = i
  /\ main.pc \in {"off", "day", "wait", "asleep", "final"} => \A svc \in Services : handle[svc] = 0
  /\ main.pc \in {"eod", "mwait"} => main.closed
  /\ main.pc \in {"loop", "eod", "mwait"} /\ main.closed => handle["stop_monitor"] = 0

Threads ==
  /\ \A r \in Runners : runner[r].thread => r \in Loaded
  /\ main.pc \in {"off", "day", "wait", "start", "asleep", "final"} =>
       ~entry /\ \A r \in Runners : ~runner[r].thread

\* the entry coordinator of a launcher that does not run on overnight
Session ==
  /\ main.pc = "mwait" => "overnight" \in budget.of
  /\ main.pc \in {"wait", "start"} => (main.trade <=> kind[day] = "trade") /\ probes = day
  /\ main.pc = "start" => ~main.closed /\ main.since = day /\ hour = 3
  /\ entry /\ "overnight" \notin budget.of =>
       /\ main.pc = "loop" /\ ~main.closed /\ main.since = day /\ hour \in {3, 4}
       /\ kind[day] = "trade" /\ probes = day

IInv == Types /\ Locks /\ Handles /\ Threads /\ Session

(* --- lemmas -------------------------------------------------------------- *)
\* What the assumption on the constants says.
LEMMA Sizes == Days \in Nat /\ Days >= 1 /\ MaxFaults \in Nat /\ Instances \in Nat
BY LauncherAssumption

\* The values that main's fields are set to are in their sets.
LEMMA DayIs == ASSUME Types PROVE day \in 0..Days /\ 0 \in 0..Days /\ main \in Main
BY Sizes DEF Types

\* The five phases of a day.
LEMMA Phases ==
  /\ Len(Phase) = 5 /\ Phase[1] = "early" /\ Phase[2] = "prep" /\ Phase[3] = "open"
  /\ Phase[4] = "close" /\ Phase[5] = "evening"
BY DEF Phase

\* what Now says of the hour
LEMMA Hours ==
  ASSUME hour \in 1..Len(Phase)
  PROVE  /\ hour \in 1..5 /\ (Now = "open" <=> hour = 3) /\ (Now = "early" <=> hour = 1)
         /\ (Now = "prep" <=> hour = 2) /\ (Now = "close" <=> hour = 4)
         /\ (Now = "evening" <=> hour = 5)
<1>1. hour \in 1..5
  BY Phases
<1>2. hour = 1 \/ hour = 2 \/ hour = 3 \/ hour = 4 \/ hour = 5
  BY <1>1
<1> QED
  BY <1>1, <1>2, Phases DEF Now

\* A fault leaves the run's scenario as it is.
LEMMA FaultIs ==
  ASSUME Types, NEW f, Fault(f)
  PROVE  budget' \in [of : Scenarios, left : 0..MaxFaults] /\ budget'.of = budget.of
<1>1. budget \in [of : Scenarios, left : 0..MaxFaults] /\ budget.left > 0
      /\ budget' = [budget EXCEPT !.left = budget.left - 1]
  BY DEF Types, Fault
<1>2. budget.left - 1 \in 0..MaxFaults
  BY <1>1, Sizes
<1> QED
  BY <1>1, <1>2

\* Processes that end, and a lock file that stays, leave the locks in order.
LEMMA FewerRun ==
  ASSUME Types, Locks, lock' = lock, budget'.of = budget.of,
         \A svc \in Services, i \in Ids : child'[svc][i].at \in {child[svc][i].at, "none"}
  PROVE  Locks'
BY DEF Locks, Starting

\* A step that touches no process keeps the locks.
LEMMA SameLocks ==
  ASSUME Locks, UNCHANGED processes, budget'.of = budget.of
  PROVE  Locks'
BY DEF Locks, Starting, processes

\* A started process is a new one, and the only one that is not past its lock.
LEMMA SpawnedIs ==
  ASSUME Types, NEW svcs \in SUBSET Services, NEW mine \in BOOLEAN, Spawned(svcs, mine)
  PROVE  /\ child' \in [Services -> [Ids -> Child]] /\ handle' \in [Services -> Ids \cup {0}]
         /\ lock' = lock
         /\ \A svc \in svcs : NewId(svc) \in Ids /\ ~Runs(svc, NewId(svc))
         /\ \A svc \in Services, i \in Ids :
              child'[svc][i] = IF svc \in svcs /\ i = NewId(svc) THEN [at |-> "boot", own |-> mine]
                               ELSE child[svc][i]
         /\ \A svc \in Services :
              handle'[svc] = IF svc \in svcs /\ mine THEN NewId(svc) ELSE handle[svc]
<1>1. \A svc \in svcs : NewId(svc) \in FreeIds(svc)
  BY DEF Spawned, NewId
<1>2. \A svc \in svcs : NewId(svc) \in Ids /\ ~Runs(svc, NewId(svc))
  BY <1>1 DEF FreeIds, Runs
<1> HIDE DEF NewId
<1>3. [at |-> "boot", own |-> mine] \in Child
  BY DEF Child
<1> QED
  BY <1>2, <1>3 DEF Types, Spawned

\* A process is started only when every other is past its lock, so the locks stay in order.
LEMMA SpawnedLocks ==
  ASSUME Types, Locks, NEW svcs \in SUBSET Services, NEW mine \in BOOLEAN, Spawned(svcs, mine),
         budget'.of = budget.of
  PROVE  Locks'
<1> SUFFICES ASSUME "overlap" \notin budget.of, NEW svc \in Services, NEW i \in Ids, NEW j \in Ids
             PROVE  /\ child'[svc][i].at = "up" => lock'[svc] = i
                    /\ Starting(svc, i)' /\ Starting(svc, j)' => i = j
                    /\ child'[svc][i].at = "checked" => child'[svc][j].at # "up"
  BY DEF Locks
<1>1. ~Starting(svc, i) /\ ~Starting(svc, j)
  BY DEF Spawned, Settled, Starting
<1>2. /\ lock' = lock
      /\ child'[svc][i] = IF svc \in svcs /\ i = NewId(svc) THEN [at |-> "boot", own |-> mine]
                          ELSE child[svc][i]
      /\ child'[svc][j] = IF svc \in svcs /\ j = NewId(svc) THEN [at |-> "boot", own |-> mine]
                          ELSE child[svc][j]
  <2>1. /\ lock' = lock
        /\ \A t \in Services, k \in Ids :
             child'[t][k] = IF t \in svcs /\ k = NewId(t) THEN [at |-> "boot", own |-> mine] ELSE child[t][k]
    BY SpawnedIs
  <2> HIDE DEF NewId
  <2> QED
    BY <2>1
<1>3. child[svc][i].at = "up" => lock[svc] = i
  BY DEF Locks
<1> QED
  BY <1>1, <1>2, <1>3 DEF Starting

\* Terminated processes are those of the handles, which are dropped.
LEMMA TerminatedIs ==
  ASSUME Types, NEW svcs \in SUBSET Services, Terminated(svcs)
  PROVE  /\ child' \in [Services -> [Ids -> Child]] /\ handle' \in [Services -> Ids \cup {0}]
         /\ lock' = lock
         /\ \A svc \in Services, i \in Ids :
              child'[svc][i] = IF svc \in svcs /\ i = handle[svc] THEN Gone ELSE child[svc][i]
         /\ \A svc \in Services : handle'[svc] = IF svc \in svcs THEN 0 ELSE handle[svc]
         /\ \A svc \in Services, i \in Ids : child'[svc][i].at \in {child[svc][i].at, "none"}
<1>1. Gone \in Child /\ Gone.at = "none"
  BY DEF Gone, Child
<1> QED
  BY <1>1 DEF Types, Terminated

\* What start, check_health and stop make of a runner.
LEMMA RunnerIs ==
  ASSUME Types, NEW r \in Runners, NEW known \in BOOLEAN
  PROVE  /\ Started(r, known) \in Runner /\ Watched(r) \in Runner /\ Stopped(r) \in Runner
         /\ ~Stopped(r).thread
<1>1. runner[r] \in Runner
  BY DEF Types
<1>2. ASSUME NEW k \in BOOLEAN PROVE Started(r, k) \in Runner
  <2> DEFINE n == IF k THEN runner[r]
                  ELSE [runner[r] EXCEPT !.done = FALSE, !.stop = FALSE, !.thread = FALSE]
  <2>1. n \in Runner
    BY <1>1 DEF Runner
  <2>2. Started(r, k) \in {n, [n EXCEPT !.done = TRUE],
                           [n EXCEPT !.entered = FALSE, !.skip = TRUE, !.done = TRUE],
                           [n EXCEPT !.thread = TRUE, !.done = FALSE, !.stop = FALSE]}
    BY DEF Started
  <2> HIDE DEF n
  <2> QED
    BY <2>1, <2>2 DEF Runner
<1>3. Watched(r) \in {runner[r], [runner[r] EXCEPT !.done = TRUE], Started(r, TRUE)}
  BY DEF Watched
<1>4. [runner[r] EXCEPT !.done = TRUE] \in Runner
  BY <1>1 DEF Runner
<1>5. Stopped(r) \in Runner /\ ~Stopped(r).thread
  BY <1>1 DEF Stopped, Runner
<1> QED
  BY <1>1, <1>2, <1>3, <1>4, <1>5

(* --- the steps ------------------------------------------------------------ *)

LEMMA ReadLockKeeps == ASSUME IInv, NEW svc \in Services, NEW i \in Ids, ReadLock(svc, i) PROVE IInv'
<1> USE DEF IInv
<1>1. budget'.of = budget.of /\ budget' \in [of : Scenarios, left : 0..MaxFaults]
  BY DEF Types, ReadLock
<1>7. /\ \A t \in Services, k \in Ids :
            child'[t][k] = IF t = svc /\ k = i
                           THEN IF Held(svc, i) THEN Gone ELSE [child[svc][i] EXCEPT !.at = "checked"]
                           ELSE child[t][k]
      /\ child' \in [Services -> [Ids -> Child]]
  <2>1. child[svc][i] \in Child /\ Gone \in Child
    BY DEF Types, Child, Gone
  <2>2. (IF Held(svc, i) THEN Gone ELSE [child[svc][i] EXCEPT !.at = "checked"]) \in Child
    BY <2>1 DEF Child
  <2>3. child' = [child EXCEPT ![svc][i] =
                    IF Held(svc, i) THEN Gone ELSE [child[svc][i] EXCEPT !.at = "checked"]]
    BY DEF ReadLock
  <2> QED
    BY <2>2, <2>3 DEF Types
<1>8. child[svc][i].at = "boot" /\ child[svc][i] \in Child /\ lock' = lock
  BY DEF Types, ReadLock
<1>2. Types'
  BY <1>1, <1>7 DEF Types, ReadLock, clock, page
<1>3. Locks'
  <2> SUFFICES ASSUME "overlap" \notin budget.of, NEW t \in Services, NEW j \in Ids, NEW k \in Ids
               PROVE  /\ child'[t][j].at = "up" => lock'[t] = j
                      /\ Starting(t, j)' /\ Starting(t, k)' => j = k
                      /\ child'[t][j].at = "checked" => child'[t][k].at # "up"
    BY <1>1 DEF Locks
  <2>1. /\ child[t][j].at = "up" => lock[t] = j
        /\ child[t][k].at = "up" => lock[t] = k
        /\ Starting(t, j) /\ Starting(t, k) => j = k
        /\ child[t][j].at = "checked" => child[t][k].at # "up"
    BY DEF Locks
  <2>2. CASE t # svc \/ (j # i /\ k # i) \/ Held(svc, i)
    BY <1>7, <1>8, <2>1, <2>2 DEF Starting, Gone
  <2>3. CASE t = svc /\ (j = i \/ k = i) /\ ~Held(svc, i)
    <3>1. child[svc][k].at = "up" => k = 0 \/ FALSE
      BY <2>1, <2>3 DEF Held
    <3>2. child'[svc][i].at = "checked"
      BY <1>7, <1>8, <2>3 DEF Child
    <3> QED
      BY <1>7, <1>8, <2>1, <2>3, <3>1, <3>2, Sizes DEF Starting, Ids
  <2> QED
    BY <2>2, <2>3
<1>4. Handles'
  BY <1>7, <1>8 DEF Handles, Runs, ReadLock, Gone, Child
<1>5. Threads'
  BY <1>1 DEF Threads, ReadLock, Loaded, IsOvernight
<1>6. Session'
  BY <1>1 DEF Session, ReadLock, clock
<1> QED
  BY <1>2, <1>3, <1>4, <1>5, <1>6

LEMMA WriteLockKeeps == ASSUME IInv, NEW svc \in Services, NEW i \in Ids, WriteLock(svc, i) PROVE IInv'
<1> USE DEF IInv
<1>1. budget'.of = budget.of /\ budget' \in [of : Scenarios, left : 0..MaxFaults]
  BY DEF Types, WriteLock
<1>7. /\ \A t \in Services, k \in Ids :
            child'[t][k] = IF t = svc /\ k = i THEN [child[svc][i] EXCEPT !.at = "up"] ELSE child[t][k]
      /\ child' \in [Services -> [Ids -> Child]]
      /\ lock' \in [Services -> Ids \cup {0}]
      /\ \A t \in Services : lock'[t] = IF t = svc THEN i ELSE lock[t]
  <2>1. [child[svc][i] EXCEPT !.at = "up"] \in Child
    <3>1. child[svc][i] \in Child
      BY DEF Types
    <3> QED
      BY <3>1 DEF Child
  <2>2. child' = [child EXCEPT ![svc][i] = [child[svc][i] EXCEPT !.at = "up"]]
    BY DEF WriteLock, Types
  <2>3. lock' = [lock EXCEPT ![svc] = i]
    BY DEF WriteLock
  <2>4. /\ lock' \in [Services -> Ids \cup {0}]
        /\ \A t \in Services : lock'[t] = IF t = svc THEN i ELSE lock[t]
    BY <2>3 DEF Types
  <2> QED
    BY <2>1, <2>2, <2>4 DEF Types
<1>8. child[svc][i].at = "checked" /\ child[svc][i] \in Child
  BY DEF Types, WriteLock
<1>2. Types'
  BY <1>1, <1>7 DEF Types, WriteLock, clock, page
<1>3. Locks'
  <2> SUFFICES ASSUME "overlap" \notin budget.of, NEW t \in Services, NEW j \in Ids, NEW k \in Ids
               PROVE  /\ child'[t][j].at = "up" => lock'[t] = j
                      /\ Starting(t, j)' /\ Starting(t, k)' => j = k
                      /\ child'[t][j].at = "checked" => child'[t][k].at # "up"
    BY <1>1 DEF Locks
  <2>1. /\ child[t][j].at = "up" => lock[t] = j
        /\ Starting(t, j) /\ Starting(t, k) => j = k
        /\ child[t][j].at = "checked" => child[t][k].at # "up"
    BY DEF Locks
  <2>2. t = svc => /\ child[t][j].at # "up" /\ child[t][k].at # "up"
                   /\ j # i => ~Starting(t, j)
                   /\ k # i => ~Starting(t, k)
    BY <1>8 DEF Locks, Starting
  <2>3. child'[svc][i].at = "up"
    BY <1>7, <1>8 DEF Child
  <2> QED
    BY <1>7, <1>8, <2>1, <2>2, <2>3 DEF Starting
<1>4. Handles'
  BY <1>7, <1>8 DEF Handles, Runs, WriteLock, Child
<1>5. Threads'
  BY <1>1 DEF Threads, WriteLock, Loaded, IsOvernight
<1>6. Session'
  BY <1>1 DEF Session, WriteLock, clock
<1> QED
  BY <1>2, <1>3, <1>4, <1>5, <1>6

LEMMA CrashChildKeeps == ASSUME IInv, NEW svc \in Services, NEW i \in Ids, CrashChild(svc, i) PROVE IInv'
<1> USE DEF IInv
<1>1. budget'.of = budget.of /\ budget' \in [of : Scenarios, left : 0..MaxFaults]
  BY FaultIs DEF Types, CrashChild
<1>7. /\ \A t \in Services, k \in Ids : child'[t][k] \in {child[t][k], Gone}
      /\ child' \in [Services -> [Ids -> Child]]
  BY DEF Types, CrashChild, Child, Gone
<1>2. Types'
  BY <1>1, <1>7 DEF Types, CrashChild, clock, page
<1>3. Locks'
  BY <1>1, <1>7, FewerRun DEF CrashChild, Gone
<1>4. Handles'
  BY <1>7 DEF Handles, Runs, CrashChild, Gone
<1>5. Threads'
  BY <1>1 DEF Threads, CrashChild, Loaded, IsOvernight
<1>6. Session'
  BY <1>1 DEF Session, CrashChild, clock
<1> QED
  BY <1>2, <1>3, <1>4, <1>5, <1>6

LEMMA PanelKillKeeps == ASSUME IInv, NEW svc \in Services, NEW restart \in BOOLEAN, PanelKill(svc, restart) PROVE IInv'
<1> USE DEF IInv
<1>1. budget'.of = budget.of /\ budget' \in [of : Scenarios, left : 0..MaxFaults]
  BY FaultIs DEF Types, PanelKill
<1>7. /\ \A t \in Services, k \in Ids : child'[t][k] \in {child[t][k], Gone}
      /\ child' \in [Services -> [Ids -> Child]]
  BY DEF Types, PanelKill, Child, Gone
<1>2. Types'
  BY <1>1, <1>7 DEF Types, PanelKill, clock
<1>3. Locks'
  BY <1>1, <1>7, FewerRun DEF PanelKill, Gone
<1>4. Handles'
  BY <1>7 DEF Handles, Runs, PanelKill, Gone
<1>5. Threads'
  BY <1>1 DEF Threads, PanelKill, Loaded, IsOvernight
<1>6. Session'
  BY <1>1 DEF Session, PanelKill, clock
<1> QED
  BY <1>2, <1>3, <1>4, <1>5, <1>6

LEMMA EnterKeeps == ASSUME IInv, NEW r \in Runners, Enter(r) PROVE IInv'
<1> USE DEF IInv
<1>1. budget'.of = budget.of /\ budget' \in [of : Scenarios, left : 0..MaxFaults]
  BY DEF Types, Enter, Strategy
<1>7. /\ runner' \in [Runners -> Runner]
      /\ \A q \in Runners : runner'[q].thread => runner[q].thread
  <2>1. runner[r] \in Runner /\ runner \in [Runners -> Runner]
    BY DEF Types
  <2>2. PICK new : runner' = [runner EXCEPT ![r] = new] /\ new \in Runner
                   /\ (new.thread => runner[r].thread)
    BY <2>1 DEF Enter, Strategy, Runner
  <2> QED
    BY <2>1, <2>2
<1>2. Types'
  BY <1>1, <1>7 DEF Types, Enter, Strategy, clock, processes, page
<1>3. Locks'
  BY <1>1, SameLocks DEF Enter, Strategy
<1>4. Handles'
  BY DEF Handles, Runs, Enter, Strategy, processes
<1>5. Threads'
  BY <1>1, <1>7 DEF Threads, Enter, Strategy, Loaded, IsOvernight
<1>6. Session'
  BY <1>1 DEF Session, Enter, Strategy, clock
<1> QED
  BY <1>2, <1>3, <1>4, <1>5, <1>6

LEMMA ExitKeeps == ASSUME IInv, NEW r \in Runners, Exit(r) PROVE IInv'
<1> USE DEF IInv
<1>1. budget'.of = budget.of /\ budget' \in [of : Scenarios, left : 0..MaxFaults]
  BY DEF Types, Exit, Strategy
<1>7. /\ runner' \in [Runners -> Runner]
      /\ \A q \in Runners : runner'[q].thread => runner[q].thread
  <2>1. runner[r] \in Runner /\ runner \in [Runners -> Runner]
    BY DEF Types
  <2>2. PICK new : runner' = [runner EXCEPT ![r] = new] /\ new \in Runner
                   /\ (new.thread => runner[r].thread)
    BY <2>1 DEF Exit, Strategy, Runner
  <2> QED
    BY <2>1, <2>2
<1>2. Types'
  BY <1>1, <1>7 DEF Types, Exit, Strategy, clock, processes, page
<1>3. Locks'
  BY <1>1, SameLocks DEF Exit, Strategy
<1>4. Handles'
  BY DEF Handles, Runs, Exit, Strategy, processes
<1>5. Threads'
  BY <1>1, <1>7 DEF Threads, Exit, Strategy, Loaded, IsOvernight
<1>6. Session'
  BY <1>1 DEF Session, Exit, Strategy, clock
<1> QED
  BY <1>2, <1>3, <1>4, <1>5, <1>6

LEMMA ReturnKeeps == ASSUME IInv, NEW r \in Runners, Return(r) PROVE IInv'
<1> USE DEF IInv
<1>1. budget'.of = budget.of /\ budget' \in [of : Scenarios, left : 0..MaxFaults]
  BY DEF Types, Return, Strategy
<1>7. /\ runner' \in [Runners -> Runner]
      /\ \A q \in Runners : runner'[q].thread => runner[q].thread
  <2>1. runner[r] \in Runner /\ runner \in [Runners -> Runner]
    BY DEF Types
  <2>2. PICK new : runner' = [runner EXCEPT ![r] = new] /\ new \in Runner
                   /\ (new.thread => runner[r].thread)
    BY <2>1 DEF Return, Strategy, Runner
  <2> QED
    BY <2>1, <2>2
<1>2. Types'
  BY <1>1, <1>7 DEF Types, Return, Strategy, clock, processes, page
<1>3. Locks'
  BY <1>1, SameLocks DEF Return, Strategy
<1>4. Handles'
  BY DEF Handles, Runs, Return, Strategy, processes
<1>5. Threads'
  BY <1>1, <1>7 DEF Threads, Return, Strategy, Loaded, IsOvernight
<1>6. Session'
  BY <1>1 DEF Session, Return, Strategy, clock
<1> QED
  BY <1>2, <1>3, <1>4, <1>5, <1>6

LEMMA RaiseKeeps == ASSUME IInv, NEW r \in Runners, Raise(r) PROVE IInv'
<1> USE DEF IInv
<1>1. budget'.of = budget.of /\ budget' \in [of : Scenarios, left : 0..MaxFaults]
  BY FaultIs DEF Types, Raise, Strategy
<1>7. /\ runner' \in [Runners -> Runner]
      /\ \A q \in Runners : runner'[q].thread => runner[q].thread
  <2>1. runner[r] \in Runner /\ runner \in [Runners -> Runner]
    BY DEF Types
  <2>2. PICK new : runner' = [runner EXCEPT ![r] = new] /\ new \in Runner
                   /\ (new.thread => runner[r].thread)
    BY <2>1 DEF Raise, Strategy, Runner
  <2> QED
    BY <2>1, <2>2
<1>2. Types'
  BY <1>1, <1>7 DEF Types, Raise, Strategy, clock, processes, page
<1>3. Locks'
  BY <1>1, SameLocks DEF Raise, Strategy
<1>4. Handles'
  BY DEF Handles, Runs, Raise, Strategy, processes
<1>5. Threads'
  BY <1>1, <1>7 DEF Threads, Raise, Strategy, Loaded, IsOvernight
<1>6. Session'
  BY <1>1 DEF Session, Raise, Strategy, clock
<1> QED
  BY <1>2, <1>3, <1>4, <1>5, <1>6

LEMMA DisableKeeps == ASSUME IInv, NEW r \in Runners, Disable(r) PROVE IInv'
<1> USE DEF IInv
<1>1. budget'.of = budget.of /\ budget' \in [of : Scenarios, left : 0..MaxFaults]
  BY FaultIs DEF Types, Disable
<1>7. /\ runner' \in [Runners -> Runner]
      /\ \A q \in Runners : runner'[q].thread => runner[q].thread
  <2>1. runner[r] \in Runner /\ runner \in [Runners -> Runner]
    BY DEF Types
  <2>2. PICK new : runner' = [runner EXCEPT ![r] = new] /\ new \in Runner
                   /\ (new.thread => runner[r].thread)
    <3>1. [runner[r] EXCEPT !.off = ~runner[r].off] \in Runner
          /\ [runner[r] EXCEPT !.off = ~runner[r].off].thread = runner[r].thread
      BY <2>1 DEF Runner
    <3>2. runner' = [runner EXCEPT ![r] = [runner[r] EXCEPT !.off = ~runner[r].off]]
      BY <2>1 DEF Disable
    <3> QED
      BY <3>1, <3>2
  <2> QED
    BY <2>1, <2>2
<1>2. Types'
  BY <1>1, <1>7 DEF Types, Disable, clock, processes, page
<1>3. Locks'
  BY <1>1, SameLocks DEF Disable
<1>4. Handles'
  BY DEF Handles, Runs, Disable, processes
<1>5. Threads'
  BY <1>1, <1>7 DEF Threads, Disable, Loaded, IsOvernight
<1>6. Session'
  BY <1>1 DEF Session, Disable, clock
<1> QED
  BY <1>2, <1>3, <1>4, <1>5, <1>6

LEMMA PressKeeps == ASSUME IInv, Press PROVE IInv'
<1> USE DEF IInv
<1>1. budget'.of = budget.of /\ budget' \in [of : Scenarios, left : 0..MaxFaults]
  BY FaultIs DEF Types, Press
<1>2. Types'
  BY <1>1 DEF Types, Press, clock, processes, page
<1>3. Locks'
  BY <1>1, SameLocks DEF Press
<1>4. Handles'
  BY DEF Handles, Runs, Press, processes
<1>5. Threads'
  BY <1>1 DEF Threads, Press, Loaded, IsOvernight
<1>6. Session'
  BY <1>1 DEF Session, Press, clock
<1> QED
  BY <1>2, <1>3, <1>4, <1>5, <1>6

LEMMA TakenKeeps == ASSUME IInv, Taken PROVE IInv'
<1> USE DEF IInv
<1>1. budget'.of = budget.of /\ budget' \in [of : Scenarios, left : 0..MaxFaults]
  BY DEF Types, Taken
<1>2. Types'
  BY <1>1 DEF Types, Taken, clock, processes, page
<1>3. Locks'
  BY <1>1, SameLocks DEF Taken
<1>4. Handles'
  BY DEF Handles, Runs, Taken, processes
<1>5. Threads'
  BY <1>1 DEF Threads, Taken, Loaded, IsOvernight
<1>6. Session'
  BY <1>1 DEF Session, Taken, clock
<1> QED
  BY <1>2, <1>3, <1>4, <1>5, <1>6

LEMMA LaunchKeeps == ASSUME IInv, NEW oneday \in BOOLEAN, Launch(oneday) PROVE IInv'
<1> USE DEF IInv
<1>1. budget'.of = budget.of /\ budget' \in [of : Scenarios, left : 0..MaxFaults]
  BY DEF Types, Launch
<1>7. main' \in Main /\ dash' \in {"down", "child", "orphan"} /\ press' \in BOOLEAN
  <2>1. main' = [main EXCEPT !.pc = "day", !.ends = oneday, !.since = 0]
    BY DEF Launch
  <2>2. main' \in Main
    BY <2>1, DayIs DEF Main
  <2> QED
    BY <2>2 DEF Types, Launch, Cleaned
<1>2. Types'
  BY <1>1, <1>7 DEF Types, Launch, clock, processes
<1>3. Locks'
  BY <1>1, SameLocks DEF Launch, processes
<1>4. Handles'
  BY <1>1, Sizes DEF Handles, Runs, Launch, processes, Types, Main, At
<1>5. Threads'
  BY <1>1, Sizes DEF Threads, Launch, Loaded, IsOvernight, At, Types, Main
<1>6. Session'
  BY <1>1, Sizes, Hours DEF Session, Launch, clock, At, Types, Main
<1> QED
  BY <1>2, <1>3, <1>4, <1>5, <1>6

LEMMA BeginDayKeeps == ASSUME IInv, BeginDay PROVE IInv'
<1> USE DEF IInv
<1>1. budget'.of = budget.of /\ budget' \in [of : Scenarios, left : 0..MaxFaults]
  BY DEF Types, BeginDay
<1>7. /\ main' \in Main /\ main'.closed = main.closed /\ probes' \in 0..Days /\ dash' \in {"down", "child", "orphan"}
      /\ \/ main'.pc \in {"off", "asleep"}
         \/ main'.pc = "wait" /\ (main'.trade <=> kind[day] = "trade") /\ probes' = day
  <2>1. main \in Main /\ day \in 0..Days /\ kind[day] \in {"trade", "closed", "fomc"}
        /\ (kind[day] = "trade") \in BOOLEAN
    BY Sizes DEF Types
  <2>2. Rest \in Main /\ Rest.pc \in {"off", "asleep"} /\ Rest.closed = main.closed
    BY <2>1 DEF Rest, Main
  <2>3. dash' \in {"down", "child", "orphan"}
    BY DEF Types, BeginDay, Leaves
  <2>4. CASE kind[day] = "closed"
    BY <2>1, <2>2, <2>3, <2>4 DEF BeginDay, Types
  <2>5. CASE kind[day] # "closed"
    <3>1. main' = [main EXCEPT !.pc = "wait", !.trade = ShouldTrade] /\ probes' = day
      BY <2>5 DEF BeginDay
    <3> QED
      BY <2>1, <2>3, <3>1 DEF ShouldTrade, Main
  <2> QED
    BY <2>4, <2>5
<1>2. Types'
  BY <1>1, <1>7 DEF Types, BeginDay, Cleaned, clock, processes
<1>3. Locks'
  BY <1>1, SameLocks DEF BeginDay, processes
<1>4. Handles'
  BY <1>7 DEF Handles, Runs, BeginDay, processes, At
<1>5. Threads'
  BY <1>1, <1>7 DEF Threads, BeginDay, Loaded, IsOvernight, At
<1>6. Session'
  BY <1>1, <1>7 DEF Session, Threads, BeginDay, clock, At
<1> QED
  BY <1>2, <1>3, <1>4, <1>5, <1>6

LEMMA OpenServicesKeeps == ASSUME IInv, OpenServices PROVE IInv'
<1> USE DEF IInv
<1>1. budget'.of = budget.of /\ budget' \in [of : Scenarios, left : 0..MaxFaults]
  BY DEF Types, OpenServices
<1>7. /\ child' \in [Services -> [Ids -> Child]] /\ handle' \in [Services -> Ids \cup {0}]
      /\ \A svc \in Services, i \in Ids :
            child'[svc][i] = IF svc \in Services /\ i = NewId(svc) THEN [at |-> "boot", own |-> TRUE]
                             ELSE child[svc][i]
      /\ \A svc \in Services : handle'[svc] = IF svc \in Services /\ TRUE THEN NewId(svc) ELSE handle[svc]
  BY SpawnedIs DEF OpenServices
<1>8. main' \in Main /\ main'.pc = "start" /\ ~main'.closed /\ main'.since = day
      /\ main'.trade = main.trade /\ hour = 3
  <2>1. main' = [main EXCEPT !.pc = "start", !.closed = FALSE, !.since = day]
    BY DEF OpenServices
  <2>2. hour = 3
    BY Hours DEF OpenServices, Types
  <2> QED
    BY <2>1, <2>2, DayIs DEF Main
<1>2. Types'
  BY <1>1, <1>7, <1>8, SpawnedIs DEF Types, OpenServices, clock, page
<1>3. Locks'
  BY <1>1, SpawnedLocks DEF OpenServices
<1>4. Handles'
  <2>1. \A svc \in Services, i \in Ids : ~(child[svc][i].own /\ Runs(svc, i))
    BY Sizes DEF Handles, OpenServices, At, Ids
  <2> QED
    BY <1>7, <1>8, <2>1 DEF Handles, Runs
<1>5. Threads'
  BY <1>1, <1>8 DEF Threads, OpenServices, Loaded, IsOvernight, At
<1>6. Session'
  BY <1>1, <1>8 DEF Session, Threads, OpenServices, clock, At
<1> QED
  BY <1>2, <1>3, <1>4, <1>5, <1>6

LEMMA TooLateKeeps == ASSUME IInv, TooLate PROVE IInv'
<1> USE DEF IInv
<1>1. budget'.of = budget.of /\ budget' \in [of : Scenarios, left : 0..MaxFaults]
  BY DEF Types, TooLate
<1>2. Types'
  BY <1>1, Sizes, SMTT(40) DEF Types, TooLate, Main, clock, processes, page, Goto
<1>3. Locks'
  BY <1>1, SameLocks DEF TooLate, processes
<1>4. Handles'
  BY <1>1, Sizes DEF Handles, Runs, TooLate, processes, Types, Main, Goto, At
<1>5. Threads'
  BY <1>1, Sizes DEF Threads, TooLate, Loaded, IsOvernight, At, Types, Main, Goto
<1>6. Session'
  BY <1>1, Sizes, Hours DEF Session, TooLate, clock, At, Types, Main, Goto, Threads
<1> QED
  BY <1>2, <1>3, <1>4, <1>5, <1>6

LEMMA StartTradingKeeps == ASSUME IInv, StartTrading PROVE IInv'
<1> USE DEF IInv
<1>1. budget'.of = budget.of /\ budget' \in [of : Scenarios, left : 0..MaxFaults]
  BY DEF Types, StartTrading
<1>7. /\ runner' \in [Runners -> Runner]
      /\ \A r \in Runners : runner'[r].thread => r \in Loaded
  BY RunnerIs DEF Types, Threads, StartTrading
<1>8. main' \in Main /\ main'.pc = "loop" /\ main'.closed = main.closed /\ main'.trade = main.trade
      /\ main'.since = main.since /\ entry' \in BOOLEAN
  BY DEF Types, Main, StartTrading, Goto
<1>2. Types'
  BY <1>1, <1>7, <1>8 DEF Types, StartTrading, clock, processes, page
<1>3. Locks'
  BY <1>1, SameLocks DEF StartTrading, processes
<1>4. Handles'
  BY <1>8 DEF Handles, Runs, StartTrading, processes, Session, At
<1>5. Threads'
  BY <1>1, <1>7, <1>8 DEF Threads, StartTrading, Loaded, IsOvernight
<1>6. Session'
  BY <1>1, <1>8 DEF Session, StartTrading, clock, At
<1> QED
  BY <1>2, <1>3, <1>4, <1>5, <1>6

LEMMA SessionEndKeeps == ASSUME IInv, SessionEnd PROVE IInv'
<1> USE DEF IInv
<1>1. budget'.of = budget.of /\ budget' \in [of : Scenarios, left : 0..MaxFaults]
  BY DEF Types, SessionEnd
<1>7. /\ child' \in [Services -> [Ids -> Child]] /\ handle' \in [Services -> Ids \cup {0}]
      /\ lock' = lock
      /\ \A svc \in Services, i \in Ids : child'[svc][i].at \in {child[svc][i].at, "none"}
      /\ \A svc \in Services, i \in Ids :
            child'[svc][i] = IF svc \in DaytimeServices /\ i = handle[svc] THEN Gone ELSE child[svc][i]
      /\ \A svc \in Services : handle'[svc] = IF svc \in DaytimeServices THEN 0 ELSE handle[svc]
  BY TerminatedIs DEF SessionEnd, DaytimeServices, Services
<1>8. /\ runner' \in [Runners -> Runner]
      /\ \A r \in Runners : runner'[r].thread => r \in Loaded
  BY RunnerIs DEF Types, Threads, SessionEnd
<1>9. main' \in Main /\ main'.pc = "eod" /\ main'.closed
  BY DEF Types, Main, SessionEnd
<1>10. "stop_monitor" \in DaytimeServices /\ "stop_monitor" \in Services
  BY DEF DaytimeServices, Services
<1>2. Types'
  <2>1. probes' \in 0..Days /\ entry' \in BOOLEAN
    BY DayIs DEF SessionEnd
  <2> QED
    BY <1>1, <1>7, <1>8, <1>9, <2>1 DEF Types, SessionEnd, clock, page
<1>3. Locks'
  BY <1>1, <1>7, FewerRun
<1>4. Handles'
  BY <1>7, <1>9, <1>10 DEF Handles, Runs, Gone
<1>5. Threads'
  BY <1>1, <1>8, <1>9 DEF Threads, Loaded, IsOvernight
<1>6. Session'
  BY <1>1, <1>9 DEF Session, SessionEnd, clock
<1> QED
  BY <1>2, <1>3, <1>4, <1>5, <1>6

LEMMA FinishKeeps == ASSUME IInv, Finish PROVE IInv'
<1> USE DEF IInv
<1>1. budget'.of = budget.of /\ budget' \in [of : Scenarios, left : 0..MaxFaults]
  BY DEF Types, Finish
<1>7. /\ child' \in [Services -> [Ids -> Child]] /\ handle' \in [Services -> Ids \cup {0}]
      /\ lock' = lock
      /\ \A svc \in Services, i \in Ids : child'[svc][i].at \in {child[svc][i].at, "none"}
      /\ \A svc \in Services, i \in Ids :
            child'[svc][i] = IF svc \in Services /\ i = handle[svc] THEN Gone ELSE child[svc][i]
      /\ \A svc \in Services : handle'[svc] = IF svc \in Services THEN 0 ELSE handle[svc]
  BY TerminatedIs DEF Finish
<1>8. /\ runner' \in [Runners -> Runner]
      /\ \A r \in Runners : runner'[r].thread => r \in Loaded /\ FALSE
  BY RunnerIs DEF Types, Threads, Finish
<1>9. main' \in Main /\ main'.pc = "final"
  BY DEF Types, Main, Finish, Goto
<1>2. Types'
  <2>1. probes' \in 0..Days /\ entry' \in BOOLEAN
    BY DayIs DEF Finish
  <2> QED
    BY <1>1, <1>7, <1>8, <1>9, <2>1 DEF Types, Finish, clock, page
<1>3. Locks'
  BY <1>1, <1>7, FewerRun
<1>4. Handles'
  BY <1>7, <1>9 DEF Handles, Runs, Gone
<1>5. Threads'
  BY <1>1, <1>8, <1>9 DEF Threads, Loaded, IsOvernight, Finish
<1>6. Session'
  BY <1>1, <1>9 DEF Session, Finish, clock
<1> QED
  BY <1>2, <1>3, <1>4, <1>5, <1>6

LEMMA EndOfDayKeeps == ASSUME IInv, EndOfDay PROVE IInv'
<1> USE DEF IInv
<1>1. budget'.of = budget.of /\ budget' \in [of : Scenarios, left : 0..MaxFaults]
  BY DEF Types, EndOfDay, EodCleanup
<1>7. /\ runner' \in [Runners -> Runner] /\ press' \in BOOLEAN
      /\ \A r \in Runners : runner'[r].thread = runner[r].thread
  <2>1. \A r \in Runners : /\ [runner[r] EXCEPT !.open = FALSE] \in Runner
                            /\ [runner[r] EXCEPT !.open = FALSE].thread = runner[r].thread
    BY ZenonT(60) DEF Types, Runner
  <2>2. CASE UNCHANGED <<press, runner>>
    BY <2>2 DEF Types
  <2>3. CASE press' = FALSE /\ runner' = [r \in Runners |-> [runner[r] EXCEPT !.open = FALSE]]
    BY <2>1, <2>3
  <2> QED
    BY <2>2, <2>3 DEF EndOfDay, EodCleanup, Cleaned
<1>8. main' \in Main /\ main'.pc = "loop" /\ main'.closed = main.closed /\ At("eod")
      /\ dash' \in {"down", "child", "orphan"}
  BY DEF Types, Main, EndOfDay, EodCleanup, Leaves
<1>2. Types'
  BY <1>1, <1>7, <1>8 DEF Types, EndOfDay, EodCleanup, clock, processes
<1>3. Locks'
  BY <1>1, SameLocks DEF EndOfDay, EodCleanup
<1>4. Handles'
  BY <1>8 DEF Handles, Runs, EndOfDay, EodCleanup, processes, At
<1>5. Threads'
  BY <1>1, <1>7, <1>8 DEF Threads, Loaded, IsOvernight
<1>6. Session'
  BY <1>1, <1>8 DEF Session, EndOfDay, EodCleanup, clock, At
<1> QED
  BY <1>2, <1>3, <1>4, <1>5, <1>6

LEMMA DayDoneKeeps == ASSUME IInv, DayDone PROVE IInv'
<1> USE DEF IInv
<1>1. budget'.of = budget.of /\ budget' \in [of : Scenarios, left : 0..MaxFaults]
  BY DEF Types, DayDone, EodCleanup
<1>7. /\ runner' \in [Runners -> Runner] /\ press' \in BOOLEAN
      /\ \A r \in Runners : runner'[r].thread = runner[r].thread
  <2>1. \A r \in Runners : /\ [runner[r] EXCEPT !.open = FALSE] \in Runner
                            /\ [runner[r] EXCEPT !.open = FALSE].thread = runner[r].thread
    BY DEF Types, Runner
  <2>2. CASE UNCHANGED <<press, runner>>
    BY <2>2 DEF Types
  <2>3. CASE press' = FALSE /\ runner' = [r \in Runners |-> [runner[r] EXCEPT !.open = FALSE]]
    BY <2>1, <2>3
  <2> QED
    BY <2>2, <2>3 DEF DayDone, EodCleanup, Cleaned
<1>8. main' \in Main /\ main'.pc \in {"off", "asleep"} /\ At("final")
      /\ dash' \in {"down", "child", "orphan"}
  <2>1. main' = Rest /\ Leaves(Rest) /\ At("final")
    BY DEF DayDone, EodCleanup
  <2>2. Rest \in Main /\ Rest.pc \in {"off", "asleep"}
    BY DayIs DEF Main, Rest
  <2> QED
    BY <2>1, <2>2 DEF Types, Leaves
<1>2. Types'
  BY <1>1, <1>7, <1>8 DEF Types, DayDone, EodCleanup, clock, processes
<1>3. Locks'
  BY <1>1, SameLocks DEF DayDone, EodCleanup
<1>4. Handles'
  BY <1>8 DEF Handles, Runs, DayDone, EodCleanup, processes, At
<1>5. Threads'
  BY <1>1, <1>7, <1>8 DEF Threads, Loaded, IsOvernight, At, DayDone, EodCleanup
<1>6. Session'
  BY <1>1, <1>8 DEF Session, DayDone, EodCleanup, Threads, clock, At
<1> QED
  BY <1>2, <1>3, <1>4, <1>5, <1>6

LEMMA MorningKeeps == ASSUME IInv, Morning PROVE IInv'
<1> USE DEF IInv
<1>1. budget'.of = budget.of /\ budget' \in [of : Scenarios, left : 0..MaxFaults]
  BY DEF Types, Morning
<1>2. Types'
  BY <1>1 DEF Types, Morning, Main, clock, processes, page, Goto, Cleaned
<1>3. Locks'
  BY <1>1, SameLocks DEF Morning, processes
<1>4. Handles'
  BY <1>1 DEF Handles, Runs, Morning, processes, Types, Main, Goto, At
<1>5. Threads'
  BY <1>1 DEF Threads, Morning, Loaded, IsOvernight, At, Types, Main, Goto
<1>6. Session'
  BY <1>1, Hours DEF Session, Morning, clock, At, Types, Main, Goto, StillOvernight, IsOvernight
<1> QED
  BY <1>2, <1>3, <1>4, <1>5, <1>6

LEMMA MorningOpenKeeps == ASSUME IInv, MorningOpen PROVE IInv'
<1> USE DEF IInv
<1>1. budget'.of = budget.of /\ budget' \in [of : Scenarios, left : 0..MaxFaults]
  BY DEF Types, MorningOpen
<1>7. main' \in Main /\ main'.pc = "loop" /\ ~main'.closed
  <2>1. main' = [main EXCEPT !.pc = "loop", !.closed = FALSE, !.since = day]
    BY DEF MorningOpen
  <2> QED
    BY <2>1, DayIs DEF Main
<1>8. CASE main.trade
  <2>1. Spawned(Missing, TRUE) /\ Missing \in SUBSET Services /\ entry' = TRUE
    BY <1>8 DEF MorningOpen, Missing
  <2>2. runner' = [r \in Runners |-> IF r \in Loaded /\ ~IsOvernight(r) THEN Started(r, TRUE) ELSE runner[r]]
    BY <1>8 DEF MorningOpen
  <2>3. /\ runner' \in [Runners -> Runner]
        /\ \A r \in Runners : runner'[r].thread => r \in Loaded
    BY <2>2, RunnerIs DEF Types, Threads
  <2>4. /\ child' \in [Services -> [Ids -> Child]] /\ handle' \in [Services -> Ids \cup {0}]
        /\ lock' = lock
        /\ \A svc \in Services, i \in Ids :
              child'[svc][i] = IF svc \in Missing /\ i = NewId(svc) THEN [at |-> "boot", own |-> TRUE]
                               ELSE child[svc][i]
        /\ \A svc \in Services : handle'[svc] = IF svc \in Missing THEN NewId(svc) ELSE handle[svc]
    BY <2>1, SpawnedIs
  <2>5. Types'
    BY <1>1, <1>7, <2>1, <2>3, <2>4 DEF Types, MorningOpen, clock, page
  <2>6. Locks'
    BY <1>1, <2>1, SpawnedLocks
  <2>7. Handles'
    <3>1. \A svc \in Missing, i \in Ids : ~(child[svc][i].own /\ Runs(svc, i))
      BY Sizes DEF Handles, MorningOpen, At, Missing, Exited, Runs, Ids
    <3> QED
      BY <1>7, <2>4, <3>1 DEF Handles, Runs
  <2>8. Threads'
    BY <1>1, <1>7, <2>3 DEF Threads, Loaded, IsOvernight
  <2>9. Session'
    BY <1>1, <1>7 DEF Session, MorningOpen, At, clock
  <2> QED
    BY <2>5, <2>6, <2>7, <2>8, <2>9
<1>9. CASE ~main.trade
  <2>1. UNCHANGED <<processes, entry, runner>>
    BY <1>9 DEF MorningOpen
  <2>2. Types'
    BY <1>1, <1>7, <2>1 DEF Types, MorningOpen, clock, page, processes
  <2>3. Locks'
    BY <1>1, <2>1, SameLocks
  <2>4. Handles'
    BY <1>7, <2>1 DEF Handles, Runs, processes
  <2>5. Threads'
    BY <1>1, <1>7, <2>1 DEF Threads, Loaded, IsOvernight
  <2>6. Session'
    BY <1>1, <1>7, <2>1 DEF Session, MorningOpen, At, clock
  <2> QED
    BY <2>2, <2>3, <2>4, <2>5, <2>6
<1> QED
  BY <1>8, <1>9

LEMMA HealthKeeps == ASSUME IInv, Health PROVE IInv'
<1> USE DEF IInv
<1>1. budget'.of = budget.of /\ budget' \in [of : Scenarios, left : 0..MaxFaults]
  BY DEF Types, Health
<1>7. Spawned({svc \in Revived : Exited(svc)}, TRUE) /\ {svc \in Revived : Exited(svc)} \in SUBSET Services
  BY DEF Health, Revived
<1>8. PICK svcs \in SUBSET Services : Spawned(svcs, TRUE) /\ \A svc \in svcs : Exited(svc)
  BY <1>7
<1>9. /\ child' \in [Services -> [Ids -> Child]] /\ handle' \in [Services -> Ids \cup {0}]
      /\ lock' = lock
      /\ \A svc \in Services, i \in Ids :
            child'[svc][i] = IF svc \in svcs /\ i = NewId(svc) THEN [at |-> "boot", own |-> TRUE]
                             ELSE child[svc][i]
      /\ \A svc \in Services : handle'[svc] = IF svc \in svcs THEN NewId(svc) ELSE handle[svc]
  BY <1>8, SpawnedIs
<1>10. /\ runner' \in [Runners -> Runner]
       /\ \A r \in Runners : runner'[r].thread => r \in Loaded
  BY RunnerIs DEF Types, Threads, Health
<1>2. Types'
  BY <1>1, <1>9, <1>10 DEF Types, Health, clock, page
<1>3. Locks'
  BY <1>1, <1>8, SpawnedLocks
<1>4. Handles'
  <2>1. \A svc \in svcs, i \in Ids : ~(child[svc][i].own /\ Runs(svc, i))
    BY <1>8 DEF Handles, Exited, Runs
  <2>2. main' = main /\ main.pc = "loop"
    BY DEF Health, At
  <2>3. main.closed => "stop_monitor" \notin svcs
    BY <1>8, <2>2 DEF Handles, Exited
  <2> QED
    BY <1>9, <2>1, <2>2, <2>3 DEF Handles, Runs, Services
<1>5. Threads'
  BY <1>1, <1>10 DEF Threads, Loaded, IsOvernight, Health, At
<1>6. Session'
  BY <1>1 DEF Session, Health, At, clock
<1> QED
  BY <1>2, <1>3, <1>4, <1>5, <1>6

LEMMA WakeKeeps == ASSUME IInv, Wake PROVE IInv'
<1> USE DEF IInv
<1>1. budget'.of = budget.of /\ budget' \in [of : Scenarios, left : 0..MaxFaults]
  BY DEF Types, Wake
<1>2. Types'
  BY <1>1 DEF Types, Wake, Main, clock, processes, page, Goto
<1>3. Locks'
  BY <1>1, SameLocks DEF Wake, processes
<1>4. Handles'
  BY <1>1 DEF Handles, Runs, Wake, processes, Types, Main, Goto, At
<1>5. Threads'
  BY <1>1 DEF Threads, Wake, Loaded, IsOvernight, At, Types, Main, Goto
<1>6. Session'
  BY <1>1, Hours DEF Session, Wake, clock, At, Types, Main, Goto, Threads
<1> QED
  BY <1>2, <1>3, <1>4, <1>5, <1>6

\* What lives on when the launcher dies is not its own any more.
LEMMA DiesKeeps ==
  ASSUME IInv, NEW children, Dies(children), children \in [Services -> [Ids -> Child]],
         \A svc \in Services, i \in Ids : children[svc][i].at \in {child[svc][i].at, "none"},
         \A svc \in Services, i \in Ids : ~(children[svc][i].own /\ children[svc][i].at # "none"),
         budget'.of = budget.of, budget' \in [of : Scenarios, left : 0..MaxFaults],
         dash' \in {"down", "child", "orphan"}, UNCHANGED <<panel, press>>
  PROVE  IInv'
<1> USE DEF IInv
<1>1. /\ runner' \in [Runners -> Runner] /\ \A r \in Runners : ~runner'[r].thread
  <2>1. \A r \in Runners : /\ [runner[r] EXCEPT !.thread = FALSE] \in Runner
                            /\ ~[runner[r] EXCEPT !.thread = FALSE].thread
    <3>1. \A r \in Runners : runner[r] \in Runner
      BY DEF Types
    <3> QED
      BY <3>1 DEF Runner
  <2> QED
    BY <2>1 DEF Dies
<1>2. main' \in Main /\ main'.pc = "off"
  BY DEF Types, Main, Dies, Goto
<1>3. child' = children /\ lock' = lock /\ ~entry' /\ entry' \in BOOLEAN /\ probes' = 0
      /\ handle' = [svc \in Services |-> 0]
  BY DEF Dies
<1>4. Types'
  <2>1. handle' \in [Services -> Ids \cup {0}] /\ probes' \in 0..Days
    BY <1>3, DayIs
  <2> QED
    BY <1>1, <1>2, <1>3, <2>1 DEF Types, Dies, clock
<1>5. Locks'
  BY <1>3, FewerRun
<1>6. Handles'
  BY <1>2, <1>3 DEF Handles, Runs
<1>7. Threads'
  BY <1>1, <1>2, <1>3 DEF Threads
<1>8. Session'
  BY <1>2, <1>3 DEF Session
<1> QED
  BY <1>4, <1>5, <1>6, <1>7, <1>8

LEMMA KillLauncherKeeps == ASSUME IInv, KillLauncher PROVE IInv'
<1>1. budget'.of = budget.of /\ budget' \in [of : Scenarios, left : 0..MaxFaults]
  BY FaultIs DEF IInv, KillLauncher
<1>2. /\ Orphaned \in [Services -> [Ids -> Child]]
      /\ \A svc \in Services, i \in Ids : Orphaned[svc][i].at = child[svc][i].at /\ ~Orphaned[svc][i].own
  <2>1. \A svc \in Services, i \in Ids :
          /\ [child[svc][i] EXCEPT !.own = FALSE] \in Child
          /\ [child[svc][i] EXCEPT !.own = FALSE].at = child[svc][i].at
          /\ ~[child[svc][i] EXCEPT !.own = FALSE].own
    <3>1. \A svc \in Services, i \in Ids : child[svc][i] \in Child
      BY DEF IInv, Types
    <3> QED
      BY <3>1 DEF Child
  <2> QED
    BY <2>1 DEF Orphaned
<1>3. Dies(Orphaned) /\ dash' \in {"down", "child", "orphan"} /\ UNCHANGED <<panel, press>>
  BY DEF KillLauncher, IInv, Types
<1> QED
  BY <1>1, <1>2, <1>3, DiesKeeps

LEMMA PanelSpawnKeeps == ASSUME IInv, PanelSpawn PROVE IInv'
<1> USE DEF IInv
<1>1. budget'.of = budget.of /\ budget' \in [of : Scenarios, left : 0..MaxFaults]
  BY DEF Types, PanelSpawn
<1>7. panel \in Services /\ panel' = "none"
  BY DEF PanelSpawn
<1>2. Types'
  <2>1. CASE At("off")
    <3>1. Spawned({panel}, FALSE) /\ {panel} \in SUBSET Services
      BY <1>7, <2>1 DEF PanelSpawn
    <3>2. /\ child' \in [Services -> [Ids -> Child]] /\ handle' \in [Services -> Ids \cup {0}]
          /\ lock' = lock
      BY <3>1, SpawnedIs
    <3> QED
      BY <1>1, <1>7, <3>2 DEF Types, PanelSpawn, clock
  <2>2. CASE ~At("off")
    BY <1>1, <1>7, <2>2 DEF Types, PanelSpawn, clock, processes
  <2> QED
    BY <2>1, <2>2
<1>3. Locks'
  <2>1. CASE At("off")
    BY <1>1, <1>7, <2>1, SpawnedLocks DEF PanelSpawn
  <2>2. CASE ~At("off")
    BY <1>1, <2>2, SameLocks DEF PanelSpawn
  <2> QED
    BY <2>1, <2>2
<1>4. Handles'
  <2>1. CASE At("off")
    <3>1. Spawned({panel}, FALSE) /\ {panel} \in SUBSET Services
      BY <1>7, <2>1 DEF PanelSpawn
    <3>2. /\ \A svc \in Services, i \in Ids :
               child'[svc][i] = IF svc \in {panel} /\ i = NewId(svc) THEN [at |-> "boot", own |-> FALSE]
                                ELSE child[svc][i]
          /\ \A svc \in Services : handle'[svc] = handle[svc]
      BY <3>1, SpawnedIs
    <3> QED
      BY <3>2, <2>1 DEF Handles, Runs, PanelSpawn, At
  <2>2. CASE ~At("off")
    BY <2>2 DEF Handles, Runs, PanelSpawn, processes
  <2> QED
    BY <2>1, <2>2
<1>5. Threads'
  BY <1>1 DEF Threads, PanelSpawn, Loaded, IsOvernight
<1>6. Session'
  BY <1>1 DEF Session, PanelSpawn, clock
<1> QED
  BY <1>2, <1>3, <1>4, <1>5, <1>6

LEMMA PanelLauncherKeeps == ASSUME IInv, PanelLauncher PROVE IInv'
<1> USE DEF IInv
<1>1. budget'.of = budget.of /\ budget' \in [of : Scenarios, left : 0..MaxFaults]
  BY FaultIs DEF PanelLauncher
<1>2. Gone \in Child /\ Gone.at = "none"
  BY DEF Gone, Child
<1>3. CASE dash = "child"
  <2>1. PICK killed \in SUBSET Services :
          child' = [svc \in Services |-> [i \in Ids |->
                      IF svc \in killed /\ child[svc][i].own THEN Gone ELSE child[svc][i]]]
    BY <1>3 DEF PanelLauncher
  <2>2. /\ child' \in [Services -> [Ids -> Child]]
        /\ \A svc \in Services, i \in Ids : child'[svc][i] \in {child[svc][i], Gone}
    BY <1>2, <2>1 DEF Types
  <2>3. dash' = "down" /\ UNCHANGED <<clock, main, lock, handle, runner, entry, probes, panel, press>>
    BY <1>3 DEF PanelLauncher
  <2>4. Types'
    BY <1>1, <2>2, <2>3 DEF Types, clock
  <2>5. Locks'
    BY <1>1, <1>2, <2>2, <2>3, FewerRun
  <2>6. Handles'
    BY <1>2, <2>2, <2>3 DEF Handles, Runs
  <2>7. Threads'
    BY <1>1, <2>3 DEF Threads, Loaded, IsOvernight
  <2>8. Session'
    BY <1>1, <2>3 DEF Session, clock
  <2> QED
    BY <2>4, <2>5, <2>6, <2>7, <2>8
<1>4. CASE dash # "child"
  <2>1. PICK children : /\ children = [svc \in Services |-> [i \in Ids |->
                                         IF child[svc][i].own THEN Gone ELSE child[svc][i]]]
                        /\ Dies(children)
    BY <1>4 DEF PanelLauncher
  <2>2. /\ children \in [Services -> [Ids -> Child]]
        /\ \A svc \in Services, i \in Ids : children[svc][i] = IF child[svc][i].own THEN Gone ELSE child[svc][i]
    BY <1>2, <2>1 DEF Types
  <2>3. dash' \in {"down", "child", "orphan"} /\ UNCHANGED <<panel, press>>
    BY <1>4 DEF PanelLauncher, Types
  <2> QED
    BY <1>1, <1>2, <2>1, <2>2, <2>3, DiesKeeps
<1> QED
  BY <1>3, <1>4

LEMMA ClockKeeps == ASSUME IInv, Clock PROVE IInv'
<1> USE DEF IInv
<1>1. budget'.of = budget.of /\ budget' \in [of : Scenarios, left : 0..MaxFaults]
  BY DEF Types, Clock
<1>7. /\ day' \in 1..Days /\ hour' \in 1..Len(Phase)
      /\ \/ hour \in 1..4 /\ hour' = hour + 1 /\ day' = day /\ runner' = runner
         \/ hour = 5 /\ day' = day + 1 /\ runner' = NextDay
  BY Phases, Sizes DEF Clock, Types
<1>8. /\ runner' \in [Runners -> Runner]
      /\ \A r \in Runners : runner'[r].thread = runner[r].thread
  <2>1. \A r \in Runners :
          /\ [runner[r] EXCEPT !.entered = FALSE, !.skip = FALSE, !.off = FALSE] \in Runner
          /\ [runner[r] EXCEPT !.entered = FALSE, !.skip = FALSE, !.off = FALSE].thread = runner[r].thread
    <3>1. \A r \in Runners : runner[r] \in Runner
      BY DEF Types
    <3> QED
      BY <3>1 DEF Runner
  <2>2. CASE runner' = runner
    BY <2>2 DEF Types
  <2>3. CASE runner' = NextDay
    BY <2>1, <2>3 DEF NextDay
  <2> QED
    BY <1>7, <2>2, <2>3
<1>2. Types'
  BY <1>1, <1>7, <1>8 DEF Types, Clock, processes, page
<1>3. Locks'
  BY <1>1, SameLocks DEF Clock
<1>4. Handles'
  BY DEF Handles, Runs, Clock, processes
<1>5. Threads'
  BY <1>1, <1>8 DEF Threads, Clock, Loaded, IsOvernight
<1>6. Session'
  <2>1. main.pc = "wait" => hour \in {1, 2}
    BY Hours DEF Clock, Idle, At, Types
  <2>2. main.pc # "start"
    BY DEF Clock, Idle, At
  <2>3. main.pc = "loop" /\ ~main.closed => hour \notin {4, 5}
    BY Hours DEF Clock, Idle, Due, SessionOver, At, Types
  <2> QED
    BY <1>1, <1>7, <2>1, <2>2, <2>3 DEF Session, Clock
<1> QED
  BY <1>2, <1>3, <1>4, <1>5, <1>6

(* --- the invariant -------------------------------------------------------- *)

LEMMA InvInit == Init => IInv
<1> SUFFICES ASSUME Init PROVE IInv
  OBVIOUS
<1>1. Gone \in Child /\ Gone.at = "none" /\ ~Gone.own
  BY DEF Gone, Child
<1>2. Fresh \in Runner /\ ~Fresh.thread
  BY DEF Fresh, Runner
<1>3. main \in Main /\ main.pc = "off" /\ ~main.closed
  BY Sizes DEF Init, Main
<1>4. /\ child \in [Services -> [Ids -> Child]] /\ runner \in [Runners -> Runner]
      /\ \A svc \in Services, i \in Ids : child[svc][i] = Gone
      /\ \A r \in Runners : runner[r] = Fresh
      /\ lock \in [Services -> Ids \cup {0}] /\ handle \in [Services -> Ids \cup {0}]
      /\ \A svc \in Services : handle[svc] = 0
  BY <1>1, <1>2 DEF Init
<1>5. budget \in [of : Scenarios, left : 0..MaxFaults]
  BY Sizes DEF Init
<1>6. kind \in [1..Days -> {"trade", "closed", "fomc"}]
  BY DEF Init
<1>7. Types
  <2>1. day \in 1..Days /\ hour \in 1..Len(Phase) /\ probes \in 0..Days
    BY Sizes, Phases DEF Init
  <2>2. /\ entry \in BOOLEAN /\ press \in BOOLEAN /\ dash \in {"down", "child", "orphan"}
        /\ panel \in Services \cup {"none"}
    BY DEF Init
  <2> QED
    BY <1>3, <1>4, <1>5, <1>6, <2>1, <2>2 DEF Types
<1>8. Locks
  BY <1>1, <1>4 DEF Locks, Starting
<1>9. Handles
  BY <1>1, <1>3, <1>4 DEF Handles, Runs
<1>10. Threads
  BY <1>2, <1>3, <1>4 DEF Threads, Init
<1>11. Session
  BY <1>3 DEF Session, Init
<1> QED
  BY <1>7, <1>8, <1>9, <1>10, <1>11 DEF IInv

LEMMA InvStep == IInv /\ [Next]_vars => IInv'
<1> SUFFICES ASSUME IInv, [Next]_vars PROVE IInv'
  OBVIOUS
<1>1. CASE MainThread
  <2>1. ASSUME NEW oneday \in BOOLEAN, Launch(oneday) PROVE IInv'
    BY <2>1, LaunchKeeps
  <2>2. CASE BeginDay
    BY <2>2, BeginDayKeeps
  <2>3. CASE OpenServices
    BY <2>3, OpenServicesKeeps
  <2>4. CASE TooLate
    BY <2>4, TooLateKeeps
  <2>5. CASE StartTrading
    BY <2>5, StartTradingKeeps
  <2>6. CASE SessionEnd
    BY <2>6, SessionEndKeeps
  <2>7. CASE EndOfDay
    BY <2>7, EndOfDayKeeps
  <2>8. CASE DayDone
    BY <2>8, DayDoneKeeps
  <2>9. CASE Finish
    BY <2>9, FinishKeeps
  <2>10. CASE Morning
    BY <2>10, MorningKeeps
  <2>11. CASE MorningOpen
    BY <2>11, MorningOpenKeeps
  <2>12. CASE Health
    BY <2>12, HealthKeeps
  <2>13. CASE Wake
    BY <2>13, WakeKeeps
  <2> QED
    BY <1>1, <2>1, <2>2, <2>3, <2>4, <2>5, <2>6, <2>7, <2>8, <2>9, <2>10, <2>11, <2>12, <2>13 DEF MainThread
<1>2. CASE Locking
  <2>1. ASSUME NEW svc \in Services, NEW i \in Ids, ReadLock(svc, i) PROVE IInv'
    BY <2>1, ReadLockKeeps
  <2>2. ASSUME NEW svc \in Services, NEW i \in Ids, WriteLock(svc, i) PROVE IInv'
    BY <2>2, WriteLockKeeps
  <2> QED
    BY <1>2, <2>1, <2>2 DEF Locking
<1>3. CASE Thread
  <2>1. ASSUME NEW r \in Runners, Enter(r) PROVE IInv'
    BY <2>1, EnterKeeps
  <2>2. ASSUME NEW r \in Runners, Exit(r) PROVE IInv'
    BY <2>2, ExitKeeps
  <2>3. ASSUME NEW r \in Runners, Return(r) PROVE IInv'
    BY <2>3, ReturnKeeps
  <2> QED
    BY <1>3, <2>1, <2>2, <2>3 DEF Thread
<1>4. CASE World
  <2>1. ASSUME NEW svc \in Services, NEW i \in Ids, CrashChild(svc, i) PROVE IInv'
    BY <2>1, CrashChildKeeps
  <2>2. ASSUME NEW svc \in Services, NEW restart \in BOOLEAN, PanelKill(svc, restart) PROVE IInv'
    BY <2>2, PanelKillKeeps
  <2>3. ASSUME NEW r \in Runners, Raise(r) PROVE IInv'
    BY <2>3, RaiseKeeps
  <2>4. ASSUME NEW r \in Runners, Disable(r) PROVE IInv'
    BY <2>4, DisableKeeps
  <2>5. CASE KillLauncher
    BY <2>5, KillLauncherKeeps
  <2>6. CASE PanelLauncher
    BY <2>6, PanelLauncherKeeps
  <2>7. CASE Press
    BY <2>7, PressKeeps
  <2>8. CASE Clock
    BY <2>8, ClockKeeps
  <2> QED
    BY <1>4, <2>1, <2>2, <2>3, <2>4, <2>5, <2>6, <2>7, <2>8 DEF World
<1>5. CASE PanelSpawn
  BY <1>5, PanelSpawnKeeps
<1>6. CASE Taken
  BY <1>6, TakenKeeps
<1>7. CASE UNCHANGED vars
  <2>1. Types'
    BY <1>7 DEF IInv, Types, vars
  <2>2. Locks'
    BY <1>7 DEF IInv, Locks, Starting, vars
  <2>3. Handles'
    BY <1>7 DEF IInv, Handles, Runs, vars
  <2>4. Threads'
    BY <1>7 DEF IInv, Threads, Loaded, IsOvernight, vars
  <2>5. Session'
    BY <1>7 DEF IInv, Session, vars
  <2> QED
    BY <2>1, <2>2, <2>3, <2>4, <2>5 DEF IInv
<1> QED
  BY <1>1, <1>2, <1>3, <1>4, <1>5, <1>6, <1>7 DEF Next

\* The invariant of the launcher, its processes, their lock files and its threads
\* (run.py, process_lock.py, standalone_runner.py), in every scenario.
THEOREM LauncherInvariant == Spec => []IInv
<1>1. Init => IInv
  BY InvInit
<1>2. IInv /\ [Next]_vars => IInv'
  BY InvStep
<1> QED
  BY <1>1, <1>2, PTL DEF Spec

LEMMA InvTypes == IInv => TypeOK
BY Sizes DEF IInv, Types, TypeOK, Main, Child, Runner

LEMMA InvOneOfEach == IInv => "overlap" \in budget.of \/ OneOfEach
<1> SUFFICES ASSUME IInv, "overlap" \notin budget.of, NEW svc \in Services
             PROVE  Cardinality(Up(svc)) <= 1
  BY DEF OneOfEach
<1>1. Up(svc) \subseteq {lock[svc]}
  BY DEF IInv, Locks, Up
<1>2. IsFiniteSet({lock[svc]}) /\ Cardinality({lock[svc]}) = 1
  BY FS_Singleton
<1> QED
  BY <1>1, <1>2, FS_Subset

LEMMA InvAsleep == IInv => AsleepIsDown
<1> SUFFICES ASSUME IInv, main.pc = "asleep" PROVE AsleepIsDown
  BY DEF AsleepIsDown
<1>1. \A svc \in Services, i \in Ids : child[svc][i].own => child[svc][i].at = "none"
  BY Sizes DEF IInv, Handles, Runs, Ids
<1> QED
  BY <1>1 DEF AsleepIsDown, IInv, Threads

\* At most one process of a service is past its lock, however launcher and dashboard
\* kill and start them, unless two read the lock file before either writes it
\* (process_lock.py: acquire_lock); a launcher that sleeps has left nothing running
\* (run.py: main's finally).
THEOREM ProcessesAreInStep == Spec => []ProcessesInStep
<1>1. IInv => ProcessesInStep
  BY InvTypes, InvOneOfEach, InvAsleep DEF ProcessesInStep
<1> QED
  BY <1>1, LauncherInvariant, PTL

\* Entries run in the session of a day that check_trading_day allows, with that day's
\* probes, unless the launcher runs on overnight (run.py: main).
THEOREM EntriesAreOnTradingDays == Spec => []EntriesOnTradingDays
<1>1. IInv => EntriesOnTradingDays
  BY DEF IInv, Session, EntriesOnTradingDays
<1> QED
  BY <1>1, LauncherInvariant, PTL
=============================================================================
