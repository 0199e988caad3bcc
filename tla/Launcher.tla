------------------------------ MODULE Launcher ------------------------------
(***************************************************************************)
(* The launcher run.py through the days: its waits and checks, the         *)
(* processes it starts and revives (streamer, stop monitor; the recorder   *)
(* is handled as the streamer), their lock files, the threads of the       *)
(* standalone strategies, the entry coordinator, the clean-ups, and the    *)
(* dashboard's process page.                                               *)
(*                                                                         *)
(* A phase of the day passes only while the launcher waits or has nothing  *)
(* to do, its loop runs every five seconds.  One strategy trades in the    *)
(* session ("day"), one may go on overnight ("night").  Days, Instances    *)
(* and MaxFaults bound the run.                                            *)
(***************************************************************************)
EXTENDS Integers, FiniteSets, Sequences

CONSTANTS Days,        \* bound on the days
          Instances,   \* bound on the processes of a service
          MaxFaults,   \* bound on what goes wrong
          Scenarios    \* each the configuration and what may go wrong in a run

ASSUME LauncherAssumption ==
  /\ Days \in Nat \ {0} /\ Instances \in Nat \ {0} /\ MaxFaults \in Nat
  /\ UNION Scenarios \subseteq
       {"closed", "fomc", "overnight", "oneday", "crash", "kill", "raise", "panel", "press", "disable", "overlap"}

VARIABLES
  day, hour,  \* the clock: hour indexes Phase
  kind,       \* what each day is
  main,       \* the launcher's main thread
  child,      \* instances of each service: life and whether this launcher started it
  lock,       \* the instance each lock file names, 0 when there is no file
  handle,     \* the launcher's Popen objects, 0 for None
  runner,     \* StandaloneStrategyRunner objects with session state and trade files
  entry,      \* the entry coordinator's thread is running
  probes,     \* day of the REST probe coordinator and of the gate, 0 when stopped
  dash,       \* the dashboard
  panel,      \* service whose restart the dashboard has begun
  press,      \* killswitch.json is there
  budget      \* the run's scenario and how much may still go wrong

vars == <<day, hour, kind, main, child, lock, handle, runner, entry, probes, dash, panel, press, budget>>
clock == <<day, hour, kind>>
processes == <<child, lock, handle>>
page == <<dash, panel>>

Services == {"streamer", "stop_monitor"}
Runners == {"day", "night"}
Ids == 1..Instances
Phase == <<"early", "prep", "open", "close", "evening">>
Now == Phase[hour]
Fault(f) == f \in budget.of /\ budget.left > 0 /\ budget' = [budget EXCEPT !.left = @ - 1]

Gone == [at |-> "none", own |-> FALSE]
Fresh == [thread |-> FALSE, done |-> FALSE, stop |-> FALSE,
          entered |-> FALSE, skip |-> FALSE, open |-> FALSE, off |-> FALSE]

IsOvernight(r) == r = "night" /\ "overnight" \in budget.of
StillOvernight == \E r \in Runners : IsOvernight(r) /\ runner[r].thread
Alive(svc) == {i \in Ids : child[svc][i].at # "none"}
Up(svc) == {i \in Ids : child[svc][i].at = "up"}

Init ==
  /\ budget \in [of : Scenarios, left : {MaxFaults}]
  /\ kind \in [1..Days -> {"trade"} \cup ({"closed", "fomc"} \cap budget.of)]
  /\ day = 1 /\ hour = 2
  /\ main = [pc |-> "off", closed |-> FALSE, since |-> 0, trade |-> FALSE, ends |-> FALSE]
  /\ child = [svc \in Services |-> [i \in Ids |-> Gone]]
  /\ lock = [svc \in Services |-> 0] /\ handle = lock
  /\ runner = [r \in Runners |-> Fresh]
  /\ entry = FALSE /\ probes = 0 /\ dash = "down" /\ panel = "none" /\ press = FALSE

-----------------------------------------------------------------------------
(* Processes and their locks. *)

\* Mutant: only processes of this launcher count as live.
HeldByChild(svc, i) == lock[svc] # 0 /\ child[svc][lock[svc]].own

\* acquire_lock finds another live process in the file
Held(svc, i) == lock[svc] # 0 /\ child[svc][lock[svc]].at # "none"

\* a process takes its lock long before the launcher or the dashboard looks again
Settled == "overlap" \in budget.of \/ \A svc \in Services, i \in Ids : child[svc][i].at \notin {"boot", "checked"}

\* acquire_lock, first half: the file is read; a process that finds the lock held exits
ReadLock(svc, i) ==
  /\ child[svc][i].at = "boot"
  /\ child' = [child EXCEPT ![svc][i] =
       IF Held(svc, i) THEN Gone ELSE [@ EXCEPT !.at = "checked"]]
  /\ UNCHANGED <<clock, main, lock, handle, runner, entry, probes, page, press, budget>>

\* ... second half: the file is written and the service runs
WriteLock(svc, i) ==
  /\ child[svc][i].at = "checked"
  /\ child' = [child EXCEPT ![svc][i].at = "up"]
  /\ lock' = [lock EXCEPT ![svc] = i]
  /\ UNCHANGED <<clock, main, handle, runner, entry, probes, page, press, budget>>

CrashChild(svc, i) ==
  /\ child[svc][i].at = "up" /\ Fault("crash")
  /\ child' = [child EXCEPT ![svc][i] = Gone]
  /\ UNCHANGED <<clock, main, lock, handle, runner, entry, probes, page, press>>

\* a process id that no live process and no lock file has
FreeIds(svc) == {i \in Ids : child[svc][i].at = "none" /\ lock[svc] # i}
NewId(svc) == CHOOSE i \in FreeIds(svc) : TRUE

\* start_streamer, start_market_data_recorder and start_stop_monitor
Spawned(svcs, mine) ==
  /\ Settled /\ \A svc \in svcs : FreeIds(svc) # {}
  /\ child' = [svc \in Services |-> IF svc \in svcs
                 THEN [child[svc] EXCEPT ![NewId(svc)] = [at |-> "boot", own |-> mine]] ELSE child[svc]]
  /\ handle' = [svc \in Services |-> IF svc \in svcs /\ mine THEN NewId(svc) ELSE handle[svc]]
  /\ UNCHANGED lock

\* terminate and wait; the lock file of a terminated process stays
Terminated(svcs) ==
  /\ child' = [svc \in Services |-> [i \in Ids |->
       IF svc \in svcs /\ i = handle[svc] THEN Gone ELSE child[svc][i]]]
  /\ handle' = [svc \in Services |-> IF svc \in svcs THEN 0 ELSE handle[svc]]
  /\ UNCHANGED lock

\* poll() of a Popen object is not None
Exited(svc) == handle[svc] # 0 /\ child[svc][handle[svc]].at = "none"

-----------------------------------------------------------------------------
(* StandaloneStrategyRunner. *)

Allowed(r) == ~runner[r].off /\ kind[day] = "trade"

\* Mutant: whoever has entered today is done.
EnteredIsDone(r) == runner[r].entered

\* entered and without open trades; the DRMA strategies are exempt
NothingLeft(r) == r # "night" /\ runner[r].entered /\ ~runner[r].open

\* start; "known" is the runner object, a fresh one when the launcher starts
Started(r, known) ==
  LET n == IF known THEN runner[r] ELSE [runner[r] EXCEPT !.done = FALSE, !.stop = FALSE, !.thread = FALSE]
  IN  CASE n.thread -> n
        [] ~n.thread /\ NothingLeft(r) -> [n EXCEPT !.done = TRUE]
        [] ~n.thread /\ ~NothingLeft(r) /\ ~Allowed(r) ->
             [n EXCEPT !.entered = FALSE, !.skip = TRUE, !.done = TRUE]
        [] OTHER -> [n EXCEPT !.thread = TRUE, !.done = FALSE, !.stop = FALSE]

\* load_standalone_strategies; the overnight strategy where there is one
Loaded == {r \in Runners : r = "night" => IsOvernight(r)}

\* check_health
Watched(r) ==
  LET n == runner[r] IN
  CASE n.stop \/ n.thread \/ n.done -> n
    [] ~(n.stop \/ n.thread \/ n.done) /\ r # "night" /\ (NothingLeft(r) \/ n.skip) -> [n EXCEPT !.done = TRUE]
    [] OTHER -> IF Allowed(r) THEN Started(r, TRUE) ELSE n

\* stop
Stopped(r) == [runner[r] EXCEPT !.stop = TRUE, !.thread = FALSE]

Strategy(r, new) == /\ runner[r].thread /\ runner' = [runner EXCEPT ![r] = new]
                    /\ UNCHANGED <<clock, main, processes, entry, probes, page, press>>

\* the strategy opens its trade, closes it, returns, raises
Enter(r) == /\ ~runner[r].open /\ (r = "day" => ~runner[r].entered /\ Now = "open")
            /\ Strategy(r, [runner[r] EXCEPT !.entered = TRUE, !.open = TRUE]) /\ UNCHANGED budget
Exit(r) == runner[r].open /\ Strategy(r, [runner[r] EXCEPT !.open = FALSE]) /\ UNCHANGED budget
Return(r) == /\ r = "day" /\ runner[r].entered /\ ~runner[r].open
             /\ Strategy(r, [runner[r] EXCEPT !.thread = FALSE, !.done = TRUE]) /\ UNCHANGED budget
Raise(r) == Fault("raise") /\ Strategy(r, [runner[r] EXCEPT !.thread = FALSE])

\* the operator disables a strategy for the day, or enables it again
Disable(r) == /\ r \in Loaded /\ Fault("disable") /\ dash # "down"
              /\ runner' = [runner EXCEPT ![r].off = ~@]
              /\ UNCHANGED <<clock, main, processes, entry, probes, page, press>>

-----------------------------------------------------------------------------
(* The launcher's main thread. *)

At(pc) == main.pc = pc
Goto(pc) == main' = [main EXCEPT !.pc = pc]

\* clear_killswitch and clear_command_files, in every run_session_cleanup
Cleaned == press' = FALSE

\* run.py begins: lock, morning cleanup, dashboard, gate of the day
Launch(oneday) ==
  /\ At("off") /\ panel = "none" /\ (oneday \/ "oneday" \notin budget.of)
  /\ main' = [main EXCEPT !.pc = "day", !.ends = oneday, !.since = 0]
  /\ dash' = IF dash = "down" THEN "child" ELSE dash
  /\ Cleaned
  /\ UNCHANGED <<clock, processes, runner, entry, probes, panel, budget>>

\* after a day: exit, or sleep until 8:20 of the next one
Rest == [main EXCEPT !.pc = IF main.ends THEN "off" ELSE "asleep", !.since = day]
Leaves(m) == dash' = IF m.pc = "off" /\ dash = "child" THEN "down" ELSE dash

\* Mutant: the day trades unless the exchange is closed.
TradesWhenOpen == kind[day] # "closed"

\* check_trading_day: neither a holiday nor an FOMC day
ShouldTrade == kind[day] = "trade"

\* the week's loop and main, up to the wait for the market: a closed day ends here
BeginDay ==
  /\ At("day") /\ Cleaned
  /\ IF kind[day] = "closed"
     THEN main' = Rest /\ UNCHANGED probes
     ELSE main' = [main EXCEPT !.pc = "wait", !.trade = ShouldTrade] /\ probes' = day
  /\ Leaves(main')
  /\ UNCHANGED <<clock, processes, runner, entry, panel, budget>>

\* main starts its services ...
OpenServices ==
  /\ At("wait") /\ Now = "open" /\ Spawned(Services, TRUE)
  /\ main' = [main EXCEPT !.pc = "start", !.closed = FALSE, !.since = day]
  /\ UNCHANGED <<clock, runner, entry, probes, page, press, budget>>

\* ... unless the session is over already
TooLate ==
  /\ At("wait") /\ Now \in {"close", "evening"} /\ probes' = 0 /\ Goto("final")
  /\ UNCHANGED <<clock, processes, runner, entry, page, press, budget>>

\* ... and, on a day to trade, the strategies and the entry coordinator
StartTrading ==
  /\ At("start") /\ Goto("loop") /\ entry' = main.trade
  /\ runner' = IF main.trade THEN [r \in Runners |-> IF r \in Loaded THEN Started(r, FALSE) ELSE runner[r]] ELSE runner
  /\ UNCHANGED <<clock, processes, probes, page, press, budget>>

\* services the end of the session stops
DaytimeServices == IF StillOvernight THEN {"stop_monitor"} ELSE Services

\* runtime_should_stop_for_session
SessionOver == ~main.closed /\ (day > main.since \/ Now \in {"close", "evening"})

SessionEnd ==
  /\ At("loop") /\ SessionOver
  /\ main' = [main EXCEPT !.pc = "eod", !.closed = TRUE]
  /\ entry' = FALSE /\ probes' = 0
  /\ runner' = [r \in Runners |-> IF r \in Loaded /\ ~IsOvernight(r) THEN Stopped(r) ELSE runner[r]]
  /\ Terminated(DaytimeServices)
  /\ UNCHANGED <<clock, page, press, budget>>

\* _run_eod_cleanup_if_due: waits for 15:30; the trades that expired are settled
EodCleanup(pc, next) ==
  /\ At(pc) /\ Now # "close"
  /\ IF Now = "evening"
     THEN Cleaned /\ runner' = [r \in Runners |-> [runner[r] EXCEPT !.open = FALSE]]
     ELSE UNCHANGED <<press, runner>>
  /\ main' = next /\ Leaves(next)
  /\ UNCHANGED <<clock, processes, entry, probes, panel, budget>>

EndOfDay == EodCleanup("eod", [main EXCEPT !.pc = "loop"])
DayDone == EodCleanup("final", Rest)

\* nothing goes on overnight: the loop breaks, and everything is stopped
Finish ==
  /\ At("loop") /\ main.closed /\ ~StillOvernight /\ Goto("final")
  /\ runner' = [r \in Runners |-> IF r \in Loaded THEN Stopped(r) ELSE runner[r]]
  /\ entry' = FALSE /\ probes' = 0 /\ Terminated(Services)
  /\ UNCHANGED <<clock, page, press, budget>>

\* the morning of an overnight run: cleanup, then the wait for 8:30 ...
Morning ==
  /\ At("loop") /\ main.closed /\ StillOvernight /\ Now = "prep"
  /\ Cleaned /\ Goto("mwait")
  /\ UNCHANGED <<clock, processes, runner, entry, probes, page, budget>>

\* Mutant: the streamer is started again although it is running.
RestartsAll == Services

\* what the morning starts: the stop monitor, and what has exited
Missing == {svc \in Services : svc = "stop_monitor" \/ handle[svc] = 0 \/ Exited(svc)}

\* ... and the services of the day; the gate, the probes and the calendar are not asked
MorningOpen ==
  /\ At("mwait") /\ Now \notin {"early", "prep"}
  /\ main' = [main EXCEPT !.pc = "loop", !.closed = FALSE, !.since = day]
  /\ IF main.trade
     THEN /\ Spawned(Missing, TRUE) /\ entry' = TRUE
          /\ runner' = [r \in Runners |-> IF r \in Loaded /\ ~IsOvernight(r) THEN Started(r, TRUE) ELSE runner[r]]
     ELSE UNCHANGED <<processes, entry, runner>>
  /\ UNCHANGED <<clock, probes, page, press, budget>>

Due == At("loop") /\ (SessionOver \/ (main.closed /\ (~StillOvernight \/ Now = "prep")))

\* Mutant: the health check restarts the streamer only.
RevivesStreamer == {"streamer"}

\* processes the health check looks after
Revived == Services

\* the rest of an iteration: exited processes are started again, dead threads revived
Health ==
  /\ At("loop") /\ ~Due
  /\ Spawned({svc \in Revived : Exited(svc)}, TRUE)
  /\ runner' = IF main.trade
               THEN [r \in Runners |-> IF r \notin Loaded \/ (main.closed /\ ~IsOvernight(r)) THEN runner[r] ELSE Watched(r)]
               ELSE runner
  /\ UNCHANGED <<clock, main, entry, probes, page, press, budget>>

\* wait_until_central(next_start)
Wake ==
  /\ At("asleep") /\ day > main.since /\ Now # "early" /\ Goto("day")
  /\ UNCHANGED <<clock, processes, runner, entry, probes, page, press, budget>>

\* the launcher's process dies; what it started lives on
Orphaned == [svc \in Services |-> [i \in Ids |-> [child[svc][i] EXCEPT !.own = FALSE]]]
Dies(children) ==
  /\ Goto("off") /\ child' = children /\ handle' = [svc \in Services |-> 0]
  /\ runner' = [r \in Runners |-> [runner[r] EXCEPT !.thread = FALSE]]
  /\ entry' = FALSE /\ probes' = 0
  /\ UNCHANGED <<clock, lock>>

KillLauncher ==
  /\ ~At("off") /\ Fault("kill") /\ Dies(Orphaned)
  /\ dash' = (IF dash = "child" THEN "orphan" ELSE dash)
  /\ UNCHANGED <<panel, press>>

-----------------------------------------------------------------------------
(* The dashboard's process page, the kill switch and the clock. *)

\* get_service_status: the process of the lock file, else any by its command line
Found(svc) ==
  IF Held(svc, 0) THEN {lock[svc]}
  ELSE IF Alive(svc) = {} THEN {} ELSE {CHOOSE i \in Alive(svc) : TRUE}

\* stop_service, and restart_service's first half: the process is terminated
PanelKill(svc, restart) ==
  /\ dash # "down" /\ panel = "none" /\ Fault("panel")
  /\ child' = [child EXCEPT ![svc] = [i \in Ids |-> IF i \in Found(svc) THEN Gone ELSE @[i]]]
  /\ panel' = IF restart THEN svc ELSE "none"
  /\ UNCHANGED <<clock, main, lock, handle, runner, entry, probes, dash, press>>

\* ... and started again, by the launcher's health check or from here
PanelSpawn ==
  /\ panel \in Services /\ panel' = "none"
  /\ IF At("off") THEN Spawned({panel}, FALSE) ELSE UNCHANGED processes
  /\ UNCHANGED <<clock, main, runner, entry, probes, dash, press, budget>>

\* restart of the launcher: its children first, the dashboard may be one of them
PanelLauncher ==
  /\ dash # "down" /\ panel = "none" /\ ~At("off") /\ Fault("panel")
  /\ IF dash = "child"
     THEN /\ \E killed \in SUBSET Services :
               child' = [svc \in Services |-> [i \in Ids |->
                  IF svc \in killed /\ child[svc][i].own THEN Gone ELSE child[svc][i]]]
          /\ dash' = "down"
          /\ UNCHANGED <<clock, main, lock, handle, runner, entry, probes>>
     ELSE /\ Dies([svc \in Services |-> [i \in Ids |->
                  IF child[svc][i].own THEN Gone ELSE child[svc][i]]])
          /\ UNCHANGED dash
  /\ UNCHANGED <<panel, press>>

\* the operator's kill switch, and the stop monitor's scan that takes it
Press == /\ dash # "down" /\ Now = "open" /\ ~press /\ Fault("press") /\ press' = TRUE
         /\ UNCHANGED <<clock, main, processes, runner, entry, probes, page>>
Taken == /\ press /\ Up("stop_monitor") # {} /\ press' = FALSE
         /\ UNCHANGED <<clock, main, processes, runner, entry, probes, page, budget>>

\* the launcher waits for the clock
Idle ==
  \/ main.pc \in {"off", "asleep"} \/ (At("loop") /\ ~Due)
  \/ main.pc \in {"wait", "mwait"} /\ Now \in {"early", "prep"}
  \/ main.pc \in {"eod", "final"} /\ Now = "close"

\* a new day has new session files, and no override yet
NextDay == [r \in Runners |-> [runner[r] EXCEPT !.entered = FALSE, !.skip = FALSE, !.off = FALSE]]

Clock ==
  /\ Idle /\ Settled
  /\ \/ hour < Len(Phase) /\ hour' = hour + 1 /\ UNCHANGED <<day, runner>>
     \/ hour = Len(Phase) /\ day < Days /\ day' = day + 1 /\ hour' = 1 /\ runner' = NextDay
  /\ UNCHANGED <<kind, main, processes, entry, probes, page, press, budget>>

-----------------------------------------------------------------------------
MainThread ==
  \/ \E oneday \in BOOLEAN : Launch(oneday)
  \/ BeginDay \/ OpenServices \/ TooLate \/ StartTrading \/ SessionEnd \/ EndOfDay
  \/ DayDone \/ Finish \/ Morning \/ MorningOpen \/ Health \/ Wake

Locking == \E svc \in Services, i \in Ids : ReadLock(svc, i) \/ WriteLock(svc, i)
Thread == \E r \in Runners : Enter(r) \/ Exit(r) \/ Return(r)
World ==
  \/ \E svc \in Services, i \in Ids : CrashChild(svc, i)
  \/ \E svc \in Services, restart \in BOOLEAN : PanelKill(svc, restart)
  \/ \E r \in Runners : Raise(r) \/ Disable(r)
  \/ KillLauncher \/ PanelLauncher \/ Press \/ Clock

Next == MainThread \/ Locking \/ Thread \/ World \/ PanelSpawn \/ Taken

\* The launcher's loop, the processes it started and the stop monitor's scan run.
Spec ==
  /\ Init /\ [][Next]_vars
  /\ WF_vars(BeginDay) /\ WF_vars(OpenServices) /\ WF_vars(StartTrading) /\ WF_vars(MorningOpen)
  /\ WF_vars(Health) /\ WF_vars(PanelSpawn) /\ WF_vars(Taken)
  /\ \A svc \in Services, i \in Ids : WF_vars(ReadLock(svc, i)) /\ WF_vars(WriteLock(svc, i))

-----------------------------------------------------------------------------
(* Properties. *)

TypeOK ==
  /\ day \in 1..Days /\ hour \in 1..Len(Phase) /\ kind \in [1..Days -> {"trade", "closed", "fomc"}]
  /\ main \in [pc : {"off", "day", "wait", "start", "loop", "eod", "final", "asleep", "mwait"},
               closed : BOOLEAN, since : 0..Days, trade : BOOLEAN, ends : BOOLEAN]
  /\ child \in [Services -> [Ids -> [at : {"none", "boot", "checked", "up"}, own : BOOLEAN]]]
  /\ lock \in [Services -> Ids \cup {0}] /\ handle \in [Services -> Ids \cup {0}]
  /\ runner \in [Runners -> [thread : BOOLEAN, done : BOOLEAN, stop : BOOLEAN, entered : BOOLEAN,
                            skip : BOOLEAN, open : BOOLEAN, off : BOOLEAN]]
  /\ entry \in BOOLEAN /\ probes \in 0..Days /\ press \in BOOLEAN
  /\ dash \in {"down", "child", "orphan"} /\ panel \in Services \cup {"none"}

OneOfEach == \A svc \in Services : Cardinality(Up(svc)) <= 1

AsleepIsDown ==
  main.pc = "asleep" =>
    /\ \A svc \in Services, i \in Ids : child[svc][i].own => child[svc][i].at = "none"
    /\ ~entry /\ \A r \in Runners : ~runner[r].thread

\* At most one process of a service is past its lock, however launcher and dashboard
\* kill and start them (process_lock.py: acquire_lock), unless two of them read the
\* lock file before either writes it; and a launcher that sleeps until the next day has
\* left nothing running that it started (run.py: main's finally).
ProcessesInStep == TypeOK /\ ("overlap" \in budget.of \/ OneOfEach) /\ AsleepIsDown

\* Entries run in the session of a day that check_trading_day allows, with that day's
\* probes (run.py: main); a launcher that runs on overnight asks neither.
EntriesOnTradingDays ==
  entry /\ Now = "open" /\ "overnight" \notin budget.of => kind[day] = "trade" /\ probes = day

Watching == At("loop") /\ ~main.closed /\ ~SessionOver

PressIsHeard == (press /\ Watching) ~> (~press \/ ~Watching)

TradesAttended ==
  \A r \in Runners :
    (runner[r].open /\ Watching /\ main.trade)
      ~> (runner[r].thread \/ ~runner[r].open \/ ~Watching \/ runner[r].skip \/ runner[r].off)

\* While the launcher watches over the session a pressed kill switch is taken, whatever
\* happened to the stop monitor's process (run.py: health checks), and an open trade of a
\* standalone strategy has its thread again after an exception or a restart of the
\* launcher (standalone_runner.py: start, check_health), unless it was disabled then.
Attended == PressIsHeard /\ TradesAttended
=============================================================================
