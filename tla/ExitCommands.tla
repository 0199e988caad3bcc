---------------------------- MODULE ExitCommands ----------------------------
(***************************************************************************)
(* Operator commands against the exit jobs of the V3 stop engine           *)
(* (blocks/stop/v3/supervisor.py, command_claim.py, recovery.py and the    *)
(* job wrappers of the handlers).                                          *)
(*                                                                         *)
(* One scan thread visits every slot in a cycle: killswitch, close command,*)
(* stop update, running job, recovery route, closing or open scan.  Exit   *)
(* jobs run beside it and clear slot.exit_job_id when they end.  The       *)
(* operator drops command files at any time and the process may be         *)
(* restarted at any time: exit_job_id and the jobs are lost, the trade     *)
(* JSON and the command files are not.                                     *)
(*                                                                         *)
(* What a job does to the trade is reduced to the outcomes of its handler; *)
(* TradeExit models the orders.                                            *)
(***************************************************************************)
EXTENDS Integers, FiniteSets

CONSTANTS
  Paths, Names, NameOf, LaneSize,   \* see ExitRegistry
  NoPath,                           \* the scan thread is between slots
  MaxPresses,                       \* bound: killswitch files written
  MaxCloses,                        \* bound: close commands written per trade
  MaxUpdates,                       \* bound: stop updates written per trade
  MaxFails,                         \* bound: jobs that fail before the lane
  MaxRestarts                       \* bound: restarts of the process

VARIABLES
  phase,       \* ExitRegistry: the exit job of each path
  kind,        \* the handler that job runs
  cleared,     \* paths whose job's own finally block has run
  exitJob,     \* slot.exit_job_id
  status,      \* state['status']; "closing" split by what is being closed
  closeOnly,   \* state['close_only_mode']
  handler,     \* state['exit_handler']
  closeCmd,    \* trades/commands/<file>.close.json exists
  updateCmd,   \* trades/commands/<file>.stop_update.json exists
  killFile,    \* trades/killswitch.json exists
  killClaimed, \* StopSupervisor._killswitch_claimed
  killSeen,    \* the local "killswitch" of _cycle
  todo,        \* slots _cycle has not visited yet
  cur, at,     \* the slot being scanned and the step of the scan
  count        \* files the operator wrote, failures and restarts

jobVars == <<phase, kind, cleared>>
tradeVars == <<status, closeOnly, handler>>
fileVars == <<closeCmd, updateCmd, killFile>>
scanVars == <<killClaimed, killSeen, todo, cur, at>>
commandVars == <<jobVars, exitJob, tradeVars, fileVars, scanVars, count>>

Registry == INSTANCE ExitRegistry

Handlers == {"manual", "breach", "exchange", "chase"}
ScanSteps == {"idle", "batch", "kill", "command", "claim", "updating",
          "hasJob", "mark", "route", "next"}

\* "spread": a spread close order works; "long": the short leg is closed
Statuses == {"open", "spread", "long", "closed"}

HasJob(p) == phase[p] # "none"

CommandsInit ==
  /\ Registry!Init
  /\ kind = [p \in Paths |-> "none"]
  /\ cleared = {}
  /\ exitJob = [p \in Paths |-> "none"]
  /\ status = [p \in Paths |-> "open"]
  /\ closeOnly = [p \in Paths |-> FALSE]
  /\ handler = [p \in Paths |-> "none"]
  /\ closeCmd = [p \in Paths |-> FALSE]
  /\ updateCmd = [p \in Paths |-> FALSE]
  /\ killFile = FALSE
  /\ killClaimed = FALSE
  /\ killSeen = FALSE
  /\ todo = {}
  /\ cur = NoPath
  /\ at = "idle"
  /\ count = [press |-> 0, close |-> [p \in Paths |-> 0],
              update |-> [p \in Paths |-> 0], fail |-> 0, restart |-> 0]

Go(step) == at' = step /\ UNCHANGED <<killClaimed, killSeen, todo, cur>>

-----------------------------------------------------------------------------
(* The operator and the process.                                           *)

PressKill ==
  /\ count.press < MaxPresses
  /\ killFile' = TRUE
  /\ count' = [count EXCEPT !.press = @ + 1]
  /\ UNCHANGED <<jobVars, exitJob, tradeVars, closeCmd, updateCmd, scanVars>>

RequestClose(p) ==
  /\ count.close[p] < MaxCloses
  /\ closeCmd' = [closeCmd EXCEPT ![p] = TRUE]
  /\ count' = [count EXCEPT !.close[p] = @ + 1]
  /\ UNCHANGED <<jobVars, exitJob, tradeVars, updateCmd, killFile, scanVars>>

RequestUpdate(p) ==
  /\ count.update[p] < MaxUpdates
  /\ updateCmd' = [updateCmd EXCEPT ![p] = TRUE]
  /\ count' = [count EXCEPT !.update[p] = @ + 1]
  /\ UNCHANGED <<jobVars, exitJob, tradeVars, closeCmd, killFile, scanVars>>

\* A crash or a stop of the process and its next start: slots are rebuilt
\* from the trade files.
Restart ==
  /\ count.restart < MaxRestarts
  /\ count' = [count EXCEPT !.restart = @ + 1]
  /\ phase' = [p \in Paths |-> "none"]
  /\ kind' = [p \in Paths |-> "none"]
  /\ cleared' = {}
  /\ exitJob' = [p \in Paths |-> "none"]
  /\ killClaimed' = FALSE
  /\ killSeen' = FALSE
  /\ todo' = {}
  /\ cur' = NoPath
  /\ at' = "idle"
  /\ UNCHANGED <<tradeVars, fileVars>>

-----------------------------------------------------------------------------
(* Exit jobs.                                                              *)

\* Mutant: a refused submit leaves exit_job_id pending.
EnqueueKeepsId(p, k) ==
  /\ exitJob' = [exitJob EXCEPT ![p] = "pending"]
  /\ \/ Registry!Start(p) /\ kind' = [kind EXCEPT ![p] = k] /\ UNCHANGED cleared
     \/ HasJob(p) /\ UNCHANGED jobVars

\* A submit by the scan thread: exit_job_id is set before the pool is asked
\* and reset when it refuses the job.
Enqueue(p, k) ==
  \/ /\ Registry!Start(p)
     /\ kind' = [kind EXCEPT ![p] = k]
     /\ exitJob' = [exitJob EXCEPT ![p] = "pending"]
     /\ UNCHANGED cleared
  \/ /\ HasJob(p)
     /\ exitJob' = [exitJob EXCEPT ![p] = "none"]
     /\ UNCHANGED jobVars

\* Mutant: every handler signs exit_handler.
StartWorkSigned(p) ==
  /\ Registry!Work(p)
  /\ closeOnly' = [closeOnly EXCEPT ![p] = @ \/ kind[p] \in {"manual", "exchange"}]
  /\ handler' = [handler EXCEPT ![p] = kind[p]]
  /\ UNCHANGED <<kind, cleared, exitJob, status, fileVars, scanVars, count>>

\* What a handler's run() writes before it waits for the lane, and the start
\* of its pipeline.
StartWork(p) ==
  /\ Registry!Work(p)
  /\ closeOnly' = [closeOnly EXCEPT ![p] = @ \/ kind[p] \in {"manual", "exchange"}]
  /\ handler' = [handler EXCEPT ![p] = IF kind[p] = "exchange" THEN kind[p] ELSE @]
  /\ UNCHANGED <<kind, cleared, exitJob, status, fileVars, scanVars, count>>

\* A job that fails before the lane: no broker for the trade, no order id.
AbandonJob(p) ==
  /\ count.fail < MaxFails
  /\ Registry!Abandon(p)
  /\ count' = [count EXCEPT !.fail = @ + 1]
  /\ UNCHANGED <<kind, cleared, exitJob, tradeVars, fileVars, scanVars>>

\* The outcomes of the handlers' pipelines.  A pipeline that aborts leaves the
\* trade as it is; a breach claims the trade only when its limit order or a
\* fill confirmed the exit; _finalize_close and _apply_spread_close_fill
\* clear the recovery triggers.
Outcomes(p) ==
  LET keep == [s |-> status[p], c |-> closeOnly[p], h |-> handler[p]]
      breached(s) == [s |-> s, c |-> TRUE,
                      h |-> IF handler[p] = "none" THEN "breach" ELSE handler[p]]
      spread == [keep EXCEPT !.s = "spread"]
      long == [keep EXCEPT !.s = "long"]
      done == [s |-> "closed", c |-> FALSE, h |-> "none"]
  IN {keep} \union
     CASE status[p] = "open" /\ kind[p] = "manual" -> {spread, long, done}
       [] status[p] = "open" /\ kind[p] = "breach" -> {breached("open"), breached("long")}
       [] status[p] = "open" /\ kind[p] = "exchange" -> {long}
       [] status[p] = "long" /\ kind[p] = "chase" -> {done}
       [] OTHER -> {}

FinishWork(p) ==
  /\ Registry!Finish(p)
  /\ \E o \in Outcomes(p) :
       /\ status' = [status EXCEPT ![p] = o.s]
       /\ closeOnly' = [closeOnly EXCEPT ![p] = o.c]
       /\ handler' = [handler EXCEPT ![p] = o.h]
  /\ UNCHANGED <<kind, cleared, exitJob, fileVars, scanVars, count>>

\* _job's finally: slot.exit_job_id = None
ClearId(p) ==
  /\ phase[p] = "leaving"
  /\ p \notin cleared
  /\ cleared' = cleared \union {p}
  /\ exitJob' = [exitJob EXCEPT ![p] = "none"]
  /\ UNCHANGED <<phase, kind, tradeVars, fileVars, scanVars, count>>

\* _runner's finally: the pool forgets the job
EndJob(p) ==
  /\ p \in cleared
  /\ Registry!End(p)
  /\ cleared' = cleared \ {p}
  /\ kind' = [kind EXCEPT ![p] = "none"]
  /\ UNCHANGED <<exitJob, tradeVars, fileVars, scanVars, count>>

-----------------------------------------------------------------------------
(* The scan thread.                                                        *)

\* _cycle up to the slots: the killswitch file counts for the whole cycle in
\* which it was seen, and is renamed unless an earlier one was just claimed.
BeginCycle ==
  /\ at = "idle"
  /\ killSeen' = killFile
  /\ killFile' = (killFile /\ killClaimed)
  /\ killClaimed' = killFile
  /\ todo' = {p \in Paths : status[p] # "closed"}
  /\ at' = "batch"
  /\ UNCHANGED <<jobVars, exitJob, tradeVars, closeCmd, updateCmd, cur, count>>

\* _batch_peaceful_reconcile finds a stop filled at the broker: it enqueues
\* the exchange handler, or the reconcile has already recorded the fill.
BatchSync(p) ==
  /\ at = "batch"
  /\ p \in todo
  /\ status[p] = "open"
  /\ ~HasJob(p)
  /\ \/ Enqueue(p, "exchange") /\ UNCHANGED status
     \/ status' = [status EXCEPT ![p] = "long"] /\ UNCHANGED <<jobVars, exitJob>>
  /\ UNCHANGED <<closeOnly, handler, fileVars, scanVars, count>>

\* _scan_slot starts.  check_exit_stall may call reconcile_stalled_exit when
\* no job runs: the close order is found filled and the trade is closed, the
\* flags stay.
PickSlot(p) ==
  /\ at \in {"batch", "next"}
  /\ p \in todo
  /\ \/ UNCHANGED status
     \/ /\ status[p] \in {"spread", "long"}
        /\ closeOnly[p] \/ handler[p] # "none"
        /\ ~HasJob(p)
        /\ status' = [status EXCEPT ![p] = "closed"]
  /\ todo' = todo \ {p}
  /\ cur' = p
  /\ at' = "kill"
  /\ UNCHANGED <<jobVars, exitJob, closeOnly, handler, fileVars, killClaimed, killSeen, count>>

EndCycle ==
  /\ at \in {"batch", "next"}
  /\ todo = {}
  /\ at' = "idle"
  /\ cur' = NoPath
  /\ UNCHANGED <<jobVars, exitJob, tradeVars, fileVars, killClaimed, killSeen, todo, count>>

\* Mutant: the claim does not look at exit_job_id.
MayClaimAnyway(p) == status[p] # "closed" /\ ~closeOnly[p]

\* claim_manual_close: the early returns
MayClaim(p) == status[p] # "closed" /\ ~closeOnly[p] /\ exitJob[p] = "none"

\* claim_manual_close: the trade file is saved, then the kill is enqueued
ClaimAndEnqueue(p) ==
  /\ closeOnly' = [closeOnly EXCEPT ![p] = TRUE]
  /\ handler' = [handler EXCEPT ![p] = "manual"]
  /\ Enqueue(p, "manual")
  /\ Go("next")

KillApplies(p) == killSeen /\ status[p] = "open" /\ MayClaim(p)

ScanKill ==
  /\ at = "kill"
  /\ \/ KillApplies(cur) /\ ClaimAndEnqueue(cur)
     \/ ~KillApplies(cur) /\ Go("command") /\ UNCHANGED <<jobVars, exitJob, closeOnly, handler>>
  /\ UNCHANGED <<status, fileVars, count>>

\* The scan goes on with the stop update, if there is one, else with the job.
AfterClose(p) == IF status[p] = "open" /\ updateCmd[p] THEN "updating" ELSE "hasJob"

\* detect_and_claim_close_command: the file is renamed first
ScanCommand ==
  /\ at = "command"
  /\ closeCmd' = [closeCmd EXCEPT ![cur] = FALSE]
  /\ Go(IF closeCmd[cur] THEN "claim" ELSE AfterClose(cur))
  /\ UNCHANGED <<jobVars, exitJob, tradeVars, updateCmd, killFile, count>>

\* ... and archived whether the claim is taken or refused
ScanClaim ==
  /\ at = "claim"
  /\ \/ MayClaim(cur) /\ ClaimAndEnqueue(cur)
     \/ /\ ~MayClaim(cur)
        /\ Go(AfterClose(cur))
        /\ UNCHANGED <<jobVars, exitJob, closeOnly, handler>>
  /\ UNCHANGED <<status, fileVars, count>>

\* _check_stop_update_command ends: a new stop is placed, the old one turned
\* out filled, or the command is kept for the next cycle
EndUpdate ==
  /\ at = "updating"
  /\ \/ /\ updateCmd' = [updateCmd EXCEPT ![cur] = FALSE]
        /\ \/ UNCHANGED status
           \/ status[cur] = "open" /\ status' = [status EXCEPT ![cur] = "long"]
        /\ Go("next")
     \/ Go("hasJob") /\ UNCHANGED <<updateCmd, status>>
  /\ UNCHANGED <<jobVars, exitJob, closeOnly, handler, closeCmd, killFile, count>>

\* if self.exit_pool.has_job(slot.path)
ScanHasJob ==
  /\ at = "hasJob"
  /\ Go(IF HasJob(cur) THEN "mark" ELSE "route")
  /\ UNCHANGED <<jobVars, exitJob, tradeVars, fileVars, count>>

\* slot.exit_job_id = 'active'
ScanMark ==
  /\ at = "mark"
  /\ exitJob' = [exitJob EXCEPT ![cur] = "active"]
  /\ Go("next")
  /\ UNCHANGED <<jobVars, tradeVars, fileVars, count>>

\* Mutant: the recovery route does not resume a claimed manual close.
RoutesNoManual(p) ==
  CASE status[p] = "open" /\ closeOnly[p] -> {"exchange"}
    [] status[p] = "open" /\ ~closeOnly[p] -> {"breach", "exchange"}
    [] status[p] = "long" -> {"chase"}
    [] OTHER -> {}

\* Mutant: a breach is evaluated before the recovery route is looked at.
RoutesBreachFirst(p) ==
  CASE status[p] = "open" /\ handler[p] = "manual" -> {"manual", "breach"}
    [] status[p] = "open" /\ handler[p] # "manual" -> {"breach", "exchange"}
    [] status[p] = "long" -> {"chase"}
    [] OTHER -> {}

\* resolve_exit_recovery_route, _poll_closing and _scan_open_slot: the job
\* kinds that may be enqueued for a slot without a job.
Routes(p) ==
  CASE status[p] = "open" /\ handler[p] = "manual" -> {"manual"}
    [] status[p] = "open" /\ handler[p] = "breach" -> {"breach", "exchange"}
    [] status[p] = "open" /\ handler[p] = "exchange" -> {"exchange"}
    [] status[p] = "open" /\ handler[p] = "none" ->
         IF closeOnly[p] THEN {} ELSE {"breach", "exchange"}
    [] status[p] = "long" -> {"chase"}
    [] OTHER -> {}

\* A manual close is always resumed.  A breach, a fill at the broker or an
\* elapsed chase delay may be there or not; a fill may also be recorded by the
\* reconcile itself, and a polled spread close may be filled.
ScanRoute ==
  /\ at = "route"
  /\ \/ \E k \in Routes(cur) : Enqueue(cur, k) /\ UNCHANGED tradeVars
     \/ /\ "exchange" \in Routes(cur)
        /\ status' = [status EXCEPT ![cur] = "long"]
        /\ UNCHANGED <<jobVars, exitJob, closeOnly, handler>>
     \/ /\ status[cur] = "spread"
        /\ status' = [status EXCEPT ![cur] = "closed"]
        /\ closeOnly' = [closeOnly EXCEPT ![cur] = FALSE]
        /\ handler' = [handler EXCEPT ![cur] = "none"]
        /\ UNCHANGED <<jobVars, exitJob>>
     \/ "manual" \notin Routes(cur) /\ UNCHANGED <<jobVars, exitJob, tradeVars>>
  /\ Go("next")
  /\ UNCHANGED <<fileVars, count>>

Operator == PressKill \/ \E p \in Paths : RequestClose(p) \/ RequestUpdate(p)

Job(p) == StartWork(p) \/ AbandonJob(p) \/ FinishWork(p) \/ ClearId(p) \/ EndJob(p)

Scan ==
  \/ BeginCycle
  \/ \E p \in Paths : PickSlot(p)
  \/ EndCycle
  \/ ScanKill
  \/ ScanCommand
  \/ ScanClaim
  \/ EndUpdate
  \/ ScanHasJob
  \/ ScanMark
  \/ ScanRoute

CommandsNext ==
  \/ Operator
  \/ Restart
  \/ \E p \in Paths : Job(p) \/ BatchSync(p)
  \/ Scan

CommandsSpec == CommandsInit /\ [][CommandsNext]_commandVars

\* The scan thread cycles until it is stopped, a started job runs on, and a
\* job that waits for the lane gets in when the lane is free again and again.
CommandsFairness ==
  /\ WF_commandVars(Scan)
  /\ \A p \in Paths :
       SF_commandVars(StartWork(p)) /\ WF_commandVars(FinishWork(p) \/ ClearId(p) \/ EndJob(p))

CommandsFairSpec == CommandsSpec /\ CommandsFairness

-----------------------------------------------------------------------------
CommandsTypeOK ==
  /\ phase \in [Paths -> Registry!Phases]
  /\ kind \in [Paths -> Handlers \union {"none"}]
  /\ cleared \subseteq Paths
  /\ exitJob \in [Paths -> {"none", "pending", "active"}]
  /\ status \in [Paths -> Statuses]
  /\ closeOnly \in [Paths -> BOOLEAN]
  /\ handler \in [Paths -> {"none", "manual", "breach", "exchange"}]
  /\ closeCmd \in [Paths -> BOOLEAN]
  /\ updateCmd \in [Paths -> BOOLEAN]
  /\ {killFile, killClaimed, killSeen} \subseteq BOOLEAN
  /\ todo \subseteq Paths
  /\ cur \in Paths \union {NoPath}
  /\ at \in ScanSteps

\* exit_job_id "pending" names a job of the pool that has not ended yet: no
\* path of the supervisor leaves the id set for a job that was refused.
PendingHasJob ==
  \A p \in Paths : exitJob[p] = "pending" => HasJob(p) /\ p \notin cleared

\* A manual close that is claimed never shares its trade with a breach
\* pipeline: exit_job_id keeps the claim out until the pipeline is over, and
\* close_only_mode keeps a later breach out (STOP_MONITOR_V3_DESIGN 5.1).
ManualExcludesBreach ==
  \A p \in Paths :
    kind[p] = "breach" /\ phase[p] \in {"waiting", "working"} => handler[p] # "manual"

\* Once a manual close is claimed the next job of an open trade is the manual
\* kill, or the handler of a stop that was filled meanwhile (6.3.1).
NoBreachAfterClaim ==
  [][\A p \in Paths :
       handler[p] = "manual" /\ status[p] = "open" /\ ~HasJob(p) /\ HasJob(p)'
         => kind'[p] \in {"manual", "exchange"}]_commandVars

\* A manual close that was persisted is carried out: whatever jobs were
\* refused or restarted meanwhile, a kill pipeline works on the trade again
\* or the trade leaves "open" (recovery route resume_manual_kill).
ClaimedCloseIsRetried ==
  \A p \in Paths :
    handler[p] = "manual" /\ status[p] = "open"
      ~> \/ handler[p] # "manual" \/ status[p] # "open"
         \/ kind[p] = "manual" /\ phase[p] = "working"

\* A close command is archived without effect only for a trade that is closed
\* or already has an exit owner (STOP_MONITOR_V3_DESIGN 6.6).
RefusedOnlyForOwner ==
  at = "claim" /\ ~MayClaim(cur)
    => status[cur] = "closed" \/ closeOnly[cur] \/ HasJob(cur)

\* What holds of every slot at every moment: its types, a pending id names a job
\* that has not ended, and a claimed manual close runs beside no breach.
CommandsSound == CommandsTypeOK /\ PendingHasJob /\ ManualExcludesBreach
=============================================================================
