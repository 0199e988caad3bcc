---------------------------- MODULE NewRiskGate ----------------------------
(***************************************************************************)
(* Whether new risk may be opened: the gate file of the session day        *)
(* (common/trading_gate.py), the broker cooldown, the REST probes that the *)
(* launcher's coordinator and the dashboard run, the operator's resume,    *)
(* the entry monitor that asks the gate, claims the row and then starts an *)
(* entry worker, and that worker's own look at the gate before each order  *)
(* (EntryRow is what it does with the order).                              *)
(*                                                                         *)
(* Time is three events: a success gets too old, a cooldown ends, a probe  *)
(* misses its deadline.  Every failing status is "failed".  A write of the *)
(* gate is atomic in its process.  With "overlap" in scen another process  *)
(* cuts into it, into resume and into set_cooldown, or a kill does.        *)
(***************************************************************************)
EXTENDS Integers, FiniteSets

CONSTANTS Tranches,   \* lots of the MEIC session plan
          Slots,      \* manual rows
          Workers,    \* max_workers of the coordinator's executor
          MaxFaults,  \* bound on what goes wrong
          Scenarios   \* each a set of what may go wrong in a run

Startup == "startup"
Dash == "dash"
Rows == Tranches \cup Slots
Keys == Rows \cup {Startup}     \* probes of the coordinator
Probes == Keys \cup {Dash}      \* who asks the broker
Processes == {"launcher", "dashboard", "monitor"}
Happenings == {"limited", "error", "restart", "newday", "overlap", "startup"}

ASSUME GateAssumption ==
    /\ Workers \in Nat \ {0} /\ MaxFaults \in Nat
    /\ {Startup, Dash} \cap Rows = {} /\ Tranches \cap Slots = {}
    /\ Scenarios \subseteq SUBSET Happenings

VARIABLES scen,      \* what may go wrong in this run
          gate,      \* trading_gate.json: [rest, latched, fresh, probe]
          cooldown,  \* broker_cooldown.json names a time to come
          hand,      \* what a process has read and not written back: {} or {gate}
          job,       \* the probes: [pc, ok, waiting]
          monitor,   \* a broker call of another process: "idle" or "cooling"
          resume,    \* the operator's resume: "idle" or "checked"
          passed,    \* the row that the tick let through and is starting: {} or {row}
          row,       \* the rows of the session plan, with their workers
          blind,     \* a trade has entry_control 'cooldown_blind'
          since,     \* history: "calm", "trouble", or "recovered" since then
          faults

vars == <<scen, gate, cooldown, hand, job, monitor, resume, passed, row, blind, since, faults>>

Phases == {"none", "scheduled", "running", "ok", "failed"}
Gates == [rest: {"unknown", "healthy", "failed"}, latched: BOOLEAN, fresh: BOOLEAN,
          probe: [Rows -> Phases]]
Steps == {"new", "scheduled", "queued", "asking", "cooling", "recording", "clearing", "done"}

NewJob == [pc |-> "new", ok |-> FALSE, waiting |-> FALSE]

\* _default_state, latched when a cooldown outlives the night
NewGate(cooling) ==
    [rest |-> IF cooling THEN "failed" ELSE "unknown", latched |-> cooling,
     fresh |-> FALSE, probe |-> [r \in Rows |-> "none"]]

Init == /\ scen \in Scenarios
        /\ gate = NewGate(FALSE) /\ cooldown = FALSE
        /\ hand = [p \in Processes |-> {}]
        /\ job = [k \in Probes |-> NewJob]
        /\ monitor = "idle" /\ resume = "idle"
        /\ passed = {} /\ row = [r \in Rows |-> "pending"]
        /\ blind = FALSE /\ since = "calm" /\ faults = 0

Fault(f) == f \in scen /\ faults < MaxFaults /\ faults' = faults + 1
Once(f) == Fault(f) /\ faults = 0       \* bound: before any other fault
Overlap == "overlap" \in scen
Cooling == monitor = "cooling" \/ \E k \in Probes : job[k].pc = "cooling"

-----------------------------------------------------------------------------
(* The gate file. *)

\* the process has something to write
Writing(p) ==
    \/ p = "monitor" /\ monitor = "cooling"
    \/ p = "dashboard" /\ job[Dash].pc \in {"cooling", "recording"}
    \/ p = "launcher" /\ \E k \in Keys : job[k].waiting \/ job[k].pc \in {"cooling", "recording"}

ReadEarly(p) ==
    /\ Once("overlap") /\ Writing(p) /\ hand[p] = {}
    /\ hand' = [hand EXCEPT ![p] = {gate}]
    /\ UNCHANGED <<scen, gate, cooldown, job, monitor, resume, passed, row, blind, since>>

\* the state _mutate changes
Read(p) == IF hand[p] = {} THEN gate ELSE CHOOSE g \in hand[p] : TRUE

Write(p, g) == gate' = g /\ hand' = [hand EXCEPT ![p] = {}]

\* the record of row k; nobody reads those of the startup and the dashboard's probe
Marked(g, k, phase) ==
    [g EXCEPT !.probe = [r \in Rows |-> IF r = k THEN phase ELSE g.probe[r]]]

Latched(g) == [g EXCEPT !.latched = TRUE, !.rest = "failed"]

Unlatched(g) == [g EXCEPT !.latched = FALSE]

\* record_probe_result
Recorded(g, k, ok) ==
    [Marked(g, k, IF ok THEN "ok" ELSE "failed") EXCEPT
        !.rest = IF ok THEN "healthy" ELSE "failed", !.fresh = ok \/ @, !.latched = @ \/ ~ok]

\* Mutant: the throttle's own status becomes the status of REST.
SuppressedRest(g) == [g EXCEPT !.rest = "suppressed"]

\* a result 'suppressed_min_interval' touches the startup record only
Suppressed(g) == Marked(g, Startup, "failed")

\* a result or a cooldown of this kind is known from now on
Seen(ok) == since' = IF ~ok THEN "trouble" ELSE IF since = "trouble" THEN "recovered" ELSE since

ProcessOf(k) == IF k = Dash THEN "dashboard" ELSE "launcher"

-----------------------------------------------------------------------------
(* A probe: scheduled, taken by the executor, answered, recorded. *)

At(k, pc) == job[k].pc = pc
Go(k, pc, ok) == job' = [job EXCEPT ![k].pc = pc, ![k].ok = ok]

\* schedule_tranche_probe: once per key, whoever asks for it
Schedule(k) ==
    /\ At(k, "new")
    /\ Go(k, "scheduled", FALSE)
    /\ Write("launcher", Marked(Read("launcher"), k, "scheduled"))

\* the coordinator's own: at startup (REST_PROBE_ON_SESSION_START), and before a window
\* while it has not ended
Due(k) ==
    /\ \/ k = Startup /\ "startup" \in scen
       \/ k \in Tranches /\ row[k] # "missed"
    /\ Schedule(k)
    /\ UNCHANGED <<scen, cooldown, monitor, resume, passed, row, blind, since, faults>>

Run(k) ==
    /\ At(k, "scheduled")
    /\ job' = [job EXCEPT ![k].pc = "queued", ![k].waiting = TRUE]
    /\ Write("launcher", Marked(Read("launcher"), k, "running"))
    /\ UNCHANGED <<scen, cooldown, monitor, resume, passed, row, blind, since, faults>>

Busy == {k \in Keys : job[k].pc \in {"asking", "cooling", "recording"}}

\* a worker of the executor takes the job; a cooldown answers for the broker
Enter(k) ==
    /\ At(k, "queued") /\ Cardinality(Busy) < Workers
    /\ Go(k, IF cooldown THEN "recording" ELSE "asking", FALSE)
    /\ UNCHANGED <<scen, gate, cooldown, hand, monitor, resume, passed, row, blind, since, faults>>

AnswerOk(k) ==
    /\ At(k, "asking") /\ Go(k, "recording", TRUE)
    /\ UNCHANGED <<scen, gate, cooldown, hand, monitor, resume, passed, row, blind, since, faults>>

AnswerError(k) ==
    /\ At(k, "asking") /\ Fault("error") /\ Go(k, "recording", FALSE)
    /\ UNCHANGED <<scen, gate, cooldown, hand, monitor, resume, passed, row, blind, since>>

\* 429, 401, a timeout: set_cooldown writes its file, then latches
AnswerLimited(k) ==
    /\ At(k, "asking") /\ Fault("limited") /\ Go(k, "cooling", FALSE)
    /\ cooldown' = TRUE /\ Seen(FALSE)
    /\ UNCHANGED <<scen, gate, hand, monitor, resume, passed, row, blind>>

Latch(k) ==
    /\ At(k, "cooling") /\ Go(k, "recording", FALSE)
    /\ Write(ProcessOf(k), Latched(Read(ProcessOf(k))))
    /\ UNCHANGED <<scen, cooldown, monitor, resume, passed, row, blind, since, faults>>

\* run_rest_probe records its result, also when nobody waits for it any more
Record(k) ==
    /\ At(k, "recording") /\ Seen(job[k].ok)
    /\ job' = [job EXCEPT ![k] = [pc |-> IF k # Dash THEN "done" ELSE IF job[k].ok THEN "clearing"
                                                                 ELSE "new",
                                   ok |-> FALSE, waiting |-> FALSE]]
    /\ Write(ProcessOf(k), Recorded(Read(ProcessOf(k)), k, job[k].ok))
    /\ UNCHANGED <<scen, cooldown, monitor, resume, passed, row, blind, faults>>

\* Mutant: nothing is recorded for a job that is late.
DeadlineSilent(k) ==
    /\ job[k].waiting
    /\ job' = [job EXCEPT ![k].waiting = FALSE, ![k].pc = IF @ = "queued" THEN "done" ELSE @]
    /\ UNCHANGED <<scen, gate, hand, cooldown, monitor, resume, passed, row, blind, since, faults>>

\* the hard deadline: 'timed_out' is recorded, a job still in the queue is cancelled
Deadline(k) ==
    /\ job[k].waiting /\ Seen(FALSE)
    /\ job' = [job EXCEPT ![k].waiting = FALSE, ![k].pc = IF @ = "queued" THEN "done" ELSE @]
    /\ Write("launcher", Recorded(Read("launcher"), k, FALSE))
    /\ UNCHANGED <<scen, cooldown, monitor, resume, passed, row, blind, faults>>

-----------------------------------------------------------------------------
(* The dashboard: re-check past the cooldown, and resume. *)

Recheck ==
    /\ At(Dash, "new")
    /\ \/ Go(Dash, "asking", FALSE) /\ UNCHANGED <<gate, hand>>
       \/ Write("dashboard", Suppressed(Read("dashboard"))) /\ UNCHANGED job
    /\ UNCHANGED <<scen, cooldown, monitor, resume, passed, row, blind, since, faults>>

\* after a success; unless processes overlap a latch is at most a moment behind its file
ClearCooldown ==
    /\ At(Dash, "clearing") /\ (Overlap \/ ~Cooling)
    /\ Go(Dash, "new", FALSE) /\ cooldown' = FALSE
    /\ UNCHANGED <<scen, gate, hand, monitor, resume, passed, row, blind, since, faults>>

\* Mutant: resume looks at the age of the last success, not at the last result.
MayResumeOnAge == ~cooldown /\ gate.fresh /\ ~blind

MayResume == ~cooldown /\ gate.rest = "healthy" /\ gate.fresh /\ ~blind

Resume ==
    /\ resume = "idle" /\ MayResume
    /\ Write("dashboard", Unlatched(Read("dashboard"))) /\ since' = "calm"
    /\ UNCHANGED <<scen, cooldown, job, monitor, resume, passed, row, blind, faults>>

ResumeCheck ==
    /\ Once("overlap") /\ resume = "idle" /\ MayResume /\ resume' = "checked"
    /\ UNCHANGED <<scen, gate, cooldown, hand, job, monitor, passed, row, blind, since>>

ResumeApply ==
    /\ resume = "checked" /\ resume' = "idle"
    /\ Write("dashboard", Unlatched(Read("dashboard"))) /\ since' = "calm"
    /\ UNCHANGED <<scen, cooldown, job, monitor, passed, row, blind, faults>>

-----------------------------------------------------------------------------
(* The entry monitor: one thread, whose tick looks at one row after the other. *)

\* cooldown and latch hold for everyone
Open == ~cooldown /\ ~gate.latched

\* evaluate_new_risk_gate: a tranche has its own probe, a manual row the last success too
Allowed(r) ==
    /\ Open
    /\ gate.probe[r] = "ok" \/ (r \in Slots /\ gate.rest = "healthy" /\ gate.fresh)

\* _gate_allows_spawn
Check(r) ==
    /\ passed = {} /\ row[r] = "pending" /\ Allowed(r)
    /\ passed' = {r}
    /\ UNCHANGED <<scen, gate, cooldown, hand, job, monitor, resume, row, blind, since, faults>>

\* the row is written to the plan's file, whatever the gate says by then ...
Claim(r) ==
    /\ r \in passed /\ row[r] = "pending"
    /\ row' = [row EXCEPT ![r] = "claimed"]
    /\ UNCHANGED <<scen, gate, cooldown, hand, job, monitor, resume, passed, blind, since, faults>>

\* ... and its worker thread is started
Start(r) ==
    /\ r \in passed /\ row[r] = "claimed" /\ passed' = {}
    /\ row' = [row EXCEPT ![r] = "started"]
    /\ UNCHANGED <<scen, gate, cooldown, hand, job, monitor, resume, blind, since, faults>>

\* 'rest_probe_missing' or 'rest_probe_pending': see that there is a probe
Request(r) ==
    /\ passed = {} /\ row[r] = "pending" /\ Open /\ ~Allowed(r)
    /\ gate.probe[r] \in {"none", "scheduled", "running"}
    /\ Schedule(r)
    /\ UNCHANGED <<scen, cooldown, monitor, resume, passed, row, blind, since, faults>>

Tick(r) == Check(r) \/ Request(r) \/ Claim(r) \/ Start(r)

Missed(r) ==
    /\ passed = {} /\ r \in Tranches /\ row[r] = "pending"
    /\ row' = [row EXCEPT ![r] = "missed"]
    /\ UNCHANGED <<scen, gate, cooldown, hand, job, monitor, resume, passed, blind, since, faults>>

-----------------------------------------------------------------------------
(* The entry workers. *)

\* Mutant: the worker relies on the check of the tick that started it.
CheckedBefore == FALSE

\* effective_new_risk_blocked
Blocked == cooldown \/ gate.latched \/ gate.rest # "healthy"

\* the last look before an order is sent
Look(r) ==
    /\ row[r] = "started"
    /\ row' = [row EXCEPT ![r] = IF Blocked THEN "stopped" ELSE "ordering"]
    /\ UNCHANGED <<scen, gate, cooldown, hand, job, monitor, resume, passed, blind, since, faults>>

\* the order did not fill: the next attempt looks again
NextAttempt(r) ==
    /\ row[r] = "ordering"
    /\ row' = [row EXCEPT ![r] = "started"]
    /\ UNCHANGED <<scen, gate, cooldown, hand, job, monitor, resume, passed, blind, since, faults>>

Worker(r) == Look(r) \/ NextAttempt(r)

\* an entry worker loses sight of its order: cooldown_blind, then the latch
LoseSight ==
    /\ \E r \in Rows : row[r] = "ordering"
    /\ Fault("error") /\ blind' = TRUE /\ Seen(FALSE)
    /\ Write("launcher", Latched(Read("launcher")))
    /\ UNCHANGED <<scen, cooldown, job, monitor, resume, passed, row>>

-----------------------------------------------------------------------------
(* Other processes, time, restarts. *)

\* a broker call of the stop monitor is refused
MonitorLimited ==
    /\ monitor = "idle" /\ Fault("limited")
    /\ monitor' = "cooling" /\ cooldown' = TRUE /\ Seen(FALSE)
    /\ UNCHANGED <<scen, gate, hand, job, resume, passed, row, blind>>

MonitorLatch ==
    /\ monitor = "cooling" /\ monitor' = "idle"
    /\ Write("monitor", Latched(Read("monitor")))
    /\ UNCHANGED <<scen, cooldown, job, resume, passed, row, blind, since, faults>>

\* minutes after its latch
CooldownEnds ==
    /\ cooldown /\ ~Cooling /\ cooldown' = FALSE
    /\ UNCHANGED <<scen, gate, hand, job, monitor, resume, passed, row, blind, since, faults>>

\* the last success is older than REST_READY_MAX_AGE_SEC
GoesStale ==
    /\ gate' = [gate EXCEPT !.fresh = FALSE]
    /\ hand' = [p \in Processes |-> {[g EXCEPT !.fresh = FALSE] : g \in hand[p]}]
    /\ UNCHANGED <<scen, cooldown, job, monitor, resume, passed, row, blind, since, faults>>

\* the launcher's jobs and what it remembers of them are gone
Forgotten == [k \in Probes |-> IF k = Dash THEN job[k] ELSE NewJob]

\* workers die with the launcher, a claimed row stays claimed in the plan's file
Abandoned == [r \in Rows |-> IF row[r] \in {"pending", "missed"} THEN row[r] ELSE "stopped"]

Restart ==
    /\ Fault("restart") /\ (Overlap \/ ~Cooling) /\ job' = Forgotten
    /\ hand' = [hand EXCEPT !["launcher"] = {}]
    /\ passed' = {} /\ row' = Abandoned
    /\ UNCHANGED <<scen, gate, cooldown, monitor, resume, blind, since>>

\* the next session: a new plan, yesterday's trades are archived
NewDay ==
    /\ Fault("newday") /\ job' = Forgotten
    /\ Write("launcher", NewGate(cooldown))
    /\ since' = (IF cooldown THEN "trouble" ELSE "calm")
    /\ passed' = {} /\ row' = [r \in Rows |-> "pending"] /\ blind' = FALSE
    /\ UNCHANGED <<scen, cooldown, monitor, resume>>

-----------------------------------------------------------------------------

Next == \/ \E k \in Keys : Due(k) \/ Run(k) \/ Enter(k) \/ Deadline(k)
        \/ \E k \in Probes : \/ AnswerOk(k) \/ AnswerError(k) \/ AnswerLimited(k)
                             \/ Latch(k) \/ Record(k)
        \/ Recheck \/ ClearCooldown \/ Resume \/ ResumeCheck \/ ResumeApply
        \/ \E r \in Rows : Tick(r) \/ Missed(r) \/ Worker(r)
        \/ LoseSight \/ MonitorLimited \/ MonitorLatch
        \/ CooldownEnds \/ GoesStale \/ Restart \/ NewDay
        \/ \E p \in Processes : ReadEarly(p)

Spec == Init /\ [][Next]_vars

\* the coordinator's threads and the tick go on; neither the executor nor the broker
\* need ever answer
Fairness == \A r \in Rows : WF_vars(Run(r)) /\ WF_vars(Deadline(r)) /\ WF_vars(Tick(r))

FairSpec == Spec /\ Fairness

-----------------------------------------------------------------------------

\* Types of the state.
TypeOK ==
    /\ scen \in Scenarios /\ gate \in Gates /\ cooldown \in BOOLEAN
    /\ hand \in [Processes -> SUBSET Gates]
    /\ job \in [Probes -> [pc: Steps, ok: BOOLEAN, waiting: BOOLEAN]]
    /\ monitor \in {"idle", "cooling"} /\ resume \in {"idle", "checked"}
    /\ passed \subseteq Rows
    /\ row \in [Rows -> {"pending", "claimed", "started", "ordering", "stopped", "missed"}]
    /\ blind \in BOOLEAN /\ since \in {"calm", "trouble", "recovered"}
    /\ faults \in 0..MaxFaults

\* After a failing probe, a cooldown or an order out of sight, and until the operator
\* resumes or a new session begins, the gate is closed: by its latch, or, while the
\* latch is still being written, by the cooldown.
TroubleCloses == since # "calm" => gate.latched \/ cooldown \/ Overlap

\* No entry worker goes on to an order between a failing probe, a cooldown or an order
\* out of sight, in whatever process, and the operator's resume: neither a late success,
\* the end of the cooldown, a restart, another row's probe nor a tick that looked at the
\* gate before the trouble and started the worker after it lets an order through.
NoEntryOnTrouble ==
    [][\A r \in Rows : row[r] # "ordering" /\ row'[r] = "ordering"
                        => since = "calm" \/ Overlap]_vars

\* The latch goes only with a new session, or with a success that was recorded after the
\* last trouble, no cooldown and no order out of sight ("latch remains").
LatchSticks ==
    [][gate.latched /\ ~gate'.latched
         => NewDay \/ (since = "recovered" /\ ~cooldown /\ ~blind) \/ Overlap]_vars

\* A row does not wait for a probe that never reports: it is started or its window ends,
\* or the gate says why not, also when the broker hangs and the launcher restarts.
NothingWaits ==
    \A r \in Rows :
      row[r] = "pending"
        ~> row[r] # "pending" \/ ~Open \/ gate.probe[r] = "failed" \/ Overlap

=============================================================================
