---------------------------- MODULE SessionPlan ----------------------------
(*************************************************************************)
(* The day's session plan: CSV files of entry rows that two processes     *)
(* read, change and write back whole (src/blocks/session).  The launcher's *)
(* entry monitor and its workers claim rows and record results, the       *)
(* dashboard appends manual rows, claims one itself when the launcher     *)
(* does not within two seconds, and lets the operator edit rows.  Each    *)
(* process has a lock of its own; appends and edits take none.            *)
(*                                                                        *)
(* Row 0 is a tranche row of the MEIC file; rows 1.. are the lots of the  *)
(* manual file.  Every change is a load and a save, `pen' what is loaded. *)
(*************************************************************************)
EXTENDS Integers, FiniteSets

CONSTANTS Asks,      \* the operator's requests to place a manual spread
          Scenes,    \* what a run is about: several requests, one request
                     \* and the operator's edits, or the tranche row
          MaxTicks   \* bound: passes of the monitor over a file
ASSUME PlanAssumption == IsFiniteSet(Asks)

Lots == 1..Cardinality(Asks)
Keys == {0} \cup Lots
FileOf(k) == IF k = 0 THEN {0} ELSE Lots
Processes == {"dashboard", "launcher"}
Workers == Processes \X Keys
Claimables == {"entering", "waiting", "blocked"}

FirstAsk == CHOOSE r \in Asks : TRUE

NoRow == [state |-> "none", path |-> FALSE, paused |-> FALSE]
Entering == [state |-> "entering", path |-> FALSE, paused |-> FALSE]
NoPen == [from |-> << >>, to |-> << >>]

VARIABLES scene,
          csv,      \* the rows on disk
          counter,  \* the next lot
          ask,      \* what a request's thread does
          lot,      \* and the lot it was given
          worker,   \* the entry workers
          mon,      \* the monitor: its file, the rows left, what it does
          fired,    \* the rows it has spawned a worker for
          up,       \* the launcher runs
          pen,      \* who is between a load and a save
          edits, ticks, crashes,
          entered,  \* history: workers that sent an order, per row
          rearmed,  \* history: times an operator re-armed a row
          marked,   \* history: rows the monitor marked on an old reading
          orphan,   \* history: rows whose worker died with the launcher
          lost      \* history: a save undid what was saved after its load
svars == <<scene, csv, counter, ask, lot, worker, mon, fired, up, pen, edits, ticks, crashes,
           entered, rearmed, marked, orphan, lost>>
history == <<entered, rearmed, marked, orphan>>

Writers == {<<"ask", r>> : r \in Asks} \cup {<<"monitor">>, <<"edit">>}
              \cup {<<"worker", w>> : w \in Workers}

\* Who takes its process's lock to change a row.
Locked(w, p) ==
    \/ p = "launcher" /\ w = <<"monitor">>
    \/ \E k \in Keys : w = <<"worker", <<p, k>>>>
    \/ p = "dashboard" /\ \E r \in Asks : w = <<"ask", r>> /\ ask[r] \in {"claim", "inline"}

SInit ==
    /\ scene \in Scenes
    /\ csv = [k \in Keys |-> IF k = 0 THEN [NoRow EXCEPT !.state = "pending"] ELSE NoRow]
    /\ counter = 1
    /\ ask = [r \in Asks |-> "new"] /\ lot = [r \in Asks |-> 0]
    /\ worker = [w \in Workers |-> "none"]
    /\ mon = [step |-> "idle", todo |-> {}] /\ fired = {} /\ up \in BOOLEAN
    /\ pen = [w \in Writers |-> NoPen]
    /\ edits = 0 /\ ticks = 0 /\ crashes = 0
    /\ entered = [k \in Keys |-> 0] /\ rearmed = [k \in Keys |-> 0]
    /\ marked = {} /\ orphan = {} /\ lost = FALSE

\* The bounds of a scene.
Asked == CASE scene = "asks" -> Asks [] scene = "edits" -> {FirstAsk} [] OTHER -> {}
MaxEdits == CASE scene = "asks" -> 0 [] scene = "edits" -> 1 [] OTHER -> 2
MaxCrashes == IF scene = "asks" THEN 0 ELSE 1
Passes == IF scene = "asks" THEN 1 ELSE MaxTicks
Outcomes == IF scene = "asks" THEN {"entered"} ELSE {"entered", "blind", "failed"}
File == IF scene = "tranche" THEN {0} ELSE Lots

(* --- a change of the file --------------------------------------------- *)
Idle(w) == pen[w] = NoPen
Free(w) ==
    /\ Idle(w)
    /\ \A p \in Processes : Locked(w, p) => \A v \in Writers : Locked(v, p) => Idle(v)
    /\ Cardinality({v \in Writers : ~Idle(v)}) <= 1

\* Load the file of row k and change that row in memory.
Load(w, k, row) ==
    /\ Free(w)
    /\ LET rows == [j \in FileOf(k) |-> csv[j]]
       IN  pen' = [pen EXCEPT ![w] = [from |-> rows, to |-> [rows EXCEPT ![k] = row]]]

\* The file is replaced: what others saved since the load is gone.
Save(w) ==
    /\ ~Idle(w)
    /\ csv' = [k \in Keys |-> IF k \in DOMAIN pen[w].to THEN pen[w].to[k] ELSE csv[k]]
    /\ lost' = (lost \/ \E k \in DOMAIN pen[w].from : pen[w].from[k] # csv[k])
    /\ pen' = [pen EXCEPT ![w] = NoPen]

(* --- a request to place a manual spread -------------------------------- *)
\* The gate and the closing hour refuse first; then the file is loaded, ...
OpenPlan(r) ==
    /\ ask[r] = "new" /\ r \in Asked
    /\ \/ /\ Load(<<"ask", r>>, 1, csv[1])
          /\ ask' = [ask EXCEPT ![r] = "loaded"]
       \/ /\ ask' = [ask EXCEPT ![r] = "refused"]
          /\ UNCHANGED pen
    /\ UNCHANGED <<scene, csv, counter, lot, worker, mon, fired, up, edits, ticks, crashes, history, lost>>

\* ... the lot counter is read ...
TakeNumber(r) ==
    /\ ask[r] = "loaded"
    /\ ask' = [ask EXCEPT ![r] = "numbered"]
    /\ lot' = [lot EXCEPT ![r] = counter]
    /\ UNCHANGED <<scene, csv, counter, worker, mon, fired, up, pen, edits, ticks, crashes, history, lost>>

\* ... and written, and the row is appended to what was loaded.
AppendRow(r) ==
    /\ ask[r] = "numbered"
    /\ counter' = lot[r] + 1
    /\ \/ /\ pen[<<"ask", r>>].to[lot[r]] = NoRow
          /\ pen' = [pen EXCEPT ![<<"ask", r>>].to[lot[r]] = Entering]
          /\ ask' = [ask EXCEPT ![r] = "appending"]
       \/ /\ pen[<<"ask", r>>].to[lot[r]] # NoRow
          /\ pen' = [pen EXCEPT ![<<"ask", r>>] = NoPen]
          /\ ask' = [ask EXCEPT ![r] = "refused"]
    /\ UNCHANGED <<scene, csv, lot, worker, mon, fired, up, edits, ticks, crashes, history, lost>>

Appended(r) ==
    /\ ask[r] = "appending"
    /\ Save(<<"ask", r>>)
    /\ ask' = [ask EXCEPT ![r] = IF up THEN "watch" ELSE "inline"]
    /\ UNCHANGED <<scene, counter, lot, worker, mon, fired, up, edits, ticks, crashes, history>>

\* Two seconds later: the watchdog looks whether the launcher took the row.
Watch(r) ==
    /\ ask[r] = "watch"
    /\ LET row == csv[lot[r]] IN
       ask' = [ask EXCEPT ![r] = IF row.state \in {"entering", "waiting"} /\ ~row.path
                                 THEN "claim" ELSE "done"]
    /\ UNCHANGED <<scene, csv, counter, lot, worker, mon, fired, up, pen, edits, ticks, crashes, history, lost>>

\* Mutant: a row that is being placed may be claimed too.
ClaimableTwice(row) == ~row.path /\ row.state \in Claimables \cup {"placing"}

Claimable(row) == ~row.path /\ row.state \in Claimables

Claim(r) ==
    /\ ask[r] \in {"claim", "inline"}
    /\ \/ /\ Claimable(csv[lot[r]])
          /\ Load(<<"ask", r>>, lot[r], [csv[lot[r]] EXCEPT !.state = "placing"])
          /\ UNCHANGED ask
       \/ /\ ~Claimable(csv[lot[r]]) /\ Free(<<"ask", r>>)
          /\ ask' = [ask EXCEPT ![r] = "done"]
          /\ UNCHANGED pen
    /\ UNCHANGED <<scene, csv, counter, lot, worker, mon, fired, up, edits, ticks, crashes, history, lost>>

Claimed(r) ==
    /\ ask[r] \in {"claim", "inline"}
    /\ Save(<<"ask", r>>)
    /\ ask' = [ask EXCEPT ![r] = "done"]
    /\ worker' = [worker EXCEPT ![<<"dashboard", lot[r]>>] = "placing"]
    /\ UNCHANGED <<scene, counter, lot, mon, fired, up, edits, ticks, crashes, history>>

(* --- a worker ----------------------------------------------------------- *)
\* It sends an order and learns the fill, or loses sight of it, or fails.
Work(w) ==
    /\ worker[w] = "placing"
    /\ \E outcome \in Outcomes :
          /\ worker' = [worker EXCEPT ![w] = outcome]
          /\ entered' = [entered EXCEPT ![w[2]] = IF outcome = "failed" THEN @ ELSE @ + 1]
    /\ UNCHANGED <<scene, csv, counter, ask, lot, mon, fired, up, pen, edits, ticks, crashes,
                   rearmed, marked, orphan, lost>>

\* Mutant: only an entry is recorded.
ResultOfEntry(row, outcome) ==
    IF outcome = "failed" THEN row ELSE [row EXCEPT !.state = "entered", !.path = TRUE]

Result(row, outcome) ==
    CASE outcome = "entered" -> [row EXCEPT !.state = "entered", !.path = TRUE]
      [] outcome = "blind" -> [row EXCEPT !.state = "entering", !.path = TRUE]
      [] outcome = "failed" -> [row EXCEPT !.state = "failed"]

ApplyResult(w) ==
    /\ worker[w] \in {"entered", "blind", "failed"}
    /\ Load(<<"worker", w>>, w[2], Result(csv[w[2]], worker[w]))
    /\ UNCHANGED <<scene, csv, counter, ask, lot, worker, mon, fired, up, edits, ticks, crashes, history, lost>>

Applied(w) ==
    /\ Save(<<"worker", w>>)
    /\ worker' = [worker EXCEPT ![w] = "none"]
    /\ UNCHANGED <<scene, counter, ask, lot, mon, fired, up, edits, ticks, crashes, history>>

(* --- the entry monitor -------------------------------------------------- *)
MayFire(k) ==
    IF k = 0 THEN csv[0].state = "pending" /\ ~csv[0].paused
    ELSE csv[k].state \in Claimables /\ ~csv[k].path
Handled(k) == worker[<<"launcher", k>>] # "none"

\* A pass: the file is read once, its rows are handled on that reading.
Tick ==
    /\ up /\ mon.step = "idle" /\ ticks < Passes
    /\ ticks' = ticks + 1
    /\ mon' = [step |-> "gate", todo |-> {k \in File : MayFire(k)}]
    /\ fired' = IF csv[0].state = "pending" /\ ~Handled(0) THEN fired \ {0} ELSE fired
    /\ UNCHANGED <<scene, csv, counter, ask, lot, worker, up, pen, edits, crashes, history, lost>>

Turn == CHOOSE k \in mon.todo : \A j \in mon.todo : k <= j
NextRow == [step |-> "gate", todo |-> mon.todo \ {Turn}]

EndTick ==
    /\ mon.step = "gate" /\ mon.todo = {}
    /\ mon' = [mon EXCEPT !.step = "idle"]
    /\ UNCHANGED <<scene, csv, counter, ask, lot, worker, fired, up, pen, edits, ticks, crashes, history, lost>>

\* The gate decides; a manual row is marked with what it says.  The chain of
\* a tranche is loaded first, which may fail.
Gate ==
    /\ mon.step = "gate" /\ mon.todo # {}
    /\ LET k == Turn IN
       \E state \in Claimables :
          \/ /\ k = 0 \/ csv[k].state = state
             /\ mon' = IF state = "entering" THEN [mon EXCEPT !.step = "claim"] ELSE NextRow
             /\ UNCHANGED <<pen, marked>>
          \/ /\ k # 0 /\ csv[k].state # state
             /\ Load(<<"monitor">>, k, [csv[k] EXCEPT !.state = state])
             /\ mon' = [mon EXCEPT !.step = IF state = "entering" THEN "allowed" ELSE "refused"]
             /\ marked' = IF csv[k].state \in Claimables THEN marked ELSE marked \cup {k}
    /\ UNCHANGED <<scene, csv, counter, ask, lot, worker, fired, up, edits, ticks, crashes,
                   entered, rearmed, orphan, lost>>

Marked ==
    /\ mon.step \in {"allowed", "refused"}
    /\ Save(<<"monitor">>)
    /\ mon' = IF mon.step = "allowed" THEN [mon EXCEPT !.step = "claim"] ELSE NextRow
    /\ UNCHANGED <<scene, counter, ask, lot, worker, fired, up, edits, ticks, crashes, history>>

Spawn ==
    /\ mon.step = "claim"
    /\ LET k == Turn
           due == k \notin fired /\ ~Handled(k) /\ (k = 0 \/ Claimable(csv[k]))
       IN  \/ /\ ~due /\ Free(<<"monitor">>)
              /\ mon' = NextRow
              /\ UNCHANGED pen
           \/ /\ due
              /\ Load(<<"monitor">>, k, [csv[k] EXCEPT !.state = IF k = 0 THEN "entering" ELSE "placing"])
              /\ mon' = [mon EXCEPT !.step = "spawn"]
    /\ UNCHANGED <<scene, csv, counter, ask, lot, worker, fired, up, edits, ticks, crashes, history, lost>>

Spawned ==
    /\ mon.step = "spawn"
    /\ Save(<<"monitor">>)
    /\ fired' = fired \cup {Turn}
    /\ worker' = [worker EXCEPT ![<<"launcher", Turn>>] = "placing"]
    /\ mon' = NextRow
    /\ UNCHANGED <<scene, counter, ask, lot, up, edits, ticks, crashes, history>>

(* --- the operator and the launcher's end -------------------------------- *)
\* Pause or re-arm the tranche row; new stops and targets of a manual row
\* are saved with the state that was loaded.
TrancheEdits ==
    {csv[0], [csv[0] EXCEPT !.paused = ~@]}
      \cup (IF csv[0].state = "failed" THEN {[csv[0] EXCEPT !.state = "pending"]} ELSE {})
ManualEdits(k) == {csv[k]}

Edit(k) ==
    /\ edits < MaxEdits /\ csv[k] # NoRow
    /\ \E row \in IF k = 0 THEN TrancheEdits ELSE ManualEdits(k) :
          /\ Load(<<"edit">>, k, row)
          /\ rearmed' = [rearmed EXCEPT ![k] = IF row.state # csv[k].state THEN @ + 1 ELSE @]
    /\ edits' = edits + 1
    /\ UNCHANGED <<scene, csv, counter, ask, lot, worker, mon, fired, up, ticks, crashes,
                   entered, marked, orphan, lost>>

Edited ==
    /\ Save(<<"edit">>)
    /\ UNCHANGED <<scene, counter, ask, lot, worker, mon, fired, up, edits, ticks, crashes, history>>

\* The launcher ends; its threads, its lock and its memory end with it.
Crash ==
    /\ up /\ crashes < MaxCrashes
    /\ crashes' = crashes + 1 /\ up' = FALSE
    /\ mon' = [step |-> "idle", todo |-> {}] /\ fired' = {}
    /\ orphan' = orphan \cup {k \in Keys : Handled(k) \/ (mon.step = "spawn" /\ k = Turn)}
    /\ worker' = [w \in Workers |-> IF w[1] = "launcher" THEN "none" ELSE worker[w]]
    /\ pen' = [w \in Writers |-> IF Locked(w, "launcher") THEN NoPen ELSE pen[w]]
    /\ UNCHANGED <<scene, csv, counter, ask, lot, edits, ticks, entered, rearmed, marked, lost>>

Start ==
    /\ ~up /\ up' = TRUE
    /\ UNCHANGED <<scene, csv, counter, ask, lot, worker, mon, fired, pen, edits, ticks, crashes, history, lost>>

SNext ==
    \/ \E r \in Asks : OpenPlan(r) \/ TakeNumber(r) \/ AppendRow(r) \/ Appended(r)
                          \/ Watch(r) \/ Claim(r) \/ Claimed(r)
    \/ \E w \in Workers : Work(w) \/ ApplyResult(w) \/ Applied(w)
    \/ Tick \/ EndTick \/ Gate \/ Marked \/ Spawn \/ Spawned
    \/ \E k \in Keys : Edit(k)
    \/ Edited \/ Crash \/ Start

\* One of the initial states, for a run in which the plan rests.
SResting == ~up /\ scene = CHOOSE c \in Scenes : TRUE

SSpec == SInit /\ [][SNext]_svars

(* --- properties --------------------------------------------------------- *)
\* A row sends orders with a second worker only when an operator re-armed it,
\* when the monitor marked it on a reading older than another claim, or when
\* one save undid another (try_claim_manual_row, mark_row_state, save).
EnteredOnce ==
    \A k \in Keys :
        entered[k] > 1 + rearmed[k] => k \in marked \/ lost \/ k \in orphan

\* No accepted row is left to nobody: a row marked as being placed has a
\* thread that places it, unless that thread's process ended or a save undid
\* another (dispatch_manual_place, _run_worker, apply_entry_result).
NobodyForgotten ==
    /\ \A k \in Lots :
          csv[k].state = "placing" /\ k \notin orphan \cup marked /\ ~lost
              => \/ \E p \in Processes : worker[<<p, k>>] # "none"
    /\ \A r \in Asks :
          ask[r] \in {"watch", "claim", "inline", "done"} /\ ~lost => csv[lot[r]] # NoRow
=============================================================================
