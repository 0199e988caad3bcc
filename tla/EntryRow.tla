------------------------------ MODULE EntryRow ------------------------------
(***************************************************************************)
(* One row of a session plan from pending to entered: the worker thread of *)
(* the launcher that sends, watches, cancels and replaces the opening      *)
(* order (meic_worker, manual_worker), the trade file that it hands over,  *)
(* the guard against a second order, and the other writer of that file,    *)
(* the pending-fill sync of the stop monitor's process.                    *)
(*                                                                         *)
(* An order is its index in `orders`.  Prices are how many legs of the     *)
(* fill are priced.  A sync of the worker (load, ask, save) is one step; a *)
(* sync of the stop monitor is one step, or two with "race" in happens.    *)
(* Attempts, MaxOrders and MaxFaults bound the run.                        *)
(***************************************************************************)
EXTENDS Integers, Sequences, FiniteSets

CONSTANTS Qty,         \* contracts of the row
          Attempts,    \* max_entry_attempts(row)
          MaxOrders,   \* bound on the orders at the broker
          MaxFaults,   \* bound on what goes wrong
          Kinds,       \* kinds of rows: subset of {"meic", "manual", "butterfly"}
          Scenarios    \* each a set of what may go wrong in a run

ASSUME EntryAssumption ==
    /\ {Qty, Attempts, MaxOrders} \subseteq Nat \ {0} /\ MaxFaults \in Nat
    /\ Kinds \subseteq {"meic", "manual", "butterfly"}
    /\ UNION Scenarios \subseteq {"race", "lost", "crash", "blind", "noise", "legs",
                                "drop", "refuse", "reset", "latch", "unseen"}

VARIABLES kind,      \* which worker runs the row
          happens,   \* what may go wrong in this run
          orders,    \* the broker's book: [status, filled, asked]
          file,      \* the trade file
          row,       \* the plan's row: [state, path]
          fired,     \* slot_key \in EntryMonitorRunner._fired
          w,         \* the worker thread: [pc, n, oid, path, got, says]
          peek,      \* copy of the file in the hands of sync_pending_fills
          latched,   \* new_risk_latched of the gate
          faults

vars == <<kind, happens, orders, file, row, fired, w, peek, latched, faults>>

Dropped == {"cancelled", "rejected", "expired"}
OrderStatus == {"working", "filled"} \cup Dropped

NoFile == [status |-> "none", oid |-> 0, filled |-> 0, order |-> "none", full |-> FALSE,
           blind |-> FALSE, last |-> "none", sure |-> FALSE, legs |-> 0, phase |-> "fast",
           snap |-> FALSE]
NoWorker == [pc |-> "idle", n |-> 0, oid |-> 0, path |-> FALSE, got |-> NoFile, says |-> "none"]

Init == /\ kind \in Kinds /\ happens \in Scenarios
        /\ orders = << >> /\ file = NoFile
        /\ row = [state |-> IF kind = "meic" THEN "pending" ELSE "entering", path |-> FALSE]
        /\ fired = FALSE /\ w = NoWorker /\ peek = NoFile
        /\ latched = FALSE /\ faults = 0

Fault(f) == f \in happens /\ faults < MaxFaults /\ faults' = faults + 1

-----------------------------------------------------------------------------
(* The broker. *)

Working == {i \in DOMAIN orders : orders[i].status = "working"}
\* contracts that the orders of S have bought
HeldBy(S) == Cardinality({c \in S \X (1 .. Qty) : c[2] <= orders[c[1]].filled})
Held == HeldBy(DOMAIN orders)
NewOrder == [status |-> "working", filled |-> 0, asked |-> FALSE]

Fill(i) ==
    /\ i \in Working
    /\ orders' = [orders EXCEPT ![i].filled = @ + 1,
                                ![i].status = IF orders[i].filled + 1 = Qty THEN "filled" ELSE @]
    /\ UNCHANGED <<kind, happens, file, row, fired, w, peek, latched, faults>>

\* The exchange takes a cancel request, or drops the order on its own.
Drop(i) ==
    /\ i \in Working
    /\ \/ orders[i].asked /\ orders' = [orders EXCEPT ![i].status = "cancelled"] /\ UNCHANGED faults
       \/ /\ Fault("drop")
          /\ \E s \in Dropped : orders' = [orders EXCEPT ![i].status = s]
    /\ UNCHANGED <<kind, happens, file, row, fired, w, peek, latched>>

\* Answers to a status request: what the order is ("seen"), an error that
\* hides it ("blind": cooldown, 401, 429, timeout), any other error ("noise").
Answers(i) ==
    [kind : {"seen"}, status : {orders[i].status}, filled : {orders[i].filled},
     legs : IF orders[i].filled = 0 \/ kind = "butterfly" THEN {0}
            ELSE IF "legs" \in happens THEN 0 .. 2 ELSE {2}]
      \cup [kind : {"blind", "noise"} \cap happens, status : {"rejected"}, filled : {0}, legs : {0}]

\* Errors and late leg prices count as faults.
Costs(a) ==
    LET bad == a.kind # "seen" \/ (a.filled > 0 /\ a.legs < 2 /\ kind # "butterfly")
    IN  /\ bad => faults < MaxFaults
        /\ faults' = IF bad THEN faults + 1 ELSE faults

-----------------------------------------------------------------------------
(* The trade file. *)

\* Mutant: a replacement order inherits the fill-sync phase of the one before.
HandshakeKeepsPhase(f, o) ==
    [f EXCEPT !.oid = o, !.order = "working", !.full = FALSE, !.legs = 0,
              !.status = IF @ = "open" THEN @ ELSE "pending_fill"]

\* write_pending_trade_state: a new file, or the new order in the old one.
Handshake(f, o) ==
    [f EXCEPT !.oid = o, !.order = "working", !.full = FALSE, !.legs = 0, !.phase = "fast",
              !.status = IF @ = "open" THEN @ ELSE "pending_fill"]

\* _promote_open_if_ready
Promote(f) ==
    LET ready == IF kind = "butterfly" THEN f.full \/ f.order = "filled" ELSE f.legs = 2
    IN  [f EXCEPT !.status = IF f.filled > 0 /\ ready THEN "open" ELSE @]

\* apply_broker_leg_updates
LegUpdates(f, a) ==
    LET n == IF a.status = "filled" THEN Qty ELSE a.filled
    IN  [f EXCEPT !.filled = n, !.order = a.status, !.full = n >= Qty /\ a.status = "filled",
                  !.legs = IF a.legs > @ THEN a.legs ELSE @]

\* apply_order_result_to_state
Applied(f, a) ==
    LET g == LegUpdates(f, a)
        p == Promote(g)
    IN  IF a.kind # "seen" THEN f
        ELSE IF a.status \in Dropped THEN [g EXCEPT !.status = "pending_fill", !.phase = a.status]
        ELSE [p EXCEPT !.status = IF @ = "open" THEN @ ELSE "pending_fill"]

\* _mark_visibility_unknown
Blinded(f) == [f EXCEPT !.order = "visibility_unknown", !.blind = TRUE]

\* is_fill_sync_terminal
SyncOver(f) ==
    \/ f.phase \in Dropped \cup {"error"}
    \/ /\ f.phase \in {"resolved", "estimated"}
       /\ f.order \in Dropped \/ (f.legs = 2 /\ (f.filled >= Qty \/ f.full \/ f.order = "filled"))

\* needs_open_order_sync
NeedsSync(f) == /\ f.status \in {"pending_fill", "open"} /\ f.oid # 0
                /\ ~SyncOver(f)
                /\ ~(f.legs = 2 /\ f.filled >= Qty /\ f.full)

\* try_exact_resolution
Resolves(g) == g.legs = 2

\* can_enter_confirm_pending
CanConfirm(g, a) == g.full /\ a.legs = 1 /\ kind # "butterfly"

\* try_protective_estimate: the price of the other leg is plausible or not.
Estimates(g) == {Promote([g EXCEPT !.phase = "estimated", !.legs = 2]), [g EXCEPT !.phase = "error"]}

\* sync_open_order after the answer a
Synced(f, a) ==
    LET g == Applied(f, a)
    IN  IF a.kind # "seen" \/ a.status \in Dropped THEN {g}
        ELSE IF Resolves(g) THEN {Promote([g EXCEPT !.phase = "resolved"])}
        ELSE IF f.phase = "confirm" THEN Estimates(g)
        ELSE IF CanConfirm(g, a) THEN {[g EXCEPT !.phase = "confirm"]}
        ELSE {g}

-----------------------------------------------------------------------------
(* The worker thread. *)

At(p) == w.pc = p
Goto(p) == w' = [w EXCEPT !.pc = p]
\* The thread returns an EntryWorkerResult with this state; Report persists it.
Return(state) == w' = [w EXCEPT !.pc = "report", !.says = state]

\* _should_fire_meic, _should_fire_manual
ShouldFire == row.state = (IF kind = "meic" THEN "pending" ELSE "entering") /\ ~row.path

\* _gate_allows_spawn
GateAllows == ~latched

\* mark_row_entering, try_claim_manual_row
Claimed == [row EXCEPT !.state = IF kind = "meic" THEN "entering" ELSE "placing"]

\* _tick_plan: claim the row, start its thread.
Spawn ==
    /\ ShouldFire /\ GateAllows /\ At("idle") /\ ~fired
    /\ row' = Claimed /\ fired' = TRUE /\ Goto("top")
    /\ UNCHANGED <<kind, happens, orders, file, peek, latched, faults>>

\* _latest_attempt_blocks_replacement
AttemptRefuses == \/ file.last \in {"working", "visibility_unknown"}
                  \/ file.last = "cancelled" /\ ~file.sure

\* assert_replacement_allowed, the part that reads the trade file
FileRefuses == AttemptRefuses \/ file.blind \/ file.order = "visibility_unknown" \/ file.filled > 0

\* Mutant: only the trade file guards against a second order.
NobodyAsksBroker(same) == FALSE

\* _broker_blocks_replacement, when the orders of `same` have the strikes of the
\* last pick: a position blocks only if it can close the whole quantity
\* ("closable"), a smaller one is a "mismatch", which does not.
BrokerRefuses(same) == HeldBy(same) >= Qty \/ same \cap Working # {}

\* It asks about the last order's strikes, which earlier orders may share.
LastPick == {same \in SUBSET DOMAIN orders : w.oid \in same}

\* max_entry_attempts
Exhausted == w.n = Attempts

\* The top of run_meic_entry_row's loop, up to the scan.  A first attempt
\* (no trade file yet) asks neither the file nor the broker.  A query that
\* fails, or a list of orders two seconds old ("unseen"), does not block.
Attempt ==
    /\ At("top") /\ kind = "meic"
    /\ \/ latched /\ Return("failed") /\ UNCHANGED faults
       \/ /\ ~latched /\ Exhausted /\ Goto("raise") /\ UNCHANGED faults
       \/ /\ ~latched /\ ~Exhausted /\ w.path /\ file.blind
          /\ Return("entering") /\ UNCHANGED faults
       \/ /\ ~latched /\ ~Exhausted /\ w.path /\ ~file.blind
          /\ FileRefuses \/ \E same \in LastPick : BrokerRefuses(same)
          /\ Return("failed") /\ UNCHANGED faults
       \/ /\ ~latched /\ ~Exhausted
          /\ \/ ~w.path /\ UNCHANGED faults
             \/ /\ w.path /\ ~FileRefuses /\ ~file.blind
                /\ \/ (\E same \in LastPick : ~BrokerRefuses(same)) /\ UNCHANGED faults
                   \/ Fault("unseen")
          /\ w' = [w EXCEPT !.pc = "place", !.n = @ + 1]
    /\ UNCHANGED <<kind, happens, orders, file, row, fired, peek, latched>>

\* The top of run_manual_entry_row's loop: a retry asks to cancel its last
\* order and waits one second for it; the credit floor ends the chase.
Retry ==
    /\ At("top") /\ kind # "meic"
    /\ IF latched THEN Return("failed") /\ UNCHANGED <<orders, faults>>
       ELSE /\ \/ w' = [w EXCEPT !.pc = "place", !.n = @ + 1]
               \/ w.n > 0 /\ w' = [w EXCEPT !.pc = "finalize", !.got = file]
            /\ IF w.n = 0 THEN UNCHANGED <<orders, faults>>
               ELSE \/ orders' = [orders EXCEPT ![w.oid].asked = TRUE] /\ UNCHANGED faults
                    \/ Fault("noise") /\ UNCHANGED orders
    /\ UNCHANGED <<kind, happens, file, row, fired, peek, latched>>

\* place_spread_order, place_multi_leg_order: the broker takes n orders (two
\* when _retry_on_transient sends again after a lost reply) and names the last.
Sent(n) == /\ orders' = orders \o [i \in 1 .. n |-> NewOrder]
           /\ w' = [w EXCEPT !.pc = "write", !.oid = Len(orders) + n]

\* _place_pick; the scan finds nothing or the broker refuses
Place ==
    /\ At("place") /\ kind = "meic" /\ Len(orders) + 1 < MaxOrders
    /\ \/ latched /\ Goto("raise") /\ UNCHANGED <<orders, faults>>
       \/ ~latched /\ Sent(1) /\ UNCHANGED faults
       \/ ~latched /\ Fault("lost") /\ Sent(2)
       \/ ~latched /\ Fault("refuse") /\ Goto("raise") /\ UNCHANGED orders
    /\ UNCHANGED <<kind, happens, file, row, fired, peek, latched>>

\* The manual rows' order; a refused replacement ends the chase.
PlaceManual ==
    /\ At("place") /\ kind # "meic" /\ Len(orders) + 1 < MaxOrders
    /\ \/ Sent(1) /\ UNCHANGED faults
       \/ Fault("lost") /\ Sent(2)
       \/ /\ Fault("refuse") /\ UNCHANGED orders
          /\ IF w.path THEN w' = [w EXCEPT !.pc = "finalize", !.got = file] ELSE Return("failed")
    /\ UNCHANGED <<kind, happens, file, row, fired, peek, latched>>

\* After the loop and in the except clauses: with a trade file the worker dies
\* of a NameError (os is not imported) and returns nothing.
Raise ==
    /\ At("raise")
    /\ IF w.path THEN w' = NoWorker ELSE Return("failed")
    /\ UNCHANGED <<kind, happens, orders, file, row, fired, peek, latched, faults>>

Write ==
    /\ At("write")
    /\ file' = Handshake(IF w.path THEN file ELSE NoFile, w.oid)
    /\ w' = [w EXCEPT !.pc = IF kind = "meic" THEN "record" ELSE "poll", !.path = TRUE]
    /\ UNCHANGED <<kind, happens, orders, row, fired, peek, latched, faults>>

\* record_entry_attempt
Record ==
    /\ At("record")
    /\ file' = [file EXCEPT !.last = "working", !.sure = FALSE]
    /\ Goto("poll")
    /\ UNCHANGED <<kind, happens, orders, row, fired, peek, latched, faults>>

\* sync_entry_trade_state_from_broker with the answer a
Sync(a) ==
    /\ a \in Answers(file.oid) /\ Costs(a)
    /\ file' = IF a.kind = "blind" THEN Blinded(file) ELSE Applied(file, a)
    /\ latched' = (latched \/ a.kind = "blind")

\* visibility_ok of the sync, and the status it left in the file
Blind(a) == a.kind = "blind" \/ file'.order = "visibility_unknown"
\* _entered_result
Bought(f) == f.filled > 0 \/ f.full
HandOver(f) == w' = [w EXCEPT !.pc = "handoff", !.got = f]

\* A partial fill is polled until the order is over, whatever the time.
MayStop(f) == ~(f.filled \in 1 .. Qty - 1 /\ f.order \in {"working", "expired"})
MayGoOn(f) == f.filled < Qty /\ f.order \in {"working", "expired"}

\* _poll_until_done and what run_meic_entry_row does then
Poll ==
    /\ At("poll") /\ kind = "meic"
    /\ \E a \in Answers(file.oid) :
          /\ Sync(a)
          /\ \/ Blind(a) /\ Return("entering")
             \/ ~Blind(a) /\ MayGoOn(file') /\ UNCHANGED w
             \/ ~Blind(a) /\ MayStop(file') /\ Bought(file') /\ HandOver(file')
             \/ /\ ~Blind(a) /\ ~Bought(file')
                /\ Goto(IF file'.order \in {"cancelled", "rejected"} THEN "top" ELSE "reconcile")
    /\ UNCHANGED <<kind, happens, orders, row, fired, peek>>

\* _poll_manual_fill and what run_manual_entry_row does then
PollManual ==
    /\ At("poll") /\ kind # "meic"
    /\ \E a \in Answers(file.oid) :
          /\ Sync(a)
          /\ \/ Blind(a) /\ Return("entering")
             \/ ~Blind(a) /\ MayGoOn(file') /\ UNCHANGED w
             \/ ~Blind(a) /\ MayStop(file') /\ Bought(file') /\ HandOver(file')
             \/ /\ ~Blind(a) /\ ~Bought(file') /\ kind = "manual" /\ ~Exhausted /\ Goto("top")
             \/ /\ ~Blind(a) /\ ~Bought(file') /\ (kind = "butterfly" \/ Exhausted)
                /\ w' = [w EXCEPT !.pc = "finalize", !.got = file']
    /\ UNCHANGED <<kind, happens, orders, row, fired, peek>>

\* _reconcile_before_cancel
Reconcile ==
    /\ At("reconcile")
    /\ \E a \in Answers(file.oid) :
          /\ Sync(a)
          /\ IF Blind(a) THEN Return("entering")
             ELSE IF Bought(file') THEN HandOver(file') ELSE Goto("cancel")
    /\ UNCHANGED <<kind, happens, orders, row, fired, peek>>

\* _cancel_and_confirm: the request, whose result is not looked at ...
Cancel ==
    /\ At("cancel") /\ Goto("confirm")
    /\ \/ orders' = [orders EXCEPT ![w.oid].asked = TRUE] /\ UNCHANGED faults
       \/ Fault("noise") /\ UNCHANGED orders
    /\ UNCHANGED <<kind, happens, file, row, fired, peek, latched>>

\* Mutant: the accepted request passes for the cancel.
ConfirmedByRequest(f) == f.order \in {"cancelled", "working"}

Confirmed(f) == f.order = "cancelled"

\* ... and the wait; a rejected or expired order is waited for in vain.
Confirm ==
    /\ At("confirm")
    /\ \E a \in Answers(file.oid) :
          /\ Sync(a)
          /\ IF a.kind = "blind" THEN Goto("unknown")
             ELSE IF Bought(file') THEN HandOver(file')
             ELSE IF Confirmed(file') THEN Goto("cancelled")
             ELSE UNCHANGED w \/ Goto("unknown")
    /\ UNCHANGED <<kind, happens, orders, row, fired, peek>>

\* update_latest_attempt_status after the cancel
Settle ==
    /\ w.pc \in {"cancelled", "unknown"}
    /\ file' = [file EXCEPT !.last = IF At("unknown") THEN "visibility_unknown" ELSE "cancelled",
                            !.sure = At("cancelled")]
    /\ IF At("unknown") THEN Return("entering") ELSE Goto("top")
    /\ UNCHANGED <<kind, happens, orders, row, fired, peek, latched, faults>>

\* apply_stop_snapshot and save_state of the state the worker holds
HandOff ==
    /\ At("handoff")
    /\ file' = IF kind = "butterfly" THEN w.got
               ELSE [w.got EXCEPT !.status = "open", !.snap = TRUE, !.full = @ \/ w.got.filled >= Qty]
    /\ Return("entered")
    /\ UNCHANGED <<kind, happens, orders, row, fired, peek, latched, faults>>

\* _finalize_manual_result of a state loaded or polled before
Finalize ==
    /\ At("finalize")
    /\ IF Bought(w.got) THEN HandOver(w.got) ELSE Return("entered")
    /\ UNCHANGED <<kind, happens, orders, file, row, fired, peek, latched, faults>>

\* _run_worker: apply_entry_result; a failed row does not get the trade file.
Report ==
    /\ At("report")
    /\ row' = [state |-> w.says, path |-> row.path \/ (w.says # "failed" /\ w.path)]
    /\ w' = NoWorker
    /\ UNCHANGED <<kind, happens, orders, file, fired, peek, latched, faults>>

-----------------------------------------------------------------------------
(* The stop monitor's process, the operator, the launcher. *)

\* sync_pending_fills: load, ask, save what was loaded and changed.
SyncPending ==
    /\ "race" \notin happens /\ NeedsSync(file)
    /\ \E a \in Answers(file.oid) :
          /\ a.kind # "blind" \* an error of any kind leaves the file as it is
          /\ Costs(a) /\ file' \in Synced(file, a)
    /\ UNCHANGED <<kind, happens, orders, row, fired, w, peek, latched>>

SyncLoad ==
    /\ "race" \in happens /\ peek = NoFile /\ NeedsSync(file)
    /\ peek' = file
    /\ UNCHANGED <<kind, happens, orders, file, row, fired, w, latched, faults>>

SyncSave ==
    /\ peek # NoFile /\ peek' = NoFile
    /\ \E a \in Answers(peek.oid) :
          /\ a.kind # "blind" /\ Costs(a)
          /\ file' \in IF Synced(peek, a) = {peek} THEN {file} ELSE Synced(peek, a)
    /\ UNCHANGED <<kind, happens, orders, row, fired, w, latched>>

\* latch_new_risk from elsewhere; resume_new_risk refuses a blind entry.
Latch == /\ Fault("latch") /\ ~latched /\ latched' = TRUE
         /\ UNCHANGED <<kind, happens, orders, file, row, fired, w, peek>>
Resume == /\ latched /\ ~file.blind /\ latched' = FALSE
          /\ UNCHANGED <<kind, happens, orders, file, row, fired, w, peek, faults>>

\* The operator sets a failed row back to pending, the tick forgets it fired.
Reset ==
    /\ Fault("reset") /\ kind = "meic" /\ row.state = "failed" /\ At("idle")
    /\ peek = NoFile /\ file' = NoFile     \* the next attempt writes a file of its own
    /\ row' = [row EXCEPT !.state = "pending"] /\ fired' = FALSE
    /\ UNCHANGED <<kind, happens, orders, w, peek, latched>>

\* The launcher dies and starts again.
Crash ==
    /\ Fault("crash") /\ ~At("idle")
    /\ w' = NoWorker /\ fired' = FALSE
    /\ UNCHANGED <<kind, happens, orders, file, row, peek, latched>>

Broker == \E i \in DOMAIN orders : Fill(i) \/ Drop(i)
Worker == \/ Attempt \/ Retry \/ Place \/ PlaceManual \/ Raise \/ Write \/ Record
          \/ Poll \/ PollManual \/ Reconcile \/ Cancel \/ Confirm \/ Settle \/ HandOff \/ Finalize \/ Report
Monitor == SyncPending \/ SyncLoad \/ SyncSave
Next == Broker \/ Spawn \/ Worker \/ Monitor \/ Latch \/ Resume \/ Reset \/ Crash

Spec == Init /\ [][Next]_vars /\ WF_vars(Monitor)

-----------------------------------------------------------------------------
(* Properties. *)

\* Types and ranges of the state of _run_worker, the trade file and the book.
TypeOK ==
    /\ kind \in Kinds /\ fired \in BOOLEAN /\ latched \in BOOLEAN /\ faults \in 0 .. MaxFaults
    /\ \A i \in DOMAIN orders : /\ orders[i].status \in OrderStatus
                                /\ orders[i].filled \in 0 .. Qty
    /\ \A f \in {file, peek, w.got} : /\ f.oid \in 0 .. Len(orders) /\ f.filled \in 0 .. Qty
                                      /\ f.status \in {"none", "pending_fill", "open"}
    /\ w.n \in 0 .. Attempts /\ w.oid \in 0 .. Len(orders)
    /\ row.state \in {"pending", "entering", "placing", "entered", "failed"}

\* The rows that the trade file protects: MEIC rows, as long as no reply to an
\* order is lost and no second writer saves an older file over the worker's.
Guarded == kind = "meic" /\ {"lost", "race"} \cap happens = {}

\* With the second writer the broker's answers protect the row, as long as they
\* arrive and the operator does not start it again.
Watched == kind = "meic" /\ "lost" \notin happens
           /\ ("race" \in happens => {"unseen", "reset"} \cap happens = {})

\* The slot of a guarded row implements OpeningSlot: one opening order at a
\* time, and none once something is bought (opening_duplicate_guard.py).
Slot == INSTANCE OpeningSlot WITH
            working <- IF Guarded THEN Cardinality(Working) ELSE 0,
            held <- IF Guarded THEN Held ELSE 0
ImplementsOpening == Slot!Spec

\* A guarded row that is reported failed has nothing at the broker, so that the
\* operator may set it back to pending (_failed_result names no trade file).
FailedIsFlat == (Guarded /\ row.state = "failed") => Working = {} /\ Held = 0

\* An open trade whose order is filled records what all of the row's orders
\* bought (the trade file handed to the stop monitor).
OpenIsExact == (file.status = "open" /\ file.order = "filled" /\ Guarded) => file.filled = Held

\* A watched row never has two orders working at the broker, although the trade
\* file may speak of an older order than the worker's last.
OneAtATime == Watched => Cardinality(Working) <= 1

\* A filled order becomes an open trade, even without its worker: the stop
\* monitor's sync promotes the file, or its price estimate fails.
FullFillOpens ==
    LET Full == file.oid # 0 /\ orders[file.oid].status = "filled"
    IN  Full ~> (file.status = "open" \/ file.phase = "error" \/ ~Full)

\* What holds of a row at every moment: a failed one is flat at the broker, an
\* open trade records what was bought, one order works at a time.
RowSound == TypeOK /\ FailedIsFlat /\ OpenIsExact /\ OneAtATime
=============================================================================
