------------------------------ MODULE TradeExit ------------------------------
(***************************************************************************)
(* How the stop engine protects and closes one credit spread               *)
(* (blocks/stop/monitor.py under the V3 handlers, blocks/stop/v3): the     *)
(* exchange stop, its reconciliation, the breach limit order, the operator *)
(* kill, partial fills, stop updates and the chase of the long leg.        *)
(*                                                                         *)
(* One owner works on the trade at a time: the scan thread or the exit job *)
(* (ExitPool).  A routine is a chain of broker calls, one action each, and *)
(* orders fill between any two of them.  t is the trade JSON as it is on   *)
(* disk: an action changes it where the code saves, and a crash loses pc   *)
(* and loc.  Prices are not modelled: a breach, a repricing and an elapsed *)
(* delay may or may not be there.  The status copied into active_stop is   *)
(* left out: Reconcile clears a dead stop anyway.                          *)
(***************************************************************************)
EXTENDS BrokerOrders

VARIABLES
  t,     \* the trade JSON
  pc,    \* the step of the routine the owner is in
  loc    \* its local variables

vars == <<brokerVars, t, pc, loc>>

None == -1
Whys == {"ensure", "update", "breach", "reprice", "partial", "kill", "poll", "chase"}
Steps == {"idle", "cancel", "confirm", "filled", "limit", "partial", "query",
          "stop", "kill", "spread", "long", "record"}

NoLoc == [why |-> "ensure", oid |-> NoOrder, seen |-> 0, qty |-> 0, new |-> NoOrder]

\* entry handed over a filled spread that has no stop yet
Init ==
  /\ BrokerInit
  /\ t = [status |-> "open", handler |-> "none", qty |-> Q,
          stop |-> NoOrder, type |-> "none", stopQty |-> 0,
          rec |-> [i \in Ids |-> 0], remaining |-> None, shortClosed |-> FALSE,
          spread |-> NoOrder, long |-> NoOrder, longDone |-> 0,
          killed |-> FALSE]
  /\ pc = "idle"
  /\ loc = NoLoc

-----------------------------------------------------------------------------
(* Functions of the trade JSON.                                            *)

Recorded(r) == Cardinality({c \in Ids \X (1..Q) : c[2] <= r.rec[c[1]]})

NonNegative(n) == IF n > 0 THEN n ELSE 0

\* stop_qty_for_state: contracts the exchange stop has to cover
StopQty(r) ==
  IF r.remaining # None THEN r.remaining ELSE NonNegative(r.qty - Recorded(r))

\* long_qty_for_state
LongQty(r) == IF r.status = "closed" THEN 0 ELSE NonNegative(r.qty - r.longDone)

StopIsCurrent(r) == r.stop # NoOrder /\ r.stopQty = StopQty(r)

ClearStop(r) == [r EXCEPT !.stop = NoOrder, !.type = "none", !.stopQty = 0]

\* the short leg is gone: status 'closing', short_closed_at
ShortGone(r) == [r EXCEPT !.status = "closing", !.shortClosed = TRUE]

\* Mutant: a partial fill passes for a complete one.
AnyFill(i) == orders[i].filled > 0

\* stop_order_fully_filled
FullyFilled(i) == orders[i].st = "filled"

\* handle_stop_order_update for an order that filled completely
ShortFilled(r) ==
  IF r.status # "open" \/ r.shortClosed THEN r ELSE [ShortGone(r) EXCEPT !.remaining = 0]

\* a partial fill is recorded once per order
RecordFill(r, i, n) == IF r.rec[i] = 0 THEN [r EXCEPT !.rec[i] = n] ELSE r

\* _finalize_close
Finalized(r) == [r EXCEPT !.status = "closed", !.handler = "none", !.remaining = 0,
                          !.spread = NoOrder]

\* SoftwareBreachHandler: the job signs the trade when the exit is confirmed
SignBreach(r) == IF loc.why = "breach" /\ r.handler = "none" THEN [r EXCEPT !.handler = "breach"] ELSE r

-----------------------------------------------------------------------------
(* Steps of the routines.                                                  *)

Return(r) == t' = r /\ pc' = "idle" /\ loc' = NoLoc

Continue(step) == pc' = step /\ UNCHANGED <<t, loc>>

Begin(why, step) == pc' = step /\ loc' = [NoLoc EXCEPT !.why = why, !.oid = t.stop]

Send(kind, qty) ==
  /\ Accept(kind, qty)
  /\ loc' = [loc EXCEPT !.new = NextId, !.qty = qty]
  /\ pc' = "record"
  /\ UNCHANGED t

\* _cancel_stop_and_confirm: the first status read and the cancel request,
\* which may not get through
RequestCancel ==
  /\ pc = "cancel"
  /\ \/ orders[loc.oid].st = "filled" /\ Continue("filled") /\ UNCHANGED brokerVars
     \/ /\ orders[loc.oid].st # "filled"
        /\ Continue("confirm")
        /\ \/ orders' = RequestCancelOf(loc.oid) /\ UNCHANGED <<short, long, budget>>
           \/ Fault("timeout") /\ UNCHANGED <<orders, short, long>>

\* Mutant: an accepted cancel request counts as a cancelled order.
CancelledByRequest ==
  /\ pc = "confirm"
  /\ orders[loc.oid].st \in {"canceling", "cancelled"}
  /\ UNCHANGED brokerVars
  /\ CASE loc.why \in {"breach", "reprice"} -> Continue("limit")
       [] loc.why = "partial" -> Continue("partial")
       [] loc.why = "update" -> Continue("query")
       [] loc.why \in {"kill", "poll"} -> t' = ClearStop(t) /\ pc' = "spread" /\ UNCHANGED loc

\* ... its outcome 'cancelled'
Cancelled ==
  /\ pc = "confirm"
  /\ orders[loc.oid].st = "cancelled"
  /\ UNCHANGED brokerVars
  /\ CASE loc.why \in {"breach", "reprice"} -> Continue("limit")
       [] loc.why = "partial" -> Continue("partial")
       [] loc.why = "update" -> Continue("query")
       [] loc.why \in {"kill", "poll"} -> t' = ClearStop(t) /\ pc' = "spread" /\ UNCHANGED loc

\* ... its outcome 'filled'
FilledInstead ==
  /\ pc = "confirm"
  /\ orders[loc.oid].st = "filled"
  /\ Continue("filled")
  /\ UNCHANGED brokerVars

\* Mutant: an order whose cancel failed is forgotten.
NotConfirmedForgets ==
  /\ pc = "confirm"
  /\ \/ orders[loc.oid].st \in {"dead", "working"} /\ UNCHANGED budget
     \/ orders[loc.oid].st = "canceling" /\ Fault("timeout")
  /\ UNCHANGED <<orders, short, long>>
  /\ IF loc.why = "partial" THEN Continue("partial") ELSE Return(ClearStop(t))

\* ... its outcome 'failed': the order is rejected or expired, the request
\* was lost, or the broker takes too long.  Only the partial fill goes on.
NotConfirmed ==
  /\ pc = "confirm"
  /\ \/ orders[loc.oid].st \in {"dead", "working"} /\ UNCHANGED budget
     \/ orders[loc.oid].st = "canceling" /\ Fault("timeout")
  /\ UNCHANGED <<orders, short, long>>
  /\ IF loc.why = "partial" THEN Continue("partial") ELSE Return(t)

\* the stop filled while it was being cancelled
StopFilled ==
  /\ pc = "filled"
  /\ IF loc.why = "partial" THEN Continue("partial") ELSE Return(SignBreach(ShortFilled(t)))
  /\ UNCHANGED brokerVars

\* replace_with_limit_close after the cancel: contracts that filled before it
\* are recorded, the rest is bought back at the mid
PlaceLimit ==
  LET done == orders[loc.oid].filled
      r == IF done > 0 THEN RecordFill(t, loc.oid, done) ELSE t
      q == StopQty(r)
  IN /\ pc = "limit"
     /\ \/ /\ q <= 0
           /\ Return(SignBreach(ClearStop([ShortGone(r) EXCEPT !.remaining = 0])))
           /\ UNCHANGED brokerVars
        \/ /\ q > 0
           /\ t.type = "limit" /\ Fault("quote")
           /\ Return(r)
           /\ UNCHANGED <<orders, short, long>>
        \/ q > 0 /\ Refuse("limit", q) /\ Return(r)
        \/ q > 0 /\ Send("limit", q)

\* Mutant: the order is not read again after the cancel.
FilledWhenSeen == loc.seen

\* what the order has filled by the end of the cancel
FilledByNow == IF orders[loc.oid].filled > loc.seen THEN orders[loc.oid].filled ELSE loc.seen

\* handle_partial_stop_fill after the cancel, whatever became of it
PlaceRemaining ==
  LET done == FilledByNow
      rest == NonNegative(t.qty - Recorded(t) - done)
      r == RecordFill(t, loc.oid, done)
      left == [r EXCEPT !.remaining = rest, !.stopQty = rest]
  IN /\ pc = "partial"
     /\ \/ /\ rest = 0
           /\ Return(ClearStop([ShortGone(r) EXCEPT !.remaining = 0]))
           /\ UNCHANGED brokerVars
        \/ /\ rest > 0
           /\ \/ t.type = "limit" /\ Fault("quote") /\ UNCHANGED <<orders, short, long>>
              \/ Refuse("limit", rest)
           /\ Return([left EXCEPT !.stop = NoOrder, !.type = "none"])
        \/ /\ rest > 0
           /\ Accept("limit", rest)
           /\ loc' = [loc EXCEPT !.seen = done, !.new = NextId, !.qty = rest]
           /\ pc' = "record"
           /\ UNCHANGED t

\* _place_short_stop: the position query, in which a failure reads as flat
CheckPosition ==
  /\ pc = "query"
  /\ \/ /\ \/ HeldShort <= 0 /\ UNCHANGED budget
           \/ Fault("query")
        /\ Return(ClearStop(ShortGone(t)))
     \/ /\ HeldShort > 0
        /\ pc' = "stop"
        /\ loc' = [loc EXCEPT !.qty = IF HeldShort < StopQty(t) THEN HeldShort ELSE StopQty(t)]
        /\ UNCHANGED <<t, budget>>
  /\ UNCHANGED <<orders, short, long>>

\* _adopt_working_closing_order_from_broker: the order found takes the place
\* of the stop, and its size that of the trade
Adopt(j) == [t EXCEPT !.stop = j, !.type = IF orders[j].kind = "stop" THEN "stop" ELSE "limit",
                      !.stopQty = orders[j].qty, !.qty = orders[j].qty]

\* the search for an order to adopt may come back empty
PlaceStop ==
  /\ pc = "stop"
  /\ \/ Send("stop", loc.qty)
     \/ Refuse("stop", loc.qty) /\ Return(ClearStop(t))
     \/ /\ Exceeds("stop", loc.qty)
        /\ \E j \in {i \in Buying : orders[i].st = "working"} : Return(Adopt(j))
        /\ UNCHANGED brokerVars

\* ManualKillHandler: the pipeline's first steps
Kill ==
  /\ pc = "kill"
  /\ CASE t.status = "closed" -> Return(t)
       [] t.status # "closed" /\ t.stop # NoOrder ->
            pc' = "cancel" /\ loc' = [loc EXCEPT !.oid = t.stop] /\ UNCHANGED t
       [] t.status # "closed" /\ t.stop = NoOrder -> Continue("spread")
  /\ UNCHANGED brokerVars

\* one order for both legs: the kill checks the position first and keeps the
\* trade open when it cannot; the replacement of a rejected order takes flat
\* for closed
PlaceSpread ==
  LET q == StopQty(t) IN
  /\ pc = "spread"
  /\ \/ /\ Inspect(q) # "closable"
        /\ Return(IF loc.why = "poll" /\ Inspect(q) = "flat" THEN [t EXCEPT !.status = "closed"] ELSE t)
        /\ UNCHANGED brokerVars
     \/ /\ Inspect(q) = "closable"
        /\ \/ Refuse("spread", q)
           \/ Fault("quote") /\ UNCHANGED <<orders, short, long>>
        /\ Return(t)
     \/ Inspect(q) = "closable" /\ Send("spread", q)

\* Mutant: the long leg is sold without a look at the position.
PlaceLongUnchecked ==
  LET want == LongQty(t) IN
  /\ pc = "long"
  /\ \/ want <= 0 /\ Return(Finalized(t)) /\ UNCHANGED brokerVars
     \/ want > 0 /\ Refuse("long", want) /\ Return(t)
     \/ want > 0 /\ Send("long", want)

\* _place_long_close_limit and _place_long_close_market: flat, or a query
\* that fails, closes the trade
PlaceLong ==
  LET want == LongQty(t)
      q == IF want < HeldLong THEN want ELSE HeldLong
  IN /\ pc = "long"
     /\ \/ /\ \/ HeldLong <= 0 /\ UNCHANGED budget
              \/ want <= 0 /\ UNCHANGED budget
              \/ Fault("query")
           /\ Return(Finalized(t))
           /\ UNCHANGED <<orders, short, long>>
        \/ q > 0 /\ Refuse("long", q) /\ Return(t)
        \/ q > 0 /\ Send("long", q)

\* the order id that the broker returned is saved; the limit order after a
\* partial fill becomes the trade's close_mechanism
Record ==
  LET i == loc.new
      r == CASE orders[i].kind = "stop" ->
                  [t EXCEPT !.stop = i, !.type = "stop", !.stopQty = loc.qty]
             [] orders[i].kind = "limit" ->
                  LET done == IF loc.why = "partial" THEN loc.seen ELSE orders[loc.oid].filled IN
                  [(IF done > 0 THEN RecordFill(t, loc.oid, done) ELSE t)
                     EXCEPT !.stop = i, !.type = "limit", !.stopQty = loc.qty,
                            !.remaining = loc.qty,
                            !.killed = @ /\ loc.why # "partial"]
             [] orders[i].kind = "spread" -> [t EXCEPT !.spread = i, !.status = "closing"]
             [] orders[i].kind = "long" -> [t EXCEPT !.long = i]
  IN /\ pc = "record"
     /\ \/ Return(SignBreach(r))
        \/ /\ orders[i].kind = "spread" /\ orders[i].st = "filled"
           /\ Return(ClearStop(Finalized(t)))
     /\ UNCHANGED brokerVars

Routine ==
  \/ RequestCancel \/ Cancelled \/ FilledInstead \/ NotConfirmed \/ StopFilled
  \/ PlaceLimit \/ PlaceRemaining \/ CheckPosition \/ PlaceStop
  \/ Kill \/ PlaceSpread \/ PlaceLong \/ Record

-----------------------------------------------------------------------------
(* What the owner starts with.                                             *)

Idle == pc = "idle"

\* _reconcile_active_stop_with_broker, alert fills and the job of a filled
\* stop: the job signs the trade before it looks
Reconcile ==
  LET o == orders[t.stop] IN
  /\ Idle
  /\ t.status = "open"
  /\ t.stop # NoOrder
  /\ \/ /\ FullyFilled(t.stop)
        /\ \/ Return(ShortFilled(t))
           \/ Return([ShortFilled(t) EXCEPT !.handler = "exchange"])
     \/ /\ ~FullyFilled(t.stop) /\ o.filled > 0
        /\ pc' = "cancel"
        /\ loc' = [NoLoc EXCEPT !.why = "partial", !.oid = t.stop, !.seen = o.filled]
        /\ UNCHANGED t
     \/ /\ o.st \in {"cancelled", "dead"} /\ o.filled = 0
        /\ Return(ClearStop(t))
  /\ UNCHANGED brokerVars

\* no recovery route keeps the scan from the open slot
Scanned == t.handler # "manual" /\ ~(t.handler = "breach" /\ t.type = "limit")

\* _ensure_stop_for_filled_qty: place the stop, or cancel one of the wrong
\* size first.  That it also replaces a stop-limit by an OCO order and back
\* (_reconcile_active_stop_type) is Retyped in TradeFile; the setting stays here.
EnsureStop ==
  /\ Idle
  /\ t.status = "open"
  /\ Scanned
  /\ ~StopIsCurrent(t) /\ StopQty(t) > 0
  /\ \/ t.stop = NoOrder /\ UNCHANGED <<orders, t>>
     \/ /\ t.stop # NoOrder
        /\ orders[t.stop].st = "working"
        /\ orders' = RequestCancelOf(t.stop)
        /\ t' = ClearStop(t)
  /\ Begin("ensure", "query")
  /\ UNCHANGED <<short, long, budget>>

\* _check_stop_update_command
UpdateStop ==
  /\ Idle
  /\ t.status = "open"
  /\ Fault("update")
  /\ Begin("update", IF t.stop = NoOrder THEN "query" ELSE "cancel")
  /\ UNCHANGED <<orders, short, long, t>>

\* a confirmed breach of a trade that no exit has claimed
Breach ==
  /\ Idle
  /\ t.status = "open"
  /\ t.handler = "none"
  /\ t.type = "stop" /\ t.stopQty >= t.qty
  /\ Begin("breach", "cancel")
  /\ UNCHANGED <<brokerVars, t>>

\* the mid moved away from a working limit order that has not filled yet
Reprice ==
  /\ Idle
  /\ t.status = "open"
  /\ t.handler = "breach" \/ (t.handler = "none" /\ t.stopQty >= t.qty)
  /\ t.type = "limit" /\ orders[t.stop].filled = 0
  /\ Fault("reprice")
  /\ Begin("reprice", "cancel")
  /\ UNCHANGED <<orders, short, long, t>>

\* claim_manual_close persists the claim and enqueues the kill
Claim ==
  /\ Idle
  /\ "kill" \in budget.of
  /\ t.status # "closed"
  /\ t.handler = "none"
  /\ t' = [t EXCEPT !.handler = "manual", !.killed = TRUE]
  /\ Begin("kill", "kill")
  /\ UNCHANGED brokerVars

\* recovery route resume_manual_kill
ResumeKill ==
  /\ Idle
  /\ t.status = "open"
  /\ t.handler = "manual"
  /\ Begin("kill", "kill")
  /\ UNCHANGED <<brokerVars, t>>

\* Mutant: a rejected spread close counts as a filled one.
PollSpreadTerminal ==
  /\ Idle
  /\ t.status = "closing"
  /\ t.spread # NoOrder
  /\ orders[t.spread].st \in {"filled", "cancelled", "dead"}
  /\ Return(ClearStop(Finalized(t)))
  /\ UNCHANGED brokerVars

\* _poll_spread_close: a close that is gone is sent again while
\* close_mechanism still names the operator's kill
PollSpread ==
  /\ Idle
  /\ t.status = "closing"
  /\ t.spread # NoOrder
  /\ \/ /\ orders[t.spread].st = "filled"
        /\ Return(ClearStop(Finalized(t)))
     \/ /\ orders[t.spread].st \in {"cancelled", "dead"}
        /\ \/ ~t.killed /\ Return([t EXCEPT !.spread = NoOrder])
           \/ /\ t.killed
              /\ t' = [t EXCEPT !.spread = NoOrder]
              /\ Begin("poll", IF t.stop = NoOrder THEN "spread" ELSE "kill")
  /\ UNCHANGED brokerVars

\* reconcile_stalled_exit: marks, never replaces
StallReconcile ==
  /\ Idle
  /\ t.status = "closing"
  /\ t.handler # "none"
  /\ \/ /\ t.spread # NoOrder
        /\ orders[t.spread].st = "filled"
        /\ Return([t EXCEPT !.spread = NoOrder, !.status = "closed"])
     \/ /\ t.spread # NoOrder
        /\ orders[t.spread].st \in {"cancelled", "dead"}
        /\ Return([t EXCEPT !.spread = NoOrder])
     \/ /\ t.long # NoOrder
        /\ orders[t.long].st = "filled"
        /\ Return([t EXCEPT !.status = "closed"])
  /\ UNCHANGED brokerVars

\* _poll_closing and _chase_long_close
Chase ==
  LET o == orders[t.long]
      r == [t EXCEPT !.long = NoOrder, !.longDone = @ + o.filled]
  IN /\ Idle
     /\ t.status = "closing" /\ t.shortClosed /\ t.spread = NoOrder
     /\ \/ t.long = NoOrder /\ Begin("chase", "long") /\ UNCHANGED <<brokerVars, t>>
        \/ /\ t.long # NoOrder
           /\ \/ /\ o.st = "filled"
                 /\ Return(Finalized(t))
                 /\ UNCHANGED brokerVars
              \/ /\ o.st \in {"cancelled", "dead"}
                 /\ IF LongQty(r) <= 0 THEN Return(Finalized(r))
                    ELSE t' = r /\ Begin("chase", "long")
                 /\ UNCHANGED brokerVars
              \/ /\ o.st = "working"
                 /\ Fault("reprice")
                 /\ orders' = RequestCancelOf(t.long)
                 /\ UNCHANGED <<short, long, t, pc, loc>>

\* the process stops anywhere and starts again from the trade JSON
Crash ==
  /\ t.status # "closed"
  /\ Fault("crash")
  /\ Return(t)
  /\ UNCHANGED <<orders, short, long>>

Start ==
  \/ Reconcile \/ EnsureStop \/ UpdateStop \/ Breach \/ Reprice \/ Claim
  \/ ResumeKill \/ PollSpread \/ StallReconcile \/ Chase

Market == Exchange /\ UNCHANGED <<t, pc, loc>>

Next == Start \/ Routine \/ Crash \/ Market

Spec == Init /\ [][Next]_vars

\* A routine runs on, the scan comes round, and an order that keeps being
\* repriced fills; a cancel is taken or loses to a fill.  Nothing is promised
\* about breaches, commands, repricings, faults and crashes.
Fairness ==
  /\ WF_vars(Routine)
  /\ WF_vars(Reconcile)
  /\ WF_vars(EnsureStop)
  /\ WF_vars(ResumeKill)
  /\ WF_vars(PollSpread)
  /\ WF_vars(Chase)
  /\ \A i \in Ids :
       /\ WF_vars(orders[i].kind # "stop" /\ Fill(i, Rest(i)) /\ UNCHANGED <<t, pc, loc>>)
       /\ WF_vars(TakeCancel(i) /\ UNCHANGED <<t, pc, loc>>)

FairSpec == Spec /\ Fairness

-----------------------------------------------------------------------------
TypeOK ==
  /\ BrokerTypeOK
  /\ t \in [status : {"open", "closing", "closed"},
             handler : {"none", "manual", "breach", "exchange"},
             qty : 1..Q, stop : {NoOrder} \union Ids, type : {"none", "stop", "limit"},
             stopQty : 0..Q, rec : [Ids -> 0..Q], remaining : {None} \union (0..Q),
             shortClosed : BOOLEAN, spread : {NoOrder} \union Ids,
             long : {NoOrder} \union Ids, longDone : 0..Q, killed : BOOLEAN]
  /\ pc \in Steps
  /\ loc \in [why : Whys, oid : {NoOrder} \union Ids, seen : 0..Q, qty : 0..Q,
               new : {NoOrder} \union Ids]

\* An id may be lost before it is saved.
Crashes == "crash" \in budget.of

\* Partial fills meet stop updates.
Resizes == {"partial", "update"} \subseteq budget.of

(* The long leg covers the short leg until it is bought back, no leg is    *)
(* closed further than flat, and the trade JSON says 'closed' exactly when *)
(* both legs are flat.  Scenarios that resize stops are left out: there a  *)
(* stop is forgotten before it has left the book.                          *)
Lifecycle == INSTANCE SpreadLifecycle WITH
               short <- IF Resizes THEN Q ELSE short,
               long <- IF Resizes THEN Q ELSE long,
               status <- IF Resizes THEN "open" ELSE t.status

ImplementsLifecycle == Lifecycle!Spec

(* Between two routines every order that still works at the broker is one  *)
(* the trade JSON names, so some handler looks after it.  Partial fills    *)
(* break it (the JSON then counts contracts twice), and so does a crash    *)
(* that loses an id.                                                       *)
NoOrphanOrders == Idle /\ ~Crashes /\ "partial" \notin budget.of => Live \subseteq {t.stop, t.spread, t.long}

(* Once the fills of the working order are taken in, the trade JSON counts *)
(* the short contracts that are really left.  A stop update forgets them.  *)
KnowsRemaining ==
  Idle /\ ~Resizes /\ ~Crashes /\ t.status = "open" /\ (t.stop # NoOrder => orders[t.stop].filled = 0)
    => StopQty(t) = short

(* The short leg never outlives the long leg that covers it.               *)
NeverNaked == short <= long

(* When the short leg is gone the long leg is sold and the trade closed.   *)
(* Where stops are resized MaxOrders may leave no order for the long leg.  *)
LongChaseEnds == t.shortClosed /\ ~Resizes ~> t.status = "closed"

(* What holds of a trade's orders at every moment: the types, no unknown   *)
(* order, the right count and never a naked short leg.                     *)
OrdersSound == TypeOK /\ NoOrphanOrders /\ KnowsRemaining /\ NeverNaked
=============================================================================
