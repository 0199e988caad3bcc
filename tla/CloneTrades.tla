---------------------------- MODULE CloneTrades ----------------------------
(***************************************************************************)
(* The clone-trades engine: web requests that turn alerts into option      *)
(* trades, the monitor thread that sells each trade down a ladder of       *)
(* profit targets under one stop, the operator who takes or leaves alerts, *)
(* flattens trades, edits ladders and clears the history, and the two      *)
(* journals from which a new process starts.                               *)
(*                                                                         *)
(* A request opens at most one trade, which has its name.  Levels, targets *)
(* and stops are profit levels relative to the entry; all trades are live. *)
(* engine._lock is `lock`; a critical section that calls the broker is two *)
(* steps, every other one is one step.  MaxMoves bounds the prices and     *)
(* risk.left what goes wrong.  No option expires in a run.                 *)
(***************************************************************************)
EXTENDS Integers, Sequences, SequencesExt, FiniteSets, FiniteSetsExt

CONSTANTS Trades,      \* requests, and the trades they open
          Alerts,      \* requests that bring an alert; the others take one by hand
          Qty,         \* contracts per trade
          OwnLadder,   \* ladder of the sub-strategy: sequence of [target, stop, pct]
          NewLadder,   \* ladder of the general configuration, also what an edit brings
          Never,       \* the target beyond the last tier (999999)
          Levels,      \* price levels
          MaxMoves,    \* bound on the price moves
          CloneMaxFaults,  \* bound on what goes wrong
          CloneScenarios   \* each a set of what may go wrong in a run

CloneFaults == {"working", "refuse", "lost", "crash", "slip", "edit", "clear", "paper",
                "take", "resting", "noquote"}

ASSUME CloneAssumption ==
    /\ Alerts \subseteq Trades /\ Qty \in Nat \ {0} /\ MaxMoves \in Nat /\ CloneMaxFaults \in Nat
    /\ Levels \subseteq Int /\ 0 \in Levels /\ Never \in Int /\ \A p \in Levels : p < Never
    /\ UNION CloneScenarios \subseteq CloneFaults /\ IsFiniteSet(Trades) /\ "none" \notin Trades

\* Every ladder has a tier, and a share of the contracts for each.
ASSUME LadderAssumption ==
    \A l \in {OwnLadder, NewLadder} :
        /\ l \in Seq([target : Int, stop : Int, pct : Nat]) /\ l # << >>
        /\ \A i \in DOMAIN l : l[i].target # Never

VARIABLES mem,       \* trade objects
          active,    \* active_trades
          disk,      \* last line of trades.jsonl per trade
          req,       \* web request that opens the trade: [pc, sig, says]
          signal,    \* status of the alert that request brought
          book,      \* the broker: [buy, sold, selling]
          mon,       \* monitor thread: [pc, todo, trade, filled, px]
          op,        \* operator's request in progress: [pc, trade]
          lock,      \* holder of engine._lock
          price, moves,
          paper,     \* config_mgr.paper_mode
          risk       \* what may go wrong in this run: [of, left]

vars == <<mem, active, disk, req, signal, book, mon, op, lock, price, moves, paper, risk>>

CloneFault(f) == f \in risk.of /\ risk.left > 0 /\ risk' = [risk EXCEPT !.left = @ - 1]
Usual == UNCHANGED risk
Free == lock = "free"

-----------------------------------------------------------------------------
(* Ladders. *)

Sum(s) == FoldSeq(+, 0, s)
Smaller(a, b) == IF a < b THEN a ELSE b
Larger(a, b) == IF a < b THEN b ELSE a

\* Mutant: the contracts left by the rounding go to no tier.
DistributeFloor(q, w) == [i \in DOMAIN w |-> (w[i] * q) \div Sum(w)]

\* The same number for every tier, and one more for the first of them.
Evenly(q, n) == [i \in 1 .. n |-> (q \div n) + (IF i <= q % n THEN 1 ELSE 0)]

\* Shares by weight, rounded down; the largest remainders take what is left
\* over, the earlier tier first.
Floors(q, w) == [i \in DOMAIN w |-> (w[i] * q) \div Sum(w)]
Rests(q, w) == [i \in DOMAIN w |-> (w[i] * q) % Sum(w)]
Ahead(r, i) == {j \in DOMAIN r : r[j] > r[i] \/ (r[j] = r[i] /\ j < i)}
Served(r, k) == {i \in DOMAIN r : Cardinality(Ahead(r, i)) < k}
Rounded(q, w) ==
    LET spare == q - Sum(Floors(q, w))
    IN  [i \in DOMAIN w |-> Floors(q, w)[i] + (IF i \in Served(Rests(q, w), spare) THEN 1 ELSE 0)]

\* A first tier without a contract gets one of the largest tier.
Largest(d) == CHOOSE i \in 2 .. Len(d) : \A j \in 2 .. Len(d) : d[j] < d[i] \/ (d[j] = d[i] /\ i <= j)
FirstServed(d) ==
    IF d[1] = 0 /\ d[Largest(d)] > 1 THEN [d EXCEPT ![Largest(d)] = @ - 1, ![1] = 1] ELSE d

\* distribute_contracts_across_tiers
Distribute(q, w) ==
    LET first == CHOOSE i \in DOMAIN w : w[i] > 0 /\ \A j \in 1 .. i - 1 : w[j] = 0
    IN  IF Len(w) = 1 THEN <<q>>
        ELSE IF Sum(w) = 0 THEN Evenly(q, Len(w))
        ELSE IF q = 1 THEN [i \in DOMAIN w |-> IF i = first THEN 1 ELSE 0]
        ELSE FirstServed(Rounded(q, w))

Pcts(l) == [i \in DOMAIN l |-> l[i].pct]

Absent == [status |-> "none", left |-> 0, tier |-> 1, pt |-> 0, stop |-> 0, dist |-> << >>,
           exact |-> TRUE, seen |-> FALSE]

\* The trade object of a new order; `exact`: its entry price is the fill's;
\* `seen`: not _reconcile_entry.
Opened(status, exact) ==
    [status |-> status, left |-> Qty, tier |-> 1, pt |-> OwnLadder[1].target,
     stop |-> OwnLadder[1].stop, dist |-> Distribute(Qty, Pcts(OwnLadder)),
     exact |-> exact, seen |-> FALSE]

\* _apply_ladder_to_trade_unlocked
Edited(r, l) ==
    LET idx == Smaller(r.tier, Len(l))
    IN  [r EXCEPT !.dist = IF r.left = Qty THEN Distribute(r.left, Pcts(l))
                           ELSE SubSeq(@, 1, Smaller(idx - 1, Len(@)))
                                  \o Distribute(r.left, Pcts(SubSeq(l, idx, Len(l)))),
                  !.pt = l[idx].target, !.stop = l[idx].stop]

\* Mutant: a target sells the tier's contracts without a look at what is left.
UncappedTranche(r) == Larger(1, IF r.tier \in DOMAIN r.dist THEN r.dist[r.tier] ELSE 1)

\* Contracts to sell when the trade's target is reached.
Tranche(r) == Smaller(r.left, Larger(1, IF r.tier \in DOMAIN r.dist THEN r.dist[r.tier] ELSE 1))

\* A trade that is over: nothing is left of it.
Over(r, status) == [r EXCEPT !.status = status, !.left = 0]

\* Mutant: the books take every tier for one contract.
SoldOne(r) == [r EXCEPT !.left = @ - 1]

Sold(r) == [r EXCEPT !.left = @ - Tranche(r)]

RatchetedStop(r, next) == Larger(r.stop, OwnLadder[next].stop)

\* _trigger_partial_pt_unlocked after the order: the rest moves to the next
\* tier of trade.ladder_tiers, which an edit leaves as it was.
OnNextTier(r) ==
    LET next == r.tier + 1
        sold == Sold(r)
    IN  IF sold.left <= 0 THEN [sold EXCEPT !.status = "CLOSED"]
        ELSE IF next \notin DOMAIN OwnLadder THEN [sold EXCEPT !.tier = next, !.pt = Never]
        ELSE [sold EXCEPT !.tier = next, !.pt = OwnLadder[next].target,
                          !.stop = RatchetedStop(r, next)]

-----------------------------------------------------------------------------
(* The broker.  A sale that a position cannot cover is refused before it   *)
(* is sent; a market sale fills, a limit sale may rest.                    *)

Bought(t) == IF book[t].buy = "filled" THEN Qty ELSE 0
OnSale(t) == book[t].sold + book[t].selling
SameOption(t) == {u \in Trades : req[u].sig = req[t].sig}
Held == [t \in Trades |-> Bought(t) - book[t].sold]
Total(F, S) == MapThenSumSet(LAMBDA x : F[x], S)
Position(t) == Total(Held, SameOption(t))

\* Mutant: an order to sell goes out whatever is held.
UncheckedCovers(t, q) == TRUE

\* Preflight of _place_single_leg_order.
Covers(t, q) == Position(t) >= q

\* SELL_TO_CLOSE of q contracts; the engine reads no more of the answer than the price.
Sell(t, q, limit) ==
    \/ /\ paper \/ ~Covers(t, q)
       /\ UNCHANGED book /\ Usual
    \/ /\ ~paper /\ Covers(t, q)
       /\ \/ book' = [book EXCEPT ![t].sold = @ + q] /\ Usual
          \/ limit /\ "resting" \in risk.of /\ book' = [book EXCEPT ![t].selling = @ + q] /\ Usual
          \/ UNCHANGED book /\ CloneFault("refuse")

FillBuy(t) ==
    /\ book[t].buy = "working" /\ book' = [book EXCEPT ![t].buy = "filled"]
    /\ UNCHANGED <<mem, active, disk, req, signal, mon, op, lock, price, moves, paper, risk>>

FillSell(t) ==
    /\ book[t].selling > 0
    /\ book' = [book EXCEPT ![t].sold = @ + book[t].selling, ![t].selling = 0]
    /\ UNCHANGED <<mem, active, disk, req, signal, mon, op, lock, price, moves, paper, risk>>

Move(p) ==
    /\ moves < MaxMoves /\ p # price
    /\ price' = p /\ moves' = moves + 1
    /\ UNCHANGED <<mem, active, disk, req, signal, book, mon, op, lock, paper, risk>>

-----------------------------------------------------------------------------
(* Requests that open a trade. *)

Idle == [pc |-> "idle", todo |-> {}, trade |-> "none", filled |-> FALSE, px |-> 0]
NoRequest == [pc |-> "new", sig |-> "none", status |-> "none"]

Init ==
    /\ mem = [t \in Trades |-> Absent] /\ disk = mem /\ active = {}
    /\ req = [t \in Trades |-> NoRequest] /\ signal = [t \in Trades |-> "none"]
    /\ book = [t \in Trades |-> [buy |-> "none", sold |-> 0, selling |-> 0]]
    /\ mon = Idle /\ op = [pc |-> "idle", trade |-> "none"] /\ lock = "free"
    /\ price = 0 /\ moves = 0 /\ paper = FALSE
    /\ risk \in [of : CloneScenarios, left : {CloneMaxFaults}]

\* The order of _execute_and_open_trade: filled, queued (under a status the
\* code takes for WORKING or for OPEN), refused, or sent with its answer lost.
Buy(t, s) ==
    /\ req[t].pc = "new" /\ ~paper
    /\ \/ /\ book' = [book EXCEPT ![t].buy = "filled"]
          /\ req' = [req EXCEPT ![t] = [pc |-> "placed", sig |-> s, status |-> "OPEN"]]
          /\ Usual /\ UNCHANGED signal
       \/ /\ CloneFault("working")
          /\ book' = [book EXCEPT ![t].buy = "working"]
          /\ \E status \in {"WORKING", "OPEN"} :
               req' = [req EXCEPT ![t] = [pc |-> "placed", sig |-> s, status |-> status]]
          /\ UNCHANGED signal
       \/ /\ \/ CloneFault("refuse") /\ UNCHANGED book
             \/ CloneFault("lost") /\ book' = [book EXCEPT ![t].buy = "working"]
          /\ Free
          /\ req' = [req EXCEPT ![t].pc = "done"]
          /\ signal' = IF s = t THEN [signal EXCEPT ![s] = "rejected"] ELSE signal

\* process_signal up to the order: the guards may hold the alert.
Webhook(t) ==
    /\ t \in Alerts
    /\ \/ Buy(t, t)
       \/ /\ req[t].pc = "new" /\ Free
          /\ req' = [req EXCEPT ![t].pc = "done"] /\ signal' = [signal EXCEPT ![t] = "held"]
          /\ Usual /\ UNCHANGED book
    /\ UNCHANGED <<mem, active, disk, mon, op, lock, price, moves, paper>>

\* take_signal_manually: of any alert, whatever its status
Take(t, s) ==
    /\ t \notin Alerts /\ signal[s] # "none"
    /\ "take" \in risk.of
    /\ Buy(t, s)
    /\ UNCHANGED <<mem, active, disk, mon, op, lock, price, moves, paper>>

\* The trade object enters active_trades and the journal.
Register(t) ==
    /\ req[t].pc = "placed" /\ Free
    /\ \E exact \in IF "slip" \in risk.of THEN BOOLEAN ELSE {TRUE} :
         mem' = [mem EXCEPT ![t] = Opened(req[t].status, exact)]
    /\ disk' = [disk EXCEPT ![t] = mem'[t]] /\ active' = active \cup {t}
    /\ req' = [req EXCEPT ![t].pc = "registered"]
    /\ UNCHANGED <<signal, book, mon, op, lock, price, moves, paper, risk>>

RecordSignal(t) ==
    /\ req[t].pc = "registered" /\ Free
    /\ signal' = [signal EXCEPT ![req[t].sig] = "taken"]
    /\ req' = [req EXCEPT ![t].pc = "done"]
    /\ UNCHANGED <<mem, active, disk, book, mon, op, lock, price, moves, paper, risk>>

LeaveSignal(s) ==
    /\ Free /\ "take" \in risk.of /\ signal[s] \notin {"none", "dismissed"}
    /\ signal' = [signal EXCEPT ![s] = "dismissed"]
    /\ UNCHANGED <<mem, active, disk, req, book, mon, op, lock, price, moves, paper, risk>>

-----------------------------------------------------------------------------
(* The monitor thread: update_quotes_and_check_stops. *)

Asks(t) == ~paper /\ (mem[t].status = "WORKING" \/ ~mem[t].seen)

\* Copy of the open trades, taken under the lock.
Look ==
    /\ mon.pc = "idle" /\ Free
    /\ mon' = IF active = {} THEN mon ELSE [mon EXCEPT !.pc = "next", !.todo = active]
    /\ UNCHANGED <<mem, active, disk, req, signal, book, op, lock, price, moves, paper, risk>>

AskEntry(t) ==
    /\ mon.pc = "next" /\ t \in mon.todo
    /\ mon' = [mon EXCEPT !.pc = "asked", !.todo = @ \ {t}, !.trade = t,
                          !.filled = Asks(t) /\ book[t].buy = "filled"]
    /\ UNCHANGED <<mem, active, disk, req, signal, book, op, lock, price, moves, paper, risk>>

\* A filled entry makes the trade OPEN, without the lock; a price other than
\* the noted one resets the target to the general ladder's first tier.
Reconciled(r) == [r EXCEPT !.status = "OPEN", !.seen = TRUE, !.exact = TRUE,
                           !.pt = IF r.exact THEN @ ELSE NewLadder[1].target]

ToNext(m) == [m EXCEPT !.pc = IF m.todo = {} THEN "idle" ELSE "next",
                       !.trade = "none", !.filled = FALSE, !.px = 0]

\* The reconciliation, then the quote.
Price ==
    /\ mon.pc = "asked"
    /\ LET t == mon.trade
           new == IF mon.filled THEN Reconciled(mem[t]) ELSE mem[t]
       IN  /\ mem' = [mem EXCEPT ![t] = new]
           /\ disk' = IF mon.filled /\ ~mem[t].exact THEN [disk EXCEPT ![t] = new] ELSE disk
    /\ \/ mon' = [mon EXCEPT !.pc = "priced", !.px = price] /\ Usual
       \/ mon' = ToNext(mon) /\ CloneFault("noquote")
    /\ UNCHANGED <<active, req, signal, book, op, lock, price, moves, paper>>

\* Mutant: the stop is meant to be broken, not reached.
StopPassed(r, px) == px < r.stop
StopReached(r, px) == px <= r.stop
TargetReached(r, px) == px >= r.pt /\ r.left > 0

\* Under the lock: the stop for the whole rest, else the tier's target.
Check ==
    /\ mon.pc = "priced" /\ Free
    /\ LET r == mem[mon.trade]
           stop == StopReached(r, mon.px)
           target == ~stop /\ TargetReached(r, mon.px)
       IN  \/ /\ stop /\ r.left > 0
              /\ Sell(mon.trade, r.left, FALSE)
              /\ mon' = [mon EXCEPT !.pc = "stopped"] /\ lock' = "monitor"
           \/ /\ target
              /\ Sell(mon.trade, Tranche(r), TRUE)
              /\ mon' = [mon EXCEPT !.pc = "tranche"] /\ lock' = "monitor"
           \/ /\ ~target /\ (stop => r.left = 0)
              /\ mon' = ToNext(mon) /\ UNCHANGED <<book, lock, risk>>
    /\ UNCHANGED <<mem, active, disk, req, signal, op, price, moves, paper>>

\* Mutant: a trade that moves to its next tier is not written.
SaveClosed(t, r) ==
    /\ mem' = [mem EXCEPT ![t] = r]
    /\ active' = IF r.left = 0 THEN active \ {t} ELSE active
    /\ disk' = IF r.left = 0 THEN [disk EXCEPT ![t] = r] ELSE disk

\* A trade's new state and its line in the journal.
Save(t, r) ==
    /\ mem' = [mem EXCEPT ![t] = r]
    /\ active' = IF r.left = 0 THEN active \ {t} ELSE active
    /\ disk' = [disk EXCEPT ![t] = r]

BookSale ==
    /\ mon.pc \in {"stopped", "tranche"}
    /\ LET r == mem[mon.trade]
       IN  Save(mon.trade, IF mon.pc = "stopped" THEN Over(r, "CLOSED") ELSE OnNextTier(r))
    /\ mon' = ToNext(mon) /\ lock' = "free"
    /\ UNCHANGED <<req, signal, book, op, price, moves, paper, risk>>

-----------------------------------------------------------------------------
(* The operator, and the process. *)

\* close_trade_manual: a queued order is cancelled, an open trade is sold.
CancelWorking(t) ==
    /\ Free /\ op.pc = "idle" /\ t \in active /\ mem[t].status = "WORKING"
    /\ \/ paper /\ UNCHANGED book /\ Usual
       \/ /\ ~paper /\ Usual
          /\ book' = IF book[t].buy = "working" THEN [book EXCEPT ![t].buy = "cancelled"] ELSE book
       \/ ~paper /\ CloneFault("refuse") /\ UNCHANGED book
    /\ Save(t, Over(mem[t], "CANCELLED"))
    /\ UNCHANGED <<req, signal, mon, op, lock, price, moves, paper>>

Flatten(t) ==
    /\ Free /\ op.pc = "idle" /\ t \in active /\ mem[t].status # "WORKING"
    /\ Sell(t, mem[t].left, FALSE)
    /\ op' = [pc |-> "closing", trade |-> t] /\ lock' = "operator"
    /\ UNCHANGED <<mem, active, disk, req, signal, mon, price, moves, paper>>

BookFlatten ==
    /\ op.pc = "closing"
    /\ Save(op.trade, Over(mem[op.trade], "CLOSED"))
    /\ op' = [pc |-> "idle", trade |-> "none"] /\ lock' = "free"
    /\ UNCHANGED <<req, signal, book, mon, price, moves, paper, risk>>

\* A ladder for one trade, or for all of them with the configuration's.
EditLadder ==
    /\ Free /\ active # {} /\ CloneFault("edit")
    /\ \E chosen \in {{t} : t \in active} \cup {active} :
         mem' = [t \in Trades |-> IF t \in chosen THEN Edited(mem[t], NewLadder) ELSE mem[t]]
    /\ disk' = [t \in Trades |-> IF mem'[t] # mem[t] THEN mem'[t] ELSE disk[t]]
    /\ UNCHANGED <<active, req, signal, book, mon, op, lock, price, moves, paper>>

\* clear_history: the journals are opened for writing, which empties them ...
Truncate ==
    /\ Free /\ op.pc = "idle" /\ CloneFault("clear")
    /\ signal' = [s \in Trades |-> "none"] /\ disk' = [t \in Trades |-> Absent]
    /\ op' = [pc |-> "clearing", trade |-> "none"] /\ lock' = "operator"
    /\ UNCHANGED <<mem, active, req, book, mon, price, moves, paper>>

\* ... and get the open trades back.
Rewrite == disk' = [t \in Trades |-> IF t \in active THEN mem[t] ELSE Absent]

ClearHistory ==
    /\ op.pc = "clearing" /\ Rewrite
    /\ op' = [pc |-> "idle", trade |-> "none"] /\ lock' = "free"
    /\ UNCHANGED <<mem, active, req, signal, book, mon, price, moves, paper, risk>>

\* The operator sets the general paper flag.
TogglePaper ==
    /\ CloneFault("paper") /\ paper' = ~paper
    /\ UNCHANGED <<mem, active, disk, req, signal, book, mon, op, lock, price, moves>>

Alive(r) == r.status \in {"OPEN", "WORKING"} /\ r.left > 0

\* The process ends; _load_state starts the next one from the journal.
Restart ==
    /\ CloneFault("crash")
    /\ mem' = [t \in Trades |-> [disk[t] EXCEPT !.seen = FALSE]]
    /\ active' = {t \in Trades : Alive(disk[t])}
    /\ req' = [t \in Trades |-> IF req[t].pc = "new" THEN req[t] ELSE [req[t] EXCEPT !.pc = "done"]]
    /\ mon' = Idle /\ op' = [pc |-> "idle", trade |-> "none"] /\ lock' = "free"
    /\ UNCHANGED <<disk, signal, book, price, moves, paper>>

-----------------------------------------------------------------------------
Polling == Look \/ Price \/ Check \/ BookSale \/ \E t \in Trades : AskEntry(t)

Operator == BookFlatten \/ ClearHistory \/ EditLadder \/ Truncate \/ TogglePaper
              \/ \E t \in Trades : CancelWorking(t) \/ Flatten(t) \/ LeaveSignal(t)

Request(t) == Webhook(t) \/ Register(t) \/ RecordSignal(t) \/ \E s \in Trades : Take(t, s)

Market == \/ \E p \in Levels : Move(p)
          \/ \E t \in Trades : FillBuy(t) \/ FillSell(t)

Next == Polling \/ Operator \/ Restart \/ Market \/ \E t \in Trades : Request(t)

\* The monitor loop and a request that holds the lock go on.
Spec == Init /\ [][Next]_vars /\ WF_vars(Polling) /\ WF_vars(BookFlatten \/ ClearHistory)

-----------------------------------------------------------------------------
TradeRecord == [status : {"none", "WORKING", "OPEN", "CLOSED", "CANCELLED"}, left : 0 .. Qty,
                tier : Nat \ {0}, pt : Int, stop : Int, dist : Seq(0 .. Qty),
                exact : BOOLEAN, seen : BOOLEAN]

\* The shape of every variable.
TypeOK ==
    /\ mem \in [Trades -> TradeRecord] /\ disk \in [Trades -> TradeRecord]
    /\ active \subseteq Trades
    /\ req \in [Trades -> [pc : {"new", "placed", "registered", "done"},
                           sig : Trades \cup {"none"}, status : {"none", "OPEN", "WORKING"}]]
    /\ signal \in [Trades -> {"none", "held", "rejected", "taken", "dismissed"}]
    /\ book \in [Trades -> [buy : {"none", "working", "filled", "cancelled"},
                            sold : Nat, selling : Nat]]
    /\ mon.pc \in {"idle", "next", "asked", "priced", "stopped", "tranche"}
    /\ mon.todo \subseteq Trades
    /\ op.pc \in {"idle", "closing", "clearing"} /\ lock \in {"free", "monitor", "operator"}
    /\ price \in Levels /\ moves \in 0 .. MaxMoves /\ paper \in BOOLEAN

\* No trade sells contracts that were not bought: whatever the books of the
\* engine say after a restart, a lost answer or an unfilled entry, the
\* position check before each sale keeps the account from going short.
NeverOversold == \A t \in Trades : Position(t) >= 0

\* While the broker answers and no process ends, the contracts left of a
\* trade are those bought and not sent for sale, through targets, stops,
\* flattening, edited ladders and reconciled prices.
BooksAgree ==
    (risk.of \cap {"working", "refuse", "lost", "crash", "paper"} = {} /\ Free)
      => \A t \in Trades : mem[t].status # "none" => mem[t].left = Bought(t) - OnSale(t)

\* While nobody holds the lock the journal holds the open trades as they are
\* in memory, and no trade that is over comes back from it.
JournalRecovers ==
    Free => \A t \in Trades :
        /\ t \in active <=> Alive(disk[t])
        /\ t \in active => /\ disk[t].left = mem[t].left /\ disk[t].tier = mem[t].tier
                           /\ disk[t].pt = mem[t].pt /\ disk[t].stop = mem[t].stop

\* Every contract of an open trade has a profit target (the rounding of the
\* tiers leaves none over for after the last one).
NothingRides == "edit" \notin risk.of => \A t \in active : mem[t].pt # Never

\* A trade whose stop stays reached is closed, whatever other requests do.
StopHonoured ==
    \A t \in Trades :
        (t \in active /\ price <= mem[t].stop) ~> (t \notin active \/ price > mem[t].stop)

\* What the account and the engine's numbers are at every moment.
AccountSound == TypeOK /\ NeverOversold /\ BooksAgree

\* What the journal and the ladders keep of a trade at every moment.
TradesKept == JournalRecovers /\ NothingRides
=============================================================================
