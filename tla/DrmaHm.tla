------------------------------- MODULE DrmaHm -------------------------------
(***************************************************************************)
(* The DRMA_HM strategy: one thread that holds at most one trade in each   *)
(* of three sleeves (debit spreads "dir", credit spreads and condors       *)
(* "credit", index futures "fut"), a trade file per trade, a protective    *)
(* OCO order for a credit spread, the chase of a closing order, the phases *)
(* of the trading day, restarts, and the settlement by session cleanup.    *)
(*                                                                         *)
(* Quantity is one.  A price, a quote or an indicator is the choice it     *)
(* leads to.  The brokerage refuses a closing order while another closing  *)
(* order of the trade reserves the position.  MaxTrades, Rounds and        *)
(* DrmaFaults bound the run.                                                *)
(***************************************************************************)
EXTENDS Integers, FiniteSets

CONSTANTS MaxTrades,   \* bound on the trades
          Rounds,      \* max_attempts of a chase
          DrmaFaults,  \* bound on what goes wrong
          DrmaScenarios \* each the mode and what may go wrong in a run

ASSUME DrmaAssumption ==
  /\ {MaxTrades, Rounds} \subseteq Nat \ {0} /\ DrmaFaults \in Nat
  /\ UNION DrmaScenarios \subseteq
       {"paper", "switch", "slow", "refuse", "query", "deaf", "crash", "gap", "evening", "one"}

VARIABLES
  file,    \* the trade files
  pos,     \* _dir_, _credit_ and _futures_position_state
  sim,     \* _dir_ and _credit_options_trade_paper: mode of the sleeve's trade
  count,   \* _daily_dir_, _daily_non_dir_ and _daily_futures_signals
  wish,    \* paper mode of each sleeve, as the dashboard set it
  conf,    \* ... as the loop last applied it
  hour,    \* index into Phase
  s,       \* the strategy thread
  opening, oco, close,   \* orders of each trade
  owned,   \* what the account holds of each trade
  drmascene   \* the run's scenario and how much may still go wrong

drmavars == <<file, pos, sim, count, wish, conf, hour, s, opening, oco, close, owned, drmascene>>
orders == <<opening, oco, close, owned>>
memory == <<pos, sim, count, conf>>

Sleeves == {"dir", "credit", "fut"}
Biases == {"BULL", "BEAR"}
Trades == 1..MaxTrades
DrmaFault(f) == f \in drmascene.of /\ drmascene.left > 0 /\ drmascene' = [drmascene EXCEPT !.left = @ - 1]

\* get_session_phase, from one evening to the halt of the next day
Phase == <<"night", "night", "pre", "prep", "regular", "eod", "halt">>
Day(h) == IF h = 1 THEN 0 ELSE 1
Now == Phase[hour]

NoFile == [st |-> "none", sleeve |-> "dir", side |-> "BULL", paper |-> FALSE,
           late |-> FALSE, day |-> 0, oid |-> FALSE]
Off == [pc |-> "off", pass |-> "none", day |-> 0, todo |-> {}, seen |-> {},
        cur |-> 0, n |-> 0, plan |-> {}, bias |-> "BULL"]

\* dir_, non_dir_ and futures_max_daily_signals: 1, or out of reach as the default of 20 is
\* (0 is no limit)
Limit == IF "one" \in drmascene.of THEN 1 ELSE MaxTrades

Live == {t \in Trades : file[t].st \in {"open", "closing"}}
UsedTrades == {t \in Trades : file[t].st # "none" \/ opening[t] # "none"}
Next1 == Cardinality(UsedTrades) + 1

DrmaInit ==
  /\ file = [t \in Trades |-> NoFile]
  /\ pos = [x \in Sleeves |-> "flat"] /\ sim = [x \in Sleeves |-> FALSE]
  /\ count = [x \in Sleeves |-> 0]
  /\ drmascene \in [of : DrmaScenarios, left : {DrmaFaults}]
  /\ wish \in IF "paper" \in drmascene.of THEN [Sleeves -> {TRUE}] ELSE [Sleeves -> {FALSE}]
  /\ conf = wish /\ hour = (IF "evening" \in drmascene.of THEN 1 ELSE 4) /\ s = Off
  /\ opening = [t \in Trades |-> "none"] /\ oco = opening /\ close = opening
  /\ owned = [t \in Trades |-> 0]

-----------------------------------------------------------------------------
(* Start, and the top of the loop. *)

\* Mutant: only the files in active/ are counted.
RecountActive(d) == [x \in Sleeves |-> Cardinality({t \in Live : file[t].sleeve = x /\ file[t].day = d})]

\* _recount_daily_signals: active and history files of the day
Recount(d) ==
  [x \in Sleeves |-> Cardinality({t \in Trades :
     file[t].st # "none" /\ file[t].sleeve = x /\ file[t].day = d})]

\* run, up to the list of files to resume
Start ==
  /\ s.pc = "off"
  /\ s' = [Off EXCEPT !.pc = "work", !.pass = "resume", !.day = Day(hour), !.todo = Live]
  /\ pos' = [x \in Sleeves |-> "flat"] /\ count' = Recount(Day(hour)) /\ conf' = wish
  /\ UNCHANGED <<file, sim, wish, hour, orders, drmascene>>

Goto(pc) == s' = [s EXCEPT !.pc = pc]
ToTop == s' = [Off EXCEPT !.pc = "top", !.day = s.day]
Pass(p, todo) == s' = [s EXCEPT !.pc = "work", !.pass = p, !.todo = todo, !.seen = {}, !.day = Day(hour)]

\* the top of the loop: rollover and settings
Rolled == /\ s.pc = "top"
          /\ count' = IF Day(hour) # s.day THEN Recount(Day(hour)) ELSE count
          /\ conf' = wish
          /\ UNCHANGED <<file, pos, sim, wish, hour, orders, drmascene>>

\* phases that only flatten
Halt == Rolled /\ Now \in {"halt", "pre"} /\ Pass(Now, Live)

\* the other phases, when there are bars: the trades are managed
Bars == /\ Rolled /\ Now \notin {"halt", "pre"}
        /\ Pass(CASE Now = "prep" -> "warmup" [] Now = "regular" -> "manage" [] OTHER -> Now, Live)

\* no bars: the iteration ends here, whatever is open
NoBars == /\ Rolled /\ Now \notin {"halt", "pre"} /\ "gap" \in drmascene.of
          /\ s' = [s EXCEPT !.day = Day(hour)]

-----------------------------------------------------------------------------
(* A pass over the trade files. *)

\* Mutant: only open trades give their sleeve a position again.
RegainsOpen(f) == f.st = "open"

\* which files the resume makes positions of
Regains(f) == f.st \in {"open", "closing"}

\* the resume knows two sides: a condor becomes a bear
Resumed(t) ==
  LET f == file[t] IN
  IF s.pass = "resume" /\ Regains(f)
  THEN /\ pos' = [pos EXCEPT ![f.sleeve] = IF f.side = "BULL" THEN "BULL" ELSE "BEAR"]
       /\ sim' = [sim EXCEPT ![f.sleeve] = f.paper]
  ELSE /\ sim' = IF s.pass \in {"manage", "warmup"} /\ f.st \in {"open", "closing"}
                 THEN [sim EXCEPT ![f.sleeve] = f.paper] ELSE sim
       /\ UNCHANGED pos

\* Mutant: at the end of the day a closing trade is left to itself.
WorkEodOpenOnly(t) ==
  LET f == file[t] IN
  CASE f.st = "open" /\ s.pass \in {"halt", "eod"} -> "exit"
    [] f.st = "open" /\ s.pass \in {"pre", "prep"} /\ f.sleeve = "fut" -> "exit"
    [] f.st = "open" /\ s.pass \in {"manage", "warmup", "resume"} -> "manage"
    [] f.st = "open" /\ s.pass = "night" /\ f.sleeve = "fut" -> "manage"
    [] f.st = "closing" /\ f.oid /\ s.pass \in {"manage", "warmup", "prep", "resume"} -> "chase"
    [] OTHER -> "none"

\* what the pass does with a trade: _exit_trade, _manage_open_trade or
\* _manage_closing_trade, which does nothing without an order to follow
Work(t) ==
  LET f == file[t] IN
  CASE f.st = "open" /\ s.pass \in {"halt", "eod"} -> "exit"
    [] f.st = "open" /\ s.pass \in {"pre", "prep"} /\ f.sleeve = "fut" -> "exit"
    [] f.st = "open" /\ s.pass \in {"manage", "warmup", "resume"} -> "manage"
    [] f.st = "open" /\ s.pass = "night" /\ f.sleeve = "fut" -> "manage"
    [] f.st = "closing" /\ f.oid /\ s.pass \in {"manage", "warmup", "prep", "resume", "eod"} -> "chase"
    [] OTHER -> "none"

Doing(t, work) == s.pc = "work" /\ t \in s.todo /\ Work(t) = work
Seen(t) == IF file[t].st \in {"open", "closing"} THEN s.seen \cup {file[t].sleeve} ELSE s.seen
Done(t) == [s EXCEPT !.pc = "work", !.todo = @ \ {t}, !.seen = Seen(t), !.cur = 0, !.n = 0]
Forth(t, pc, n) == [s EXCEPT !.pc = pc, !.todo = @ \ {t}, !.seen = Seen(t), !.cur = t, !.n = n]

\* _finalize_closed_trade
Finalized(t) ==
  /\ file' = [file EXCEPT ![t].st = "closed"]
  /\ pos' = [pos EXCEPT ![file[t].sleeve] = "flat"]
  /\ sim' = [sim EXCEPT ![file[t].sleeve] = FALSE]
  /\ s' = Done(t)

Leave(t) ==
  /\ Doing(t, "none")
  /\ Resumed(t) /\ s' = Done(t)
  /\ UNCHANGED <<file, count, wish, conf, hour, orders, drmascene>>

\* cutoffs that _manage_open_trade looks up on its own
Forced(f) == \/ Now \in {"eod", "halt"}
             \/ f.sleeve = "fut" /\ f.late /\ Now \in {"pre", "prep"}

\* _manage_open_trade without an exit
Stay(t) ==
  /\ Doing(t, "manage")
  /\ ~Forced(file[t])
  /\ IF oco[t] = "filled" THEN DrmaFault("query") ELSE UNCHANGED drmascene
  /\ Resumed(t) /\ s' = Done(t)
  /\ UNCHANGED <<file, count, wish, conf, hour, orders>>

\* the OCO order has closed the spread
OcoDone(t) ==
  /\ Doing(t, "manage")
  /\ oco[t] = "filled"
  /\ Finalized(t)
  /\ UNCHANGED <<count, wish, conf, hour, orders, drmascene>>

\* an exit of a paper trade is filled on paper
PaperExit(t) ==
  /\ Doing(t, "manage") \/ Doing(t, "exit")
  /\ file[t].paper
  /\ Finalized(t)
  /\ UNCHANGED <<count, wish, conf, hour, orders, drmascene>>

\* a market order, and the trade is closed whatever becomes of that
FuturesExit(t) ==
  /\ Doing(t, "manage") \/ Doing(t, "exit")
  /\ file[t].sleeve = "fut" /\ ~file[t].paper
  /\ \/ close' = [close EXCEPT ![t] = "working"] /\ UNCHANGED drmascene
     \/ DrmaFault("refuse") /\ UNCHANGED close
  /\ Finalized(t)
  /\ UNCHANGED <<count, wish, conf, hour, opening, oco, owned>>

Asked(order) == IF order = "working" THEN "canceling" ELSE order

\* an exit signal: ask to cancel the OCO order, without looking at the answer
SignalExit(t) ==
  /\ Doing(t, "manage")
  /\ file[t].sleeve # "fut" /\ ~file[t].paper
  /\ IF oco[t] = "filled" THEN DrmaFault("query") /\ UNCHANGED oco
     ELSE \/ oco' = [oco EXCEPT ![t] = Asked(@)] /\ UNCHANGED drmascene
          \/ DrmaFault("deaf") /\ UNCHANGED oco
  /\ Resumed(t) /\ s' = Forth(t, "send", 0)
  /\ UNCHANGED <<file, count, wish, conf, hour, opening, close, owned>>

\* the cutoffs of the loop leave the OCO order alone
CutoffExit(t) ==
  /\ Doing(t, "exit")
  /\ file[t].sleeve # "fut" /\ ~file[t].paper
  /\ s' = Forth(t, "send", 0)
  /\ UNCHANGED <<file, memory, wish, hour, orders, drmascene>>

\* _manage_closing_trade: ask first, then go on with the chase
ClosingChase(t) ==
  /\ Doing(t, "chase")
  /\ \/ close[t] = "filled" /\ Finalized(t) /\ UNCHANGED drmascene
     \/ /\ IF close[t] = "filled" THEN DrmaFault("query") ELSE UNCHANGED drmascene
        /\ Resumed(t) /\ s' = Forth(t, "poll", 1) /\ UNCHANGED file
  /\ UNCHANGED <<count, wish, conf, hour, orders>>

-----------------------------------------------------------------------------
(* _chase_options_spread_close of the trade s.cur. *)

Chasing(pc) == s.pc = pc /\ UNCHANGED <<count, wish, conf, hour, opening, oco, owned>>

\* the position check of place_multi_leg_order, and the brokerage's own
Flat(t) == owned[t] = 0
Reserved(t) == {oco[t], close[t]} \cap {"working", "canceling"} # {}

\* the trade stays in CLOSING, with or without an order to follow
Pending(t, oid) ==
  /\ file' = [file EXCEPT ![t].st = "closing", ![t].oid = oid]
  /\ s' = [s EXCEPT !.pc = "work", !.cur = 0, !.n = 0] /\ UNCHANGED <<pos, sim>>

ChaseSend ==
  LET t == s.cur IN
  /\ Chasing("send")
  /\ \/ Flat(t) /\ Finalized(t) /\ UNCHANGED <<close, drmascene>>
     \/ ~Flat(t) /\ Reserved(t) /\ Pending(t, FALSE) /\ UNCHANGED <<close, drmascene>>
     \/ ~Flat(t) /\ DrmaFault("refuse") /\ Pending(t, FALSE) /\ UNCHANGED close
     \/ /\ ~Flat(t) /\ ~Reserved(t)
        /\ close' = [close EXCEPT ![t] = "working"]
        /\ s' = [s EXCEPT !.pc = "poll", !.n = 1] /\ UNCHANGED <<file, pos, sim, drmascene>>

\* Mutant: an order that no longer works counts as filled.
DoneWhenGone(t) == close[t] # "working"

DoneWhenFilled(t) == close[t] = "filled"

\* the status, and the cancel request when it is not filled
ChasePoll ==
  LET t == s.cur IN
  /\ Chasing("poll")
  /\ \/ DoneWhenFilled(t) /\ Finalized(t) /\ UNCHANGED <<close, drmascene>>
     \/ /\ close[t] = "filled" /\ DrmaFault("query")
        /\ Goto("recheck") /\ UNCHANGED <<file, pos, sim, close>>
     \/ /\ close[t] # "filled"
        /\ \/ close' = [close EXCEPT ![t] = Asked(@)] /\ UNCHANGED drmascene
           \/ DrmaFault("deaf") /\ UNCHANGED close
        /\ Goto("recheck") /\ UNCHANGED <<file, pos, sim>>

\* Mutant: one round too many.
AttemptsLate == s.n > Rounds
AttemptsOver == s.n = Rounds

NextRound == s' = [s EXCEPT !.pc = IF AttemptsOver THEN "final" ELSE "poll", !.n = @ + 1]

\* a second later: filled after all, or a new order at a new price
ChaseRecheck ==
  LET t == s.cur IN
  /\ Chasing("recheck")
  /\ \/ DoneWhenFilled(t) /\ Finalized(t) /\ UNCHANGED <<close, drmascene>>
     \/ /\ close[t] = "filled" /\ DrmaFault("query")   \* then the position is gone
        /\ Finalized(t) /\ UNCHANGED close
     \/ ~DoneWhenFilled(t) /\ Flat(t) /\ Finalized(t) /\ UNCHANGED <<close, drmascene>>
     \/ /\ ~DoneWhenFilled(t) /\ ~Flat(t)
        /\ \/ Reserved(t) /\ UNCHANGED <<close, drmascene>>
           \/ DrmaFault("refuse") /\ UNCHANGED close
           \/ ~Reserved(t) /\ close' = [close EXCEPT ![t] = "working"] /\ UNCHANGED drmascene
        /\ NextRound /\ UNCHANGED <<file, pos, sim>>

ChaseFinal ==
  LET t == s.cur IN
  /\ Chasing("final")
  /\ \/ DoneWhenFilled(t) /\ Finalized(t) /\ UNCHANGED drmascene
     \/ close[t] = "filled" /\ DrmaFault("query") /\ Pending(t, TRUE)
     \/ ~DoneWhenFilled(t) /\ Pending(t, TRUE) /\ UNCHANGED drmascene
  /\ UNCHANGED close

-----------------------------------------------------------------------------
(* After the pass: positions from what was seen, then the entries. *)

Empty(x) == x \notin s.seen /\ (s.pass \in {"manage", "warmup"} \/ (s.pass = "night" /\ x = "fut"))

MayEnter(x) == (Empty(x) \/ pos[x] =  "flat") /\ count[x] < Limit

\* Mutant: the settings say in which mode the other sleeve's trade is.
ModeOfSettings(x) == conf[x]

\* the mode in which the open trade of a sleeve was entered
ModeOf(x) == sim[x]

\* dir_block_if_same_side_nondir, in both directions
SameSide(mine, other, bias) ==
  /\ ~Empty(other) /\ pos[other] \in {bias, "NEUTRAL"} /\ ModeOf(other) = conf[mine]

\* an indicator snapshot leads to entries in the sleeves x, with the bias b
Signal(x, b) ==
  /\ \A i \in x : MayEnter(i)
  /\ Cardinality(UsedTrades) + Cardinality(x) <= MaxTrades   \* bound
  /\ IF s.pass = "night" THEN x = {"fut"} /\ b \in Biases
     ELSE \/ x = {"credit"} /\ b = "NEUTRAL"
          \/ x = {"credit"} /\ b \in Biases /\ ~SameSide("credit", "dir", b)
          \/ /\ x # {} /\ x \subseteq {"dir", "fut"} /\ b \in Biases
             /\ "dir" \in x => ~SameSide("dir", "credit", b)

\* positions from what was seen, the second look of the warm-up, or an entry
\* (the overnight branch of the loop, _evaluate_and_enter)
PassEnds ==
  /\ s.pc = "work" /\ s.todo = {}
  /\ pos' = [x \in Sleeves |-> IF Empty(x) THEN "flat" ELSE pos[x]]
  /\ sim' = [x \in Sleeves |-> sim[x] /\ ~Empty(x)]
  /\ IF s.pass = "warmup" THEN Pass("prep", Live)
     ELSE \/ ToTop
          \/ /\ s.pass \in {"night", "manage"}
             /\ \E x \in SUBSET Sleeves, b \in Biases \cup {"NEUTRAL"} :
                  Signal(x, b) /\ s' = [s EXCEPT !.pc = "place", !.seen = {}, !.plan = x, !.bias = b]
  /\ UNCHANGED <<file, count, wish, conf, hour, orders, drmascene>>

\* the trade that is entered
Entered == IF s.cur = 0 THEN Next1 ELSE s.cur

\* spreads before futures
Turn == IF "dir" \in s.plan THEN "dir" ELSE IF "credit" \in s.plan THEN "credit" ELSE "fut"
Planned(plan) == IF plan = {} THEN ToTop ELSE s' = [s EXCEPT !.pc = "place", !.plan = plan, !.cur = 0]

Opening(x) == s.pc = "place" /\ Turn = x /\ UNCHANGED <<file, memory, wish, hour, oco, close>>
Bought(order, n) ==
  /\ opening' = [opening EXCEPT ![Next1] = order] /\ owned' = [owned EXCEPT ![Next1] = n]
  /\ s' = [s EXCEPT !.pc = "record", !.cur = Next1]

\* on paper, filled at once, still working, or refused
Ordered(x) ==
  \/ conf[x] /\ Goto("record") /\ UNCHANGED <<opening, owned, drmascene>>
  \/ ~conf[x] /\ Bought("filled", 1) /\ UNCHANGED drmascene
  \/ ~conf[x] /\ DrmaFault("slow") /\ Bought("working", 0)
Refused(x) == ~conf[x] /\ DrmaFault("refuse") /\ UNCHANGED <<opening, owned>>

\* the opening orders of _enter_directional_trade and _enter_directional_futures_trade
PlaceDir == Opening("dir") /\ (Ordered("dir") \/ (Refused("dir") /\ Planned(s.plan \ {"dir"})))
PlaceFut == Opening("fut") /\ (Ordered("fut") \/ (Refused("fut") /\ Planned({})))
\* ... of _enter_non_directional_trade, and of _enter_iron_condor, which records
\* a condor that was refused
PlaceCredit ==
  /\ Opening("credit")
  /\ \/ Ordered("credit")
     \/ Refused("credit") /\ IF s.bias = "NEUTRAL" THEN Goto("record") ELSE Planned({})

\* the trade file, the position and the counter
RecordTrade(x) ==
  /\ s.pc = "record" /\ Turn = x
  /\ file' = [file EXCEPT ![Entered] =
       [st |-> "open", sleeve |-> x, side |-> s.bias, paper |-> conf[x],
        late |-> x = "fut" /\ Now = "night", day |-> Day(hour), oid |-> FALSE]]
  /\ pos' = [pos EXCEPT ![x] = s.bias] /\ sim' = [sim EXCEPT ![x] = conf[x]]
  /\ count' = [count EXCEPT ![x] = @ + 1]
  /\ Planned(s.plan \ {x})
  /\ UNCHANGED <<wish, conf, hour, opening, close, owned>>

RecordDir == RecordTrade("dir") /\ UNCHANGED <<oco, drmascene>>
RecordFut == RecordTrade("fut") /\ UNCHANGED <<oco, drmascene>>
RecordCondor == s.bias = "NEUTRAL" /\ RecordTrade("credit") /\ UNCHANGED <<oco, drmascene>>

\* a credit spread that is held gets its OCO order
RecordCredit ==
  /\ s.bias # "NEUTRAL" /\ RecordTrade("credit")
  /\ IF owned[Entered] = 0 THEN UNCHANGED <<oco, drmascene>>
     ELSE \/ oco' = [oco EXCEPT ![Entered] = "working"] /\ UNCHANGED drmascene
          \/ DrmaFault("refuse") /\ UNCHANGED oco

-----------------------------------------------------------------------------
(* The brokerage, the clock, the dashboard, restarts, session cleanup. *)

Outer == UNCHANGED <<file, memory, wish, hour, s>>

OpenFill(t) ==
  /\ opening[t] = "working" /\ hour < 7
  /\ opening' = [opening EXCEPT ![t] = "filled"] /\ owned' = [owned EXCEPT ![t] = 1]
  /\ UNCHANGED <<oco, close, drmascene>> /\ Outer

OcoFill(t) ==
  /\ oco[t] \in {"working", "canceling"} /\ owned[t] = 1 /\ hour < 7
  /\ oco' = [oco EXCEPT ![t] = "filled"] /\ owned' = [owned EXCEPT ![t] = 0]
  /\ UNCHANGED <<opening, close, drmascene>> /\ Outer

CloseFill(t) ==
  /\ close[t] \in {"working", "canceling"} /\ owned[t] = 1
  /\ close' = [close EXCEPT ![t] = "filled"] /\ owned' = [owned EXCEPT ![t] = 0]
  /\ UNCHANGED <<opening, oco, drmascene>> /\ Outer

Cancelled(t) ==
  /\ \/ oco[t] = "canceling" /\ oco' = [oco EXCEPT ![t] = "cancelled"] /\ UNCHANGED close
     \/ close[t] = "canceling" /\ close' = [close EXCEPT ![t] = "cancelled"] /\ UNCHANGED oco
  /\ UNCHANGED <<opening, owned, drmascene>> /\ Outer

\* only where the thread looks at the clock next
Tick == /\ hour < 7 /\ s.pc \in {"off", "top", "work", "record"} /\ hour' = hour + 1
        /\ UNCHANGED <<file, memory, wish, s, orders, drmascene>>

\* the dashboard; the loop looks at the settings at its top only
Switch == /\ DrmaFault("switch") /\ s.pc \in {"off", "top"}
          /\ \E x \in {"dir", "credit"} : wish' = [wish EXCEPT ![x] = ~@]
          /\ UNCHANGED <<file, memory, hour, s, orders>>

\* at the other points the files and the orders are as at one of these
Crash == /\ s.pc \in {"work", "record", "send", "poll", "recheck"} /\ DrmaFault("crash") /\ s' = Off
         /\ UNCHANGED <<file, memory, wish, hour, orders>>

\* settle_open_trade of the EOD cleanup: 0DTE options end in cash
SettleTrade(t) ==
  /\ Now = "halt" /\ s.pc \in {"off", "top"} /\ t \in Live
  /\ file' = [file EXCEPT ![t].st = "closed"]
  /\ IF file[t].sleeve = "fut" THEN UNCHANGED orders
     ELSE /\ owned' = [owned EXCEPT ![t] = 0]
          /\ opening' = [opening EXCEPT ![t] = IF @ = "working" THEN "expired" ELSE @]
          /\ oco' = [oco EXCEPT ![t] = IF @ = "filled" THEN @ ELSE "expired"]
          /\ close' = [close EXCEPT ![t] = IF @ = "filled" THEN @ ELSE "expired"]
  /\ UNCHANGED <<memory, wish, hour, s, drmascene>>

Handle(t) == \/ Leave(t) \/ Stay(t) \/ OcoDone(t) \/ PaperExit(t) \/ FuturesExit(t)
             \/ SignalExit(t) \/ CutoffExit(t) \/ ClosingChase(t)
Chase == ChaseSend \/ ChasePoll \/ ChaseRecheck \/ ChaseFinal
Thread == Start \/ Halt \/ Bars \/ (\E t \in Trades : Handle(t)) \/ PassEnds \/ Chase
          \/ PlaceDir \/ PlaceFut \/ PlaceCredit
          \/ RecordDir \/ RecordFut \/ RecordCredit \/ RecordCondor
World == \/ \E t \in Trades : OpenFill(t) \/ OcoFill(t) \/ CloseFill(t) \/ Cancelled(t) \/ SettleTrade(t)
         \/ Tick \/ Switch \/ Crash

DrmaNext == Thread \/ NoBars \/ World

\* the thread goes on, and the files with the bars are written again and again
DrmaSpec == DrmaInit /\ [][DrmaNext]_drmavars /\ WF_drmavars(Thread) /\ SF_drmavars(Bars)

-----------------------------------------------------------------------------
(* Properties. *)

\* Types and ranges of DRMAHMStrategy's fields, the trade files and the orders.
DrmaTypeOK ==
  /\ \A t \in Trades : file[t].st \in {"none", "open", "closing", "closed"} /\ owned[t] \in {0, 1}
  /\ pos \in [Sleeves -> {"flat", "BULL", "BEAR", "NEUTRAL"}] /\ sim \in [Sleeves -> BOOLEAN]
  /\ count \in [Sleeves -> 0..MaxTrades] /\ hour \in 1..7
  /\ s.n \in 0..Rounds + 1 /\ s.cur \in 0..MaxTrades /\ s.todo \subseteq Trades
  /\ \A t \in Trades : {opening[t], oco[t], close[t]} \subseteq
       {"none", "working", "canceling", "cancelled", "filled", "expired"}

\* A sleeve never has two trades that are open or closing, in the files and so
\* across restarts, settings and days (_dir_, _credit_, _futures_position_state).
OneTradePerSleeve == \A x \in Sleeves : Cardinality({t \in Live : file[t].sleeve = x}) <= 1

\* A debit and a credit spread on the same side and in the same mode are never
\* both in the book (dir_block_if_same_side_nondir), whatever the settings are now.
NoSameSide ==
  \A t, u \in Live :
    ~ /\ file[t].sleeve = "dir" /\ file[u].sleeve = "credit"
      /\ file[t].side = file[u].side /\ file[t].paper = file[u].paper

\* No sleeve enters more trades on a day than its limit, restarts included
\* (_recount_daily_signals).
DailyLimits ==
  \A x \in Sleeves, d \in {0, 1} :
    Cardinality({t \in Trades : file[t].st # "none" /\ file[t].sleeve = x /\ file[t].day = d}) <= Limit

\* A live spread whose file says closed is not in the account, and none of its
\* orders works.  Not when opening orders wait for their fill.
ClosedIsFlat ==
  "slow" \notin drmascene.of =>
    \A t \in Trades : file[t].st = "closed" /\ file[t].sleeve # "fut" =>
      owned[t] = 0 /\ ~Reserved(t)

\* A closing order that filled is noticed before the halt, at whatever point of
\* the chase it filled (_manage_closing_trade).
FilledIsBooked ==
  LET Unnoticed == {t \in Trades : file[t].st = "closing" /\ file[t].oid /\ close[t] = "filled"}
  IN  Unnoticed # {} ~> (Unnoticed = {} \/ Now = "halt")

\* What holds of the sleeves and the account at every moment, over days, modes
\* and restarts.
SleevesSound == DrmaTypeOK /\ OneTradePerSleeve /\ NoSameSide /\ DailyLimits /\ ClosedIsFlat
=============================================================================
