------------------------------ MODULE IronFly ------------------------------
(***************************************************************************)
(* The iron-fly strategy (strategies/iron_fly): a sweep thread that marks   *)
(* the open flies, opens the first one and adds others as the price moves,  *)
(* a spot thread that cuts a fly beyond its break-even points, the book     *)
(* both share behind one lock that is not reentrant, and the orders they    *)
(* send through the TastyTrade adapter (or the paper executor).             *)
(*                                                                          *)
(* Prices, strikes and credits count half strike intervals, 2.5 points.     *)
(* Quotes are free choices: which wings have one, whether the mark of a fly *)
(* suppresses its cut, whether a risk cap blocks an add.                    *)
(***************************************************************************)
EXTENDS Integers, FiniteSets, FiniteSetsExt

CONSTANTS MaxFlies,     \* max_flies_per_day
          Spots,        \* prices of the index
          Widths,       \* candidate_widths
          FirstWidth,   \* initial_wing_width
          Credits,      \* credits at which an order fills
          MaxAttempts,  \* entry_max_attempts
          MaxMoves,     \* bound on the price moves
          MaxFaults,    \* bound on what goes wrong
          Scenarios,    \* each the mode and what may go wrong in a run
          NoFly

ASSUME IronFlyAssumption ==
  /\ {MaxFlies, MaxMoves, MaxFaults} \subseteq Nat
  /\ {MaxAttempts, FirstWidth} \union Widths \subseteq Nat \ {0}
  /\ Spots \union Credits \subseteq Int
  /\ NoFly \notin 1..MaxFlies

VARIABLES book,     \* IronFlyBook.flies in memory
          disk,     \* the book as last saved
          held,     \* flies of this entry that the account holds
          entry,    \* the entry order of the fly that is being opened
          stray,    \* entry orders that were given up and may still fill
          exit,     \* the closing order of a fly
          sweep,    \* sweep thread: [pc, fly, attempt]
          cutter,   \* spot thread: [pc, fly, todo]
          lock,     \* holder of strategy._lock
          spot, moves,
          clock,    \* before or after the close of the market
          paused,   \* config.pause_adds
          gated,    \* new-risk gate closed
          budget    \* the run's scenario and how much may still go wrong

vars == <<book, disk, held, entry, stray, exit, sweep, cutter, lock, spot, moves,
          clock, paused, gated, budget>>

Flies == 1..MaxFlies
Fault(f) == f \in budget.of /\ budget.left > 0 /\ budget' = [budget EXCEPT !.left = @ - 1]
Paper == "paper" \in budget.of

Active == {f \in Flies : book[f].st \in {"OPEN", "CLOSING", "OPENING"}}
Open == {f \in Flies : book[f].st \in {"OPEN", "CLOSING"}}
Used == {f \in Flies : book[f].st # "none"}

Blank == [st |-> "none", center |-> 0, cw |-> 0, pw |-> 0, credit |-> 0]
Idle == [pc |-> "idle", fly |-> NoFly, attempt |-> 0]
Looking == [pc |-> "idle", fly |-> NoFly, todo |-> {}]

Init ==
  /\ book = [f \in Flies |-> Blank] /\ disk = book
  /\ held = [f \in Flies |-> 0] /\ stray = held
  /\ entry = [f \in Flies |-> "none"] /\ exit = entry
  /\ sweep = Idle /\ cutter = Looking /\ lock = "free"
  /\ spot \in Spots /\ moves = 0 /\ clock = "day" /\ paused = FALSE /\ gated = FALSE
  /\ budget \in [of : Scenarios, left : {MaxFaults}]

-----------------------------------------------------------------------------
(* Rules. *)

Dist(a, b) == IF a < b THEN b - a ELSE a - b
Breached(f) == Dist(spot, book[f].center) > book[f].credit

\* round(spot / 5) * 5: a price between two strikes goes to the even one
Atm(s) == LET k == s \div 2 IN IF s % 2 = 1 /\ k % 2 = 1 THEN 2 * k + 2 ELSE 2 * k

\* evaluate_add_trigger: [threshold, offset] by the credit of the closest fly
Trigger(f, tight) ==
  CASE tight -> [far |-> 1, offset |-> 2]
    [] ~tight /\ book[f].credit > 8 -> [far |-> 6, offset |-> 8]
    [] ~tight /\ book[f].credit \in 6..8 -> [far |-> 4, offset |-> 6]
    [] OTHER -> [far |-> 3, offset |-> 4]

Closest(f) == \A g \in Open : Dist(spot, book[f].center) <= Dist(spot, book[g].center)

LongAt(strike) == \E f \in Active : strike \in {book[f].center + book[f].cw, book[f].center - book[f].pw}
ShortAt(strike) == \E f \in Active : book[f].center = strike

\* next_center before its checks
Candidate(f, offset) ==
  LET c == book[f].center
      up == spot > c
      near == Atm(spot)
  IN  IF Dist(spot, c) < offset + 2 THEN (IF up THEN c + offset ELSE c - offset)
      ELSE IF up /\ near < spot THEN near + 2
      ELSE IF ~up /\ near > spot THEN near - 2
      ELSE near

\* Mutant: the new short strikes are not compared with the long ones.
FreeCenterShort(c) == \A f \in Open : book[f].center # c

\* next_center: nothing is opened twice, no strike is shorted that the book is long
FreeCenter(c) == (\A f \in Open : book[f].center # c) /\ ~LongAt(c)

\* Mutant: the call wing follows the put wing unchecked.
WingsSymmetric(c) == {w \in Widths \X Widths : w[1] = w[2] /\ ~ShortAt(c - w[2])}

\* pick_widths: wings <<call, put>> that are long on no strike the book is short
Wings(c) ==
  {w \in Widths \X Widths : ~ShortAt(c - w[2]) /\ ~ShortAt(c + w[1])}

-----------------------------------------------------------------------------
(* The sweep thread. *)

\* _save_state; the file matters where a new process reads it
Saved(b) == IF "crash" \in budget.of THEN b ELSE disk

Quiet == UNCHANGED <<held, entry, stray, exit, cutter, spot, moves, clock, gated>>

\* _submit_fly, with the paper executor's fill
Submitted(c, w) ==
  LET f == Cardinality(Used) + 1
      New(st, credit) == book' = [book EXCEPT ![f] =
        [st |-> st, center |-> c, cw |-> w[1], pw |-> w[2], credit |-> credit]]
      Released == sweep' = [pc |-> "save", fly |-> NoFly, attempt |-> 0] /\ lock' = "free"
  IN
  /\ f \in Flies
  /\ \/ "approve" \in budget.of /\ New("PENDING_APPROVAL", 0) /\ Released /\ UNCHANGED held
     \/ Paper /\ Released /\ held' = [held EXCEPT ![f] = 1]
        /\ \E credit \in Credits : New("OPEN", credit)
     \/ budget.of \cap {"approve", "paper"} = {} /\ New("OPENING", 0) /\ UNCHANGED held
        /\ sweep' = [pc |-> "send", fly |-> f, attempt |-> 0] /\ lock' = "sweep"

May == sweep.pc = "idle" /\ lock = "free" /\ clock # "closed"

\* a cut inside the sweep: _cut_fly waits for the lock that the sweep itself
\* holds, so no step of this thread follows
CutsInside ==
  /\ sweep' = [sweep EXCEPT !.pc = "cutting"] /\ lock' = "sweep"
  /\ UNCHANGED <<book, disk, paused>> /\ Quiet

\* _run_sweep_cycle: VIX, rapid move, day target or day loss flatten the book
SweepBreaker ==
  /\ May
  /\ Fault("breaker")
  /\ IF Open # {} THEN CutsInside
     ELSE /\ paused' = TRUE /\ sweep' = [sweep EXCEPT !.pc = "save"]
          /\ UNCHANGED <<book, disk, lock>> /\ Quiet

\* _evaluate_open_flies: the sweep meets a breach that no mark suppresses
SweepCut ==
  /\ May
  /\ \E f \in Open : book[f].st = "OPEN" /\ Breached(f)
  /\ Fault("sweepcut")
  /\ CutsInside

\* adds that are switched off, capped or too late; or nothing to do
SweepNothing ==
  /\ May
  /\ sweep' = [sweep EXCEPT !.pc = "save"]
  /\ UNCHANGED <<book, disk, paused, lock, budget>> /\ Quiet

MayAdd == May /\ ~paused

\* _plan_and_open_initial_fly, also when the book is flat again
SweepFirst ==
  /\ MayAdd
  /\ Open = {}
  /\ Submitted(Atm(spot), <<FirstWidth, FirstWidth>>)
  /\ UNCHANGED <<disk, paused, budget, entry, stray, exit, cutter, spot, moves, clock, gated>>

\* next_center and _plan_and_open_add_fly
SweepAdd ==
  /\ MayAdd
  /\ \E f \in Open, tight \in BOOLEAN :
       LET rule == Trigger(f, tight)
           c == Candidate(f, rule.offset) IN
       /\ Closest(f)
       /\ Dist(spot, book[f].center) > rule.far
       /\ FreeCenter(c)
       /\ \E w \in Wings(c) : Submitted(c, w)
  /\ UNCHANGED <<disk, paused, budget, entry, stray, exit, cutter, spot, moves, clock, gated>>

Sending == sweep.pc = "send"
OfOpening == UNCHANGED <<disk, cutter, spot, moves, clock, paused, gated, exit>>

\* the fly is recorded and the lock given back
Ends(f, st, credit) ==
  /\ book' = [book EXCEPT ![f].st = st, ![f].credit = credit]
  /\ sweep' = [pc |-> "save", fly |-> NoFly, attempt |-> 0] /\ lock' = "free"

Again == sweep' = [sweep EXCEPT !.pc = "send", !.attempt = @ + 1] /\ UNCHANGED <<book, lock>>

\* an order that may still fill is followed no longer
GivenUp(f) ==
  /\ stray' = [stray EXCEPT ![f] = @ + 1]
  /\ entry' = [entry EXCEPT ![f] = "none"]

\* BrokerExecutor.open_fly: place the next order of the chase
OpenSend ==
  LET f == sweep.fly IN
  /\ Sending
  /\ sweep.attempt < MaxAttempts
  /\ ~gated /\ clock # "closed"
  /\ entry' = [entry EXCEPT ![f] = "working"]
  /\ sweep' = [sweep EXCEPT !.pc = "poll"]
  /\ UNCHANGED <<book, lock, held, stray, budget>> /\ OfOpening

\* ... refused, or no attempt or no time left
OpenGivesUp ==
  LET f == sweep.fly IN
  /\ Sending
  /\ \/ (sweep.attempt > 0 \/ gated \/ clock = "closed") /\ UNCHANGED budget
     \/ Fault("refuse")
  /\ Ends(f, "FAILED", 0)
  /\ UNCHANGED <<held, entry, stray>> /\ OfOpening

\* the status after entry_wait_s: filled, rejected, or to be cancelled
OpenPoll ==
  LET f == sweep.fly IN
  /\ sweep.pc = "poll"
  /\ \/ /\ entry[f] = "filled"
        /\ \E credit \in Credits : Ends(f, "OPEN", credit)
        /\ UNCHANGED <<entry, budget, stray>>
     \/ /\ entry[f] = "rejected"
        /\ IF sweep.attempt >= 1 THEN Ends(f, "FAILED", 0) ELSE Again
        /\ UNCHANGED <<entry, budget, stray>>
     \/ /\ entry[f] = "working"   \* get_order_status reports its own failure as 'rejected'
        /\ Fault("query")
        /\ GivenUp(f)
        /\ IF sweep.attempt >= 1 THEN Ends(f, "FAILED", 0) ELSE Again
     \/ /\ entry[f] \in {"working", "cancelled"}
        /\ entry' = [entry EXCEPT ![f] = IF @ = "working" THEN "canceling" ELSE @]
        /\ sweep' = [sweep EXCEPT !.pc = "after"]
        /\ UNCHANGED <<book, lock, budget, stray>>
  /\ UNCHANGED held /\ OfOpening

\* Mutant: the status is not read again after the cancel.
OpenAfterUnread ==
  LET f == sweep.fly IN
  /\ sweep.pc = "after"
  /\ entry[f] \in {"filled", "cancelled"}
  /\ Again
  /\ UNCHANGED <<held, entry, stray, budget>> /\ OfOpening

\* the status one second after the cancel, whatever became of that
OpenAfterCancel ==
  LET f == sweep.fly IN
  /\ sweep.pc = "after"
  /\ \/ /\ entry[f] = "filled"
        /\ \E credit \in Credits : Ends(f, "OPEN", credit)
        /\ UNCHANGED <<entry, stray, budget>>
     \/ /\ entry[f] = "cancelled"
        /\ Again
        /\ UNCHANGED <<entry, stray, budget>>
     \/ /\ entry[f] = "canceling"
        /\ Fault("slow")
        /\ GivenUp(f)
        /\ Again
  /\ UNCHANGED held /\ OfOpening

\* _save_state after every sweep
Save ==
  /\ sweep.pc = "save"
  /\ disk' = Saved(book)
  /\ sweep' = Idle
  /\ UNCHANGED <<book, held, entry, stray, exit, cutter, lock, spot, moves, clock,
                 paused, gated, budget>>

\* Mutant: only the flies that are not being closed expire.
SettleOpenOnly ==
  /\ sweep.pc = "idle" /\ lock = "free" /\ clock = "closed"
  /\ book' = [f \in Flies |-> IF book[f].st = "OPEN" THEN [book[f] EXCEPT !.st = "EXPIRED"] ELSE book[f]]
  /\ disk' = Saved(book')
  /\ sweep' = [sweep EXCEPT !.pc = "stopped"]
  /\ UNCHANGED <<held, entry, stray, exit, cutter, lock, spot, moves, clock, paused, gated, budget>>

\* run, after the close: _settle_expired_flies, _save_state, end of the loop
Settle ==
  /\ sweep.pc = "idle" /\ lock = "free" /\ clock = "closed"
  /\ book' = [f \in Flies |-> IF f \in Open THEN [book[f] EXCEPT !.st = "EXPIRED"] ELSE book[f]]
  /\ disk' = Saved(book')
  /\ sweep' = [sweep EXCEPT !.pc = "stopped"]
  /\ UNCHANGED <<held, entry, stray, exit, cutter, lock, spot, moves, clock, paused, gated, budget>>

\* ... without a price nothing is settled, and the loop ends as well
SettleBlind ==
  /\ sweep.pc = "idle" /\ clock = "closed"
  /\ Fault("blind")
  /\ disk' = Saved(book)
  /\ sweep' = [sweep EXCEPT !.pc = "stopped"]
  /\ UNCHANGED <<book, held, entry, stray, exit, cutter, lock, spot, moves, clock, paused, gated>>

-----------------------------------------------------------------------------
(* The spot thread. *)

OfCutting == UNCHANGED <<disk, held, entry, stray, sweep, spot, moves, clock, paused, gated>>
Running == sweep.pc # "stopped"

\* _spot_cut_loop reads the open flies and the price without the lock
Look ==
  /\ cutter.pc = "idle" /\ Running
  /\ \E todo \in SUBSET {f \in Open : book[f].st = "OPEN" /\ Breached(f)} :
       /\ todo # {}
       /\ cutter' = [pc |-> "cut", fly |-> NoFly, todo |-> todo]
  /\ UNCHANGED <<book, exit, lock, budget>> /\ OfCutting

\* Mutant: the status is not looked at again under the lock.
CutUnchecked ==
  /\ cutter.pc = "cut" /\ lock = "free"
  /\ \E f \in cutter.todo :
       /\ book' = [book EXCEPT ![f].st = "CLOSING"]
       /\ cutter' = [pc |-> "place", fly |-> f, todo |-> cutter.todo \ {f}]
  /\ UNCHANGED <<exit, lock, budget>> /\ OfCutting

\* _cut_fly, first critical section
Cut ==
  /\ cutter.pc = "cut" /\ lock = "free"
  /\ \E f \in cutter.todo :
       IF book[f].st = "OPEN"
       THEN /\ book' = [book EXCEPT ![f].st = "CLOSING"]
            /\ cutter' = [pc |-> "place", fly |-> f, todo |-> cutter.todo \ {f}]
       ELSE /\ cutter' = [cutter EXCEPT !.todo = @ \ {f}]
            /\ UNCHANGED book
  /\ UNCHANGED <<exit, lock, budget>> /\ OfCutting

LooksAgain ==
  /\ cutter.pc = "cut" /\ cutter.todo = {}
  /\ cutter' = Looking
  /\ UNCHANGED <<book, exit, lock, budget>> /\ OfCutting

\* PaperExecutor.close_fly fills at once
PaperClose ==
  /\ cutter.pc = "place" /\ Paper
  /\ exit' = [exit EXCEPT ![cutter.fly] = "filled"]
  /\ held' = [held EXCEPT ![cutter.fly] = @ - 1]
  /\ cutter' = [cutter EXCEPT !.pc = "record"]
  /\ UNCHANGED <<book, disk, entry, stray, sweep, lock, spot, moves, clock, paused, gated, budget>>

\* BrokerExecutor.close_fly: the first order; a refused one is tried again for
\* ever (gate closed, nothing held any more, or an order that closes it already)
ClosePlace ==
  LET f == cutter.fly IN
  /\ cutter.pc = "place" /\ ~Paper
  /\ ~gated /\ clock # "closed" /\ held[f] > 0 /\ exit[f] # "working"
  /\ exit' = [exit EXCEPT ![f] = "working"]
  /\ cutter' = [cutter EXCEPT !.pc = "poll"]
  /\ UNCHANGED <<book, lock, budget>> /\ OfCutting

ClosePoll ==
  /\ cutter.pc = "poll"
  /\ cutter' = [cutter EXCEPT !.pc = IF exit[cutter.fly] = "filled" THEN "record" ELSE "replace"]
  /\ UNCHANGED <<book, exit, lock, budget>> /\ OfCutting

\* replace_order cancels, then places a single-leg order without a symbol, which
\* the adapter refuses: the closing order is gone unless it filled before
CloseReplace ==
  LET f == cutter.fly IN
  /\ cutter.pc = "replace"
  /\ exit' = [exit EXCEPT ![f] = IF @ = "working" THEN "cancelled" ELSE @]
  /\ cutter' = [cutter EXCEPT !.pc = IF exit[f] = "filled" THEN "record" ELSE "poll"]
  /\ UNCHANGED <<book, lock, budget>> /\ OfCutting

\* _cut_fly, second critical section
Recorded ==
  /\ cutter.pc = "record" /\ lock = "free"
  /\ book' = [book EXCEPT ![cutter.fly].st = "CLOSED"]
  /\ cutter' = [cutter EXCEPT !.pc = "cut", !.fly = NoFly]
  /\ UNCHANGED <<exit, lock, budget>> /\ OfCutting

-----------------------------------------------------------------------------
(* The exchange, the clock, the gate and failures. *)

OfMarket == UNCHANGED <<book, disk, sweep, cutter, lock, paused, gated>>
Trading == clock # "closed"

EntryFill(f) ==
  /\ Trading /\ entry[f] \in {"working", "canceling"}
  /\ entry' = [entry EXCEPT ![f] = "filled"] /\ held' = [held EXCEPT ![f] = @ + 1]
  /\ UNCHANGED <<stray, exit, spot, moves, clock, budget>> /\ OfMarket

StrayFill(f) ==
  /\ Trading /\ stray[f] > 0
  /\ stray' = [stray EXCEPT ![f] = @ - 1] /\ held' = [held EXCEPT ![f] = @ + 1]
  /\ UNCHANGED <<entry, exit, spot, moves, clock, budget>> /\ OfMarket

EntryCancelled(f) ==
  /\ entry[f] = "canceling"
  /\ entry' = [entry EXCEPT ![f] = "cancelled"]
  /\ UNCHANGED <<held, stray, exit, spot, moves, clock, budget>> /\ OfMarket

EntryRejected(f) ==
  /\ entry[f] = "working" /\ Fault("reject")
  /\ entry' = [entry EXCEPT ![f] = "rejected"]
  /\ UNCHANGED <<held, stray, exit, spot, moves, clock>> /\ OfMarket

ExitFill(f) ==
  /\ Trading /\ exit[f] = "working"
  /\ exit' = [exit EXCEPT ![f] = "filled"] /\ held' = [held EXCEPT ![f] = @ - 1]
  /\ UNCHANGED <<entry, stray, spot, moves, clock, budget>> /\ OfMarket

Move(s) ==
  /\ Trading /\ s # spot /\ moves < MaxMoves
  /\ spot' = s /\ moves' = moves + 1
  /\ UNCHANGED <<held, entry, stray, exit, clock, budget>> /\ OfMarket

\* day orders that still work end with the market
Bell ==
  LET Ended(orders) == [f \in Flies |-> IF orders[f] \in {"working", "canceling"}
                                        THEN "cancelled" ELSE orders[f]] IN
  /\ Trading
  /\ clock' = "closed" /\ entry' = Ended(entry) /\ exit' = Ended(exit)
  /\ stray' = [f \in Flies |-> 0]
  /\ UNCHANGED <<held, spot, moves, budget>> /\ OfMarket

\* the new-risk gate latches, or an operator clears it
Gate ==
  /\ Fault("gate")
  /\ gated' = ~gated
  /\ UNCHANGED <<book, disk, held, entry, stray, exit, sweep, cutter, lock, spot, moves, clock, paused>>

\* Mutant: the exception leaves the lock taken.
ErrorKeepsLock ==
  /\ sweep.pc \in {"send", "poll", "after"}
  /\ Fault("error")
  /\ sweep' = [Idle EXCEPT !.pc = "stopped"] /\ disk' = Saved(book)
  /\ UNCHANGED <<book, held, entry, stray, exit, cutter, lock, spot, moves, clock, paused, gated>>

\* an exception ends the loop of run(); the watchdog counts that as completed
Error ==
  /\ sweep.pc \in {"idle", "send", "poll", "after"}
  /\ Fault("error")
  /\ sweep' = [Idle EXCEPT !.pc = "stopped"] /\ lock' = "free" /\ disk' = Saved(book)
  /\ UNCHANGED <<book, held, entry, stray, exit, cutter, spot, moves, clock, paused, gated>>

\* the process ends and is started again: _init_book takes the book as saved;
\* a fly that no saved book names is lost to the strategy
Restart ==
  /\ sweep.pc # "stopped"
  /\ Fault("crash")
  /\ book' = disk
  /\ LET Kept(fn, none) == [f \in Flies |-> IF disk[f].st = "none" THEN none ELSE fn[f]] IN
     /\ held' = Kept(held, 0) /\ entry' = Kept(entry, "none")
     /\ stray' = Kept(stray, 0) /\ exit' = Kept(exit, "none")
  /\ sweep' = Idle /\ cutter' = Looking /\ lock' = "free" /\ paused' = FALSE
  /\ UNCHANGED <<disk, spot, moves, clock, gated>>

-----------------------------------------------------------------------------
Sweep == \/ SweepBreaker \/ SweepCut \/ SweepNothing \/ SweepFirst \/ SweepAdd
         \/ OpenSend \/ OpenGivesUp \/ OpenPoll \/ OpenAfterCancel
         \/ Save \/ Settle \/ SettleBlind

Cutter == \/ Look \/ Cut \/ LooksAgain \/ PaperClose \/ ClosePlace \/ ClosePoll
          \/ CloseReplace \/ Recorded

Outside == \/ \E f \in Flies : \/ EntryFill(f) \/ StrayFill(f) \/ EntryCancelled(f)
                               \/ EntryRejected(f) \/ ExitFill(f)
           \/ \E s \in Spots : Move(s)
           \/ Bell \/ Gate \/ Error \/ Restart

Next == Sweep \/ Cutter \/ Outside

Spec == Init /\ [][Next]_vars

\* both threads go on, the day ends, a cancel request is answered
Fairness ==
  /\ WF_vars(OpenSend \/ OpenGivesUp \/ OpenPoll \/ OpenAfterCancel)
  /\ WF_vars(Save) /\ WF_vars(Settle)
  /\ WF_vars(Look) /\ SF_vars(Cut) /\ SF_vars(Recorded)
  /\ WF_vars(LooksAgain \/ PaperClose \/ ClosePlace \/ ClosePoll \/ CloseReplace)
  /\ \A f \in Flies : WF_vars(EntryCancelled(f)) /\ WF_vars(ExitFill(f))

FairSpec == Spec /\ Fairness /\ WF_vars(Bell)

\* the market stays open for as long as the threads need
OpenMarketSpec == Spec /\ Fairness

-----------------------------------------------------------------------------
Final == {"CLOSED", "EXPIRED", "FAILED"}

TypeOK ==
  /\ \A b \in {book, disk}, f \in Flies :
       /\ b[f].st \in Final \union {"none", "PENDING_APPROVAL", "OPENING", "OPEN", "CLOSING"}
       /\ b[f].center % 2 = 0 /\ b[f].credit \in Credits \union {0}
  /\ \A f \in Flies : held[f] \in 0..MaxAttempts /\ stray[f] \in 0..MaxAttempts
  /\ sweep.pc \in {"idle", "send", "poll", "after", "save", "cutting", "stopped"}
  /\ sweep.fly \in Flies \union {NoFly} /\ cutter.fly \in Flies \union {NoFly}
  /\ lock = "sweep" <=> sweep.pc \in {"send", "poll", "after", "cutting"}

\* No strike is both short and long over the flies that are open, opening or
\* being closed: one fly's wing never offsets another's body in the account.
NoClash == \A f \in Active : ~LongAt(book[f].center)

\* The book says what the account holds: an open fly is held once, a failed or
\* closed one not at all, whatever fill or cancel wins.  Not when a cancel takes
\* longer than a second, a status query fails, or the process is restarted.
BookIsTrue ==
  budget.of \cap {"slow", "query", "crash", "error"} = {} =>
    \A f \in Flies : held[f] =
      CASE book[f].st = "OPEN" -> 1
        [] book[f].st = "CLOSING" /\ exit[f] # "filled" -> 1
        [] book[f].st = "OPENING" /\ entry[f] = "filled" -> 1
        [] book[f].st = "EXPIRED" -> held[f]
        [] OTHER -> 0

\* A fly that has ended is not opened or closed again, although the spot thread
\* decides by a list it read without the lock.
ClosedForGood ==
  [][ "crash" \notin budget.of =>
        \A f \in Flies : book[f].st \in Final => book'[f].st \in Final ]_vars

\* Every open fly ends, by its cut or by the settlement, even when its closing
\* order never fills: unless the sweep waits for its own lock, the engine stopped
\* on an exception or without a price, or a restart forgot a fly not yet saved.
EveryFlyEnds ==
  \A f \in Flies : book[f].st \in {"OPEN", "CLOSING"} ~>
    \/ book[f].st \in Final
    \/ book[f].st = "none" /\ "crash" \in budget.of
    \/ sweep.pc = "cutting"
    \/ sweep.pc = "stopped" /\ budget.of \cap {"error", "blind"} # {}

\* What holds of the book of flies at every moment.
FliesSound == TypeOK /\ NoClash /\ BookIsTrue
=============================================================================
