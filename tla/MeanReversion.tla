---------------------------- MODULE MeanReversion ----------------------------
(***************************************************************************)
(* The mean-reversion strategy (strategies/mean_reversion): one thread that *)
(* sets the day's bounds at the open, waits for the index to touch one,     *)
(* sells a spread and manages it until its target, its stop or the end of   *)
(* the day; the two files it keeps, the trade and the session, which a      *)
(* restarted process goes on from; the dashboard's close of the trade       *)
(* (common/manual_close) and the settlement of what is left at expiry.      *)
(*                                                                         *)
(* A mark of the spread is in twentieths of the credit: 10 is the profit    *)
(* target, at 15 the stop moves to 18, before that it is at 40.             *)
(***************************************************************************)
EXTENDS Integers

CONSTANTS FadeScenes,   \* each what may happen from outside in a run
          FadeCrashAt,  \* the points of the thread at which it may die
          MaxSwitches   \* bound: switches of the strategy, deaths and presses

VARIABLES fadescene, switches,
          hour,      \* 0 before the open, 1 until the cut-off of entries, 2 until
                     \* the end of the day, 3 until the close, 4 expired
          off,       \* daily override: disabled for today
          fade,      \* where the thread is
          copy,      \* the trade as the thread holds it
          active,    \* the trade file in trades/active
          past,      \* the one in trades/history
          session,   \* the session file
          opening, closing, \* the orders at the brokerage
          own,       \* spreads the account holds
          sold,      \* opening orders sent today
          press      \* the dashboard's close: where it is and the trade it read
fadeorders == <<opening, closing, own, sold>>
fadefiles == <<active, past, session>>
fadeworld == <<fadescene, switches, hour, off>>
fadevars == <<fadeworld, fade, copy, fadefiles, fadeorders, press>>

NoTrade == [st |-> "none", leg |-> "none", locked |-> FALSE]
Unpressed == [at |-> "idle", trade |-> NoTrade]
Marks == {9, 14, 17, 19, 41}
Target == 10
LockAt == 15
StopOf(t) == IF t.locked THEN 18 ELSE 40

FadeResting ==
    /\ hour = 0 /\ off = FALSE /\ fade = "off" /\ copy = NoTrade /\ active = NoTrade
    /\ past = "none" /\ session = [entered |-> FALSE, bounds |-> 0]
    /\ opening = "none" /\ closing = "none" /\ own = 0 /\ sold = 0 /\ press = Unpressed /\ switches = 0
FadeInit == FadeResting /\ fadescene \in FadeScenes

-----------------------------------------------------------------------------
(* The thread until it has entered. *)

AtStep(from, to) == fade = from /\ fade' = to
Skipped == session' = [session EXCEPT !.entered = FALSE]

\* run: not on a holiday
Boot ==
    /\ \/ AtStep("off", "wait") /\ UNCHANGED session
       \/ AtStep("off", "end") /\ active = NoTrade /\ past = "none" /\ Skipped
    /\ UNCHANGED <<fadeworld, copy, active, past, fadeorders, press>>

\* _wait_for_open_window also ends when the strategy is disabled
OpenWindow ==
    /\ AtStep("wait", "ask") /\ (off \/ hour > 0)
    /\ UNCHANGED <<fadeworld, copy, fadefiles, fadeorders, press>>

\* Mutant: a restart of the day's run does not ask the session.
EnteredForgotten(s) == FALSE
EnteredToday(s) == s.entered

Resume ==
    /\ \/ off /\ AtStep("ask", "end") /\ Skipped /\ UNCHANGED copy
       \/ ~off /\ EnteredToday(session) /\ active.st = "open"
            /\ AtStep("ask", "hold") /\ copy' = active /\ UNCHANGED session
       \/ ~off /\ EnteredToday(session) /\ active.st # "open"
            /\ AtStep("ask", "end") /\ UNCHANGED <<copy, session>>
       \/ ~off /\ ~EnteredToday(session) /\ AtStep("ask", "bounds") /\ UNCHANGED <<copy, session>>
    /\ UNCHANGED <<fadeworld, active, past, fadeorders, press>>

\* Mutant: bounds are set anew whenever the thread starts.
BoundsAnew(s, b) == b
Kept(s, b) == IF s.bounds # 0 THEN s.bounds ELSE b

\* _establish_expected_move: the first price decides, or none comes in time
SetBounds ==
    /\ \/ \E b \in 1..2 : session' = [session EXCEPT !.bounds = Kept(session, b)]
            /\ AtStep("bounds", "watch")
       \/ session.bounds = 0 /\ AtStep("bounds", "end") /\ Skipped
    /\ UNCHANGED <<fadeworld, copy, active, past, fadeorders, press>>

\* _monitor_for_trigger: the index may be at a bound, inside them or unknown
MonitorForTrigger ==
    /\ \/ (off \/ hour >= 2) /\ AtStep("watch", "end") /\ Skipped
       \/ ~off /\ hour < 2 /\ AtStep("watch", "enter") /\ UNCHANGED session
    /\ UNCHANGED <<fadeworld, copy, active, past, fadeorders, press>>

\* _execute_entry until its order: a thin credit is noted and the thread
\* rests before it watches again; a broker that raises ends the run
Enter ==
    /\ \/ AtStep("enter", "cool") /\ Skipped /\ UNCHANGED <<opening, sold>>
       \/ AtStep("enter", "end") /\ UNCHANGED <<session, opening, sold>>
       \/ AtStep("enter", "book") /\ opening' = "rejected" /\ UNCHANGED <<session, sold>>
       \/ hour < 4 /\ AtStep("enter", "fill") /\ opening' = "working" /\ sold' = sold + 1
            /\ UNCHANGED session
    /\ UNCHANGED <<fadeworld, copy, active, past, closing, own, press>>

Cooled ==
    /\ AtStep("cool", "watch")
    /\ UNCHANGED <<fadeworld, copy, fadefiles, fadeorders, press>>

\* _place_spread polls the order for a while, then cancels it and goes on
Await ==
    /\ \/ opening \in {"filled", "rejected"} /\ AtStep("fill", "book") /\ UNCHANGED opening
       \/ opening = "working" /\ AtStep("fill", "book") /\ opening' = "cancelling"
    /\ UNCHANGED <<fadeworld, copy, fadefiles, closing, own, sold, press>>

\* The trade is written open whatever became of its order; a cancel is answered
\* by then unless it is slow.
Book ==
    /\ AtStep("book", "note") /\ (opening = "cancelling" => "slow" \in fadescene)
    /\ copy' = [st |-> "open", leg |-> "open", locked |-> FALSE] /\ active' = copy'
    /\ UNCHANGED <<fadeworld, past, session, fadeorders, press>>

\* Mutant: the session is not told of the trade.
EnteredUnsaved == session
EnteredSaved == [session EXCEPT !.entered = TRUE]
Note ==
    /\ AtStep("note", "hold") /\ session' = EnteredSaved
    /\ UNCHANGED <<fadeworld, copy, active, past, fadeorders, press>>

-----------------------------------------------------------------------------
(* The thread that manages the trade. *)

SendClose(ok) == IF ok THEN closing' \in {"working", "filled"} /\ own' = IF closing' = "filled" THEN own - 1 ELSE own
                 ELSE UNCHANGED <<closing, own>>
\* The account takes a closing order for what it holds and no order closes yet.
Room == own > 0 /\ closing = "none" /\ hour < 4
Refusable == "refuse" \in fadescene \/ ~Room

\* _manage_open_trade looks at the file, the clock, then the quotes
Glance ==
    /\ \/ active.st = "closed" /\ AtStep("hold", "end")
       \/ active.st # "closed" /\ hour >= 3 /\ AtStep("hold", "close")
       \/ active.st # "closed" /\ hour < 3 /\ AtStep("hold", "quote")
    /\ UNCHANGED <<fadeworld, copy, fadefiles, fadeorders, press>>

Revalued(mark) == [copy EXCEPT !.locked = @ \/ mark <= LockAt]
Quote ==
    /\ \/ AtStep("quote", "hold") /\ UNCHANGED <<copy, active>>
       \/ \E mark \in Marks :
            /\ copy' = Revalued(mark)
            /\ IF mark <= Target \/ mark >= StopOf(copy')
                 THEN AtStep("quote", "close") /\ UNCHANGED active
                 ELSE AtStep("quote", "hold") /\ active' = copy'
    /\ UNCHANGED <<fadeworld, past, session, fadeorders, press>>

\* _close_position: what becomes of its order is not asked
Close ==
    /\ AtStep("close", "closed")
    /\ \E ok \in BOOLEAN : (ok => Room) /\ (~ok => Refusable) /\ SendClose(ok)
    /\ UNCHANGED <<fadeworld, copy, fadefiles, opening, sold, press>>

ToHistory ==
    /\ AtStep("closed", "tidy") /\ past' = "thread"
    /\ copy' = [copy EXCEPT !.st = "closed", !.leg = "closed"]
    /\ UNCHANGED <<fadeworld, active, session, fadeorders, press>>

Tidy ==
    /\ AtStep("tidy", "end") /\ active' = NoTrade /\ session' = EnteredSaved
    /\ UNCHANGED <<fadeworld, copy, past, fadeorders, press>>

FadeThread == \/ Boot \/ OpenWindow \/ Resume \/ SetBounds \/ MonitorForTrigger \/ Enter \/ Cooled \/ Await
              \/ Book \/ Note \/ Glance \/ Quote \/ Close \/ ToHistory \/ Tidy

-----------------------------------------------------------------------------
(* The dashboard's close, the brokerage, the clock and failures. *)

Switched == switches < MaxSwitches /\ switches' = switches + 1
OfPress == UNCHANGED <<fadescene, hour, off, fade, copy, session, opening, sold>>

\* close_structure finds an open trade, marks its structure closing over what
\* is on file by then, sends its order, ...
PressRead ==
    /\ "desk" \in fadescene /\ press.at = "idle" /\ Switched
    /\ active.st = "open" /\ active.leg = "open"
    /\ press' = [at |-> "read", trade |-> active]
    /\ OfPress /\ UNCHANGED <<active, past, closing, own>>

PressMark ==
    /\ press.at = "read" /\ press' = [press EXCEPT !.at = "marked"]
    /\ active' = [press.trade EXCEPT !.leg = "closing"]
    /\ OfPress /\ UNCHANGED <<switches, past, closing, own>>

\* ... takes a refusal of an account that holds nothing for a fill, undoes
\* its mark after any other, ...
PressSend ==
    /\ press.at = "marked"
    /\ \/ Room /\ SendClose(TRUE) /\ UNCHANGED active /\ press' = [press EXCEPT !.at = "sent"]
       \/ own = 0 /\ UNCHANGED <<active, closing, own>> /\ press' = [press EXCEPT !.at = "sent"]
       \/ Refusable /\ own > 0 /\ UNCHANGED <<closing, own>>
            /\ active' = press.trade /\ press' = Unpressed
    /\ OfPress /\ UNCHANGED <<switches, past>>

\* ... writes the trade closed, then its history file, and removes the other.
PressClosed ==
    /\ press.at = "sent" /\ press' = [press EXCEPT !.at = "closed"]
    /\ active' = [press.trade EXCEPT !.st = "closed", !.leg = "closed"]
    /\ OfPress /\ UNCHANGED <<switches, past, closing, own>>

PressMove ==
    /\ \/ press.at = "closed" /\ past' = "desk" /\ UNCHANGED active
            /\ press' = [press EXCEPT !.at = "moved"]
       \/ press.at = "moved" /\ active' = NoTrade /\ UNCHANGED past /\ press' = Unpressed
    /\ OfPress /\ UNCHANGED <<switches, closing, own>>

\* settle_open_trade, when the day has a closing price
Settled ==
    /\ hour = 4 /\ active.st = "open" /\ fade \in {"off", "end"} /\ press = Unpressed
    /\ past' = "settled" /\ active' = NoTrade
    /\ UNCHANGED <<fadeworld, fade, copy, session, fadeorders, press>>

Brokerage ==
    /\ \/ /\ opening \in {"working", "cancelling"} /\ opening' = "filled" /\ own' = own + 1
          /\ UNCHANGED closing
       \/ opening = "working" /\ opening' = "rejected" /\ UNCHANGED <<closing, own>>
       \/ opening = "cancelling" /\ opening' = "cancelled" /\ UNCHANGED <<closing, own>>
       \/ closing = "working" /\ closing' = "filled" /\ own' = own - 1 /\ UNCHANGED opening
    /\ UNCHANGED <<fadeworld, fade, copy, fadefiles, sold, press>>

\* The clock; at expiry nothing is held and no order works any more.
Hour ==
    /\ hour < 4 /\ hour' = hour + 1
    /\ IF hour' < 4 THEN UNCHANGED fadeorders
       ELSE /\ opening' = IF opening \in {"working", "cancelling"} THEN "cancelled" ELSE opening
            /\ closing' = "none" /\ own' = 0 /\ UNCHANGED sold
    /\ UNCHANGED <<fadescene, switches, off, fade, copy, fadefiles, press>>

Toggle ==
    /\ "toggle" \in fadescene /\ Switched /\ off' = ~off
    /\ UNCHANGED <<fadescene, hour, fade, copy, fadefiles, fadeorders, press>>

\* the process dies, or is stopped, and may be started again
Die ==
    /\ "crash" \in fadescene /\ fade \in FadeCrashAt /\ Switched
    /\ fade' = "off" /\ copy' = NoTrade
    /\ UNCHANGED <<fadescene, hour, off, fadefiles, fadeorders, press>>

FadeNext == \/ FadeThread \/ PressRead \/ PressMark \/ PressSend \/ PressClosed \/ PressMove
            \/ Settled \/ Brokerage \/ Hour \/ Toggle \/ Die
FadeSpec == FadeInit /\ [][FadeNext]_fadevars

-----------------------------------------------------------------------------
\* One spread a day, and none without its file: whatever restarts, switches
\* and presses of the dashboard come in between, a second order is never sent,
\* and what the account holds and no order closes is on file as open once the
\* entry is booked (run, _execute_entry, _manage_open_trade, close_structure).
\* Closing orders that are refused and cancels that are slow are other cases.
FadeOnFile ==
    /\ sold <= 1
    /\ own > 0 /\ closing # "working" /\ fade \notin {"fill", "book"} /\ fadescene \cap {"refuse", "slow"} = {}
          => active.st = "open" \/ press.at = "sent"

\* What the session and the trade file remember survives every restart: the
\* bounds are those of the first price, a day that was entered stays entered
\* and a stop that was moved to its lock stays there.
DayRemembered ==
    [][ /\ session.bounds # 0 => session'.bounds = session.bounds
        /\ ~({"toggle", "crash"} \subseteq fadescene) /\ session.entered => session'.entered
        /\ active.st = "open" /\ active'.st = "open" /\ active.locked /\ "desk" \notin fadescene
             => active'.locked ]_fadevars
=============================================================================
