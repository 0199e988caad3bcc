----------------------------- MODULE PaperMode -----------------------------
(***************************************************************************)
(* Which broker a trade goes to.  A strategy trades on paper or live; the  *)
(* operator's choice is kept in four places (the session file of the day,  *)
(* strategy_overrides.json, strategy_modes.json and, for MEIC, its         *)
(* settings file) that are read with different precedence by the           *)
(* dashboard, by the entry workers and by the strategy threads.  A trade   *)
(* carries the mode it was opened in, and its close is routed by it.       *)
(* One run is about one strategy: MEIC and the manual spreads are closed   *)
(* by the stop monitor, "fade" (mean reversion) stands for the standalone  *)
(* threads with one mode, "sleeves" for DRMA_HM_SPX with a mode for each   *)
(* sleeve (two of its three).                                              *)
(***************************************************************************)
EXTENDS Naturals, Sequences

CONSTANTS ModeScenes,  \* each the strategy and what else may happen in a run
          MaxOrders    \* bound: what the operator and the processes do

VARIABLES mscene, orders,
          store,  \* [today, kept, modes, settings]: the four places
          word,   \* the operator's last word on each key
          bot,    \* strategy thread: [alive, on, cfg, via, old]
          pos,    \* the open trade: [st, key, lay, stamp, todo]
          last,   \* the last close: [lay, stamp, went, by]
          draft,    \* the runner's reading of the session file, not yet written
          torn    \* that write undid a choice of today
modevars == <<mscene, orders, store, word, bot, pos, last, draft, torn>>

Strategies == {"meic", "manual", "fade", "sleeves"}
ASSUME ModeAssumption == \A s \in ModeScenes : \E x \in Strategies : s \cap Strategies = {x}
Is(w) == w \in mscene
Threaded == Is("fade") \/ Is("sleeves")
Modes == {"paper", "live"}
ModeKeys == {"paper", "dir", "non"}   \* paper, dir_paper, non_dir_paper
Subs == ModeKeys \ {"paper"}
Traded == IF Is("sleeves") THEN Subs ELSE {"paper"}
Yaml == IF Is("manual") THEN "live" ELSE "paper"

Nothing == [k \in ModeKeys |-> "unset"]
Or(a, b) == IF a # "unset" THEN a ELSE b
Fill(a, b) == [k \in ModeKeys |-> Or(a[k], b[k])]
Same(k) == IF Is("sleeves") /\ k = "paper" THEN ModeKeys ELSE {k}
NoTradeOpen == [st |-> "none", key |-> "paper", lay |-> "unset", stamp |-> "unset", todo |-> FALSE]

ModeInit ==
  /\ mscene \in ModeScenes /\ orders = 0
  /\ \E v \in Modes :
       /\ store = [today |-> Nothing, kept |-> Nothing, modes |-> Nothing, settings |-> v]
       /\ Is("meic") \/ v = "paper"
       /\ word = [k \in ModeKeys |-> IF Is("meic") THEN v ELSE Yaml]
  /\ bot = [alive |-> FALSE, on |-> FALSE, cfg |-> Nothing, via |-> "unset", old |-> FALSE]
  /\ pos = NoTradeOpen
  /\ last = [lay |-> "unset", stamp |-> "unset", went |-> "unset", by |-> "nobody"]
  /\ draft = <<>> /\ torn = FALSE

(***************************************************************************)
(* Reading.                                                                *)
(***************************************************************************)

\* get_persistent_modes_for_strategy: a sleeve without a mode has the whole's
ModesOf(m) == IF Is("sleeves") THEN Fill(m, [k \in ModeKeys |-> m["paper"]]) ELSE m

\* load_session_state: modes before kept overrides, today's before both
Loaded(s) == Fill(s.today, Fill(ModesOf(s.modes), s.kept))

\* get_strategy_paper_mode
Persisted(m, k) ==
  IF k \in Subs /\ m[k] = "unset"
  THEN IF \E j \in Subs : m[j] # "unset" THEN "paper" ELSE m["paper"]
  ELSE m[k]

\* is_strategy_paper
Shown(s, k) ==
  LET own == Loaded(s)[k]
      whole == IF k \in Subs THEN Loaded(s)["paper"] ELSE "unset"
      file == IF Is("meic") THEN s.settings ELSE Yaml
  IN  Or(own, Or(whole, Or(Persisted(s.modes, k), file)))

\* _build_config: strategies.yaml under the persistent modes
Built(s) == Fill(ModesOf(s.modes), [Nothing EXCEPT !["paper"] = Yaml])

\* effective_config; the kept overrides and the modes are in Loaded already
Effective(s, cfg) ==
  LET c == Fill(Loaded(s), cfg) IN
  IF Is("sleeves") THEN Fill(c, [k \in ModeKeys |-> c["paper"]]) ELSE c

\* is_sub_strategy_paper
ModeIn(cfg, k) == Or(cfg[k], cfg["paper"])

(***************************************************************************)
(* Writing.                                                                *)
(***************************************************************************)

\* Mutant: the whole is set without its sleeves
SetModeAlone(s, k, v) ==
  LET m == [s.modes EXCEPT ![k] = v]
      t == [s EXCEPT !.modes = m, !.settings = IF Is("meic") THEN v ELSE @]
  IN  [t EXCEPT !.today = Fill(m, Loaded(t))]

\* set_strategy_paper_mode
SetMode(s, k, v) ==
  LET m == [j \in ModeKeys |-> IF j \in Same(k) THEN v ELSE s.modes[j]]
      t == [s EXCEPT !.modes = m, !.settings = IF Is("meic") THEN v ELSE @]
  IN  [t EXCEPT !.today = Fill(m, Loaded(t))]

\* set_overrides, with the keys the control route sends for this choice
SetOverrides(s, k, v) ==
  LET u == [j \in ModeKeys |-> IF j \in Same(k) THEN v ELSE "unset"]
  IN  SetMode([s EXCEPT !.today = Fill(u, Loaded(s)), !.kept = Fill(u, @)], k, v)

\* The keys that go with a key: in the session and in the modes alike
Without(f, k) ==
  LET g == [j \in ModeKeys |-> IF j \in Same(k) THEN "unset" ELSE f[j]]
  IN  IF Is("sleeves") /\ \A j \in Subs : g[j] = "unset" THEN Nothing ELSE g

\* Mutant: the persistent mode survives
DeleteOverrideOnly(s, k) ==
  [s EXCEPT !.today = Without(Loaded(s), k), !.kept[k] = "unset"]

\* delete_override with delete_strategy_paper_mode
DeleteOverride(s, k) ==
  [s EXCEPT !.today = Without(Loaded(s), k), !.kept[k] = "unset",
            !.modes = Without(@, k)]

(***************************************************************************)
(* The dashboard.                                                          *)
(***************************************************************************)

Ordered == orders < MaxOrders /\ orders' = orders + 1
OfStore == UNCHANGED <<mscene, bot, pos, last, draft>>

\* POST control or overrides
SetControl(k, v) ==
  /\ Ordered /\ k \in Traded \union {"paper"}
  /\ store' = SetMode(SetOverrides(store, k, v), k, v)
  /\ word' = [j \in ModeKeys |-> IF j \in Same(k) THEN v ELSE word[j]]
  /\ torn' = (torn /\ k # "paper")
  /\ OfStore

\* DELETE overrides: what remains is the whole's mode for a sleeve, the
\* settings file for MEIC, strategies.yaml otherwise
DeleteControl(k) ==
  /\ Ordered /\ k \in Traded \union {"paper"}
  /\ Is("sleeves") /\ k = "paper" => Is("drop")
  /\ store' = DeleteOverride(store, k)
  /\ word' = [j \in ModeKeys |->
       IF j \notin Same(k) THEN word[j]
       ELSE IF k \in Subs THEN word["paper"]
       ELSE IF Is("meic") THEN store.settings ELSE Yaml]
  /\ bot' = [bot EXCEPT !.old = @ \/ bot.alive]
  /\ UNCHANGED <<mscene, pos, last, draft, torn>>

\* POST /api/meic/settings, the switch on the MEIC page
PostSettings(v) ==
  /\ Is("meic") /\ Is("panel") /\ Ordered
  /\ store' = [store EXCEPT !.settings = v]
  /\ word' = [k \in ModeKeys |-> v]
  /\ UNCHANGED torn /\ OfStore

\* rearm_strategy_state
Rearm ==
  /\ Ordered /\ store' = [store EXCEPT !.today = Loaded(store)]
  /\ UNCHANGED <<word, torn>> /\ OfStore

NewDay ==
  /\ Ordered /\ store' = [store EXCEPT !.today = Nothing]
  /\ draft' = <<>> /\ torn' = FALSE
  /\ UNCHANGED <<mscene, word, bot, pos, last>>

(***************************************************************************)
(* The strategy thread.                                                    *)
(***************************************************************************)

OfBot == UNCHANGED <<mscene, store, word, pos, last, draft, torn>>

\* The runner starts the thread, in a new process or again in the same one.
\* _resolve_broker replaces a broker that is not of the mode of the day.
StartBot(fresh) ==
  /\ Threaded /\ Ordered /\ ~bot.on /\ (fresh \/ bot.alive)
  /\ LET cfg == Effective(store, IF fresh THEN Built(store) ELSE bot.cfg) IN
       bot' = [alive |-> TRUE, on |-> TRUE, cfg |-> cfg, via |-> cfg["paper"],
               old |-> torn \/ (bot.old /\ ~fresh)]
  /\ OfBot

\* The thread ends, and its process with it or not
StopBot(dead) ==
  /\ bot.on
  /\ bot' = [bot EXCEPT !.on = FALSE, !.alive = ~dead]
  /\ OfBot /\ UNCHANGED orders

\* Each loop of DRMA_HM reads the modes again
Refresh ==
  /\ Is("sleeves") /\ bot.on
  /\ bot' = [bot EXCEPT !.cfg = Fill(Loaded(store), @)]
  /\ OfBot /\ UNCHANGED orders

\* DRMA_HM saves its levels and signals and keeps the overrides on disk
SaveSession ==
  /\ Is("sleeves") /\ bot.on /\ store.today = Nothing
  /\ store' = [store EXCEPT !.today = Loaded(store)]
  /\ UNCHANGED <<orders, mscene, word, bot, pos, last, draft, torn>>

\* The others read the whole session file and write it back
Peek ==
  /\ Is("fade") /\ Is("overlap") /\ draft = <<>> /\ Ordered
  /\ draft' = <<store.today>>
  /\ UNCHANGED <<mscene, store, word, bot, pos, last, torn>>

Put ==
  /\ draft # <<>>
  /\ store' = [store EXCEPT !.today = draft[1]]
  /\ torn' = (torn \/ draft[1] # store.today) /\ draft' = <<>>
  /\ UNCHANGED <<orders, mscene, word, bot, pos, last>>

(***************************************************************************)
(* Entering and closing.                                                   *)
(***************************************************************************)

OfTrade == UNCHANGED <<mscene, store, word, bot, draft, torn>>
Opened(key, mode, stamp, todo) ==
  /\ pos.st = "none"
  /\ pos' = [st |-> "pending", key |-> key, lay |-> mode, stamp |-> stamp, todo |-> todo]
  /\ UNCHANGED last /\ OfTrade

\* run_meic_entry_row: the mode is the settings file's; the order is sent and
\* the handshake written before the stamp
MeicEnter == Is("meic") /\ Ordered /\ Opened("paper", store.settings, "unset", TRUE)

Stamp ==
  /\ pos.todo
  /\ \/ pos' = [pos EXCEPT !.stamp = pos.lay, !.todo = FALSE]
     \/ Is("crash") /\ pos' = [pos EXCEPT !.todo = FALSE]
  /\ UNCHANGED <<orders, last>> /\ OfTrade

\* run_manual_entry_row: never stamped
ManualEnter == Is("manual") /\ Ordered /\ Opened("paper", Shown(store, "paper"), "unset", FALSE)

\* MeanReversion._place_spread: through the thread's broker; a paper strategy
\* with a live broker stops here
FadeEnter ==
  /\ Is("fade") /\ bot.on
  /\ bot.cfg["paper"] = "paper" => bot.via = "paper"
  /\ Ordered /\ Opened("paper", bot.via, bot.cfg["paper"], FALSE)

\* The DRMA_HM entries: the sleeve's mode, _get_broker
SleeveEnter(k) ==
  /\ Is("sleeves") /\ bot.on
  /\ k \in Subs /\ Ordered
  /\ LET mode == ModeIn(bot.cfg, k) IN Opened(k, mode, mode, FALSE)

Filled ==
  /\ pos.st = "pending" /\ pos' = [pos EXCEPT !.st = "open"]
  /\ UNCHANGED <<orders, last>> /\ OfTrade

\* Mutant: the mode of the day
RouteByMode(s, p) == Shown(s, p.key)

\* resolve_broker_for_trade: the stamp, the journal's order ids, the mode
Route(s, p) ==
  CASE p.stamp = "paper" \/ p.lay = "paper" -> "paper"
    [] p.stamp = "live" -> "live"
    [] OTHER -> Shown(s, p.key)

Closed(went, by) ==
  /\ pos.st = "open" /\ ~pos.todo
  /\ last' = [lay |-> pos.lay, stamp |-> pos.stamp, went |-> went, by |-> by]
  /\ pos' = NoTradeOpen
  /\ UNCHANGED orders /\ OfTrade

\* The stop monitor
MonitorClose == ~Threaded /\ Closed(Route(store, pos), "monitor")

\* Mutant: the dashboard closes in the mode of the day
DeskModeShown(s, p) == Shown(s, p.key)

\* close_structure: the trade's own mode, or else the strategy's
DeskMode(s, p) == Or(p.stamp, Shown(s, "paper"))
DeskClose == Threaded /\ Closed(DeskMode(store, pos), "desk")

\* _exit_trade of DRMA_HM goes by the stamp; MeanReversion._close_position
\* takes the broker the thread has now
ThreadClose ==
  /\ bot.on
  /\ Closed(IF Is("fade") THEN bot.via ELSE Or(pos.stamp, ModeIn(bot.cfg, pos.key)), "thread")

ModeNext ==
  \/ \E k \in ModeKeys, v \in Modes : SetControl(k, v)
  \/ \E k \in ModeKeys : DeleteControl(k) \/ SleeveEnter(k)
  \/ \E v \in Modes : PostSettings(v)
  \/ Rearm \/ NewDay
  \/ \E b \in BOOLEAN : StartBot(b) \/ StopBot(b)
  \/ Refresh \/ SaveSession \/ Peek \/ Put
  \/ MeicEnter \/ Stamp \/ ManualEnter \/ FadeEnter \/ Filled
  \/ MonitorClose \/ DeskClose \/ ThreadClose

ModeSpec == ModeInit /\ [][ModeNext]_modevars

(***************************************************************************)
(* Properties.                                                             *)
(***************************************************************************)

\* The mode the next entry would trade in
NextMode(k) ==
  CASE Is("meic") -> store.settings
    [] Is("manual") -> Shown(store, k)
    [] OTHER -> ModeIn(Effective(store, IF bot.alive THEN bot.cfg ELSE Built(store)), k)

\* What the dashboard shows, what the next entry would trade in and what the
\* operator said last are the same mode, through midnights, restarts, rearming
\* and deletions: four stores, each with its own precedence, agree
\* (common/daily_overrides.py, strategy_modes.py, broker_factory.py:83).  Not
\* while a session file written back from an old reading lasts (until the next
\* day), for a process whose configuration remembers a deleted override, or
\* when MEIC's own settings page was used.
ModesAgree ==
  ~torn /\ ~Is("panel") /\ ~Is("drop") =>
    \A k \in Traded : /\ Shown(store, k) = word[k]
                      /\ ~bot.old => NextMode(k) = word[k]

\* A close goes to the account its trade lies in, whatever the modes have
\* become since: by the trade's stamp or the journal's order id
\* (blocks/stop/broker.py:29, common/manual_close.py:94).  Not for a live trade
\* without a stamp, nor for a thread of mean reversion started again.
ClosesWhereItLies ==
  \/ last.went = last.lay
  \/ last.lay = "live" /\ last.stamp = "unset"
  \/ Is("fade") /\ last.by = "thread"

\* A trade's own mode governs its close, "regardless of what the strategy is
\* set to now" (common/manual_close.py:94, the provenance rules of
\* changes/fixes/2026-10-20_STRATEGY_PERSISTENT_LIVE_PAPER_MODES_AND_PROVENANCE_SAFETY.md).
StampGoverns == last.stamp # "unset" => last.went = last.stamp

\* Entries trade in the operator's mode, closes in the account of their trade.
ModesSound == ModesAgree /\ ClosesWhereItLies
=============================================================================
