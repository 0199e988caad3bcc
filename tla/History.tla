----------------------------- MODULE History -----------------------------
(*************************************************************************)
(* The end of a trading day in the books: the SPX close that open spreads *)
(* settle at (src/common/expiry_settlement.py), the rows of the history   *)
(* database and their daily total (src/dashboard/db.py), and the syncs    *)
(* that copy trade files into rows (src/dashboard/history_sync.py, the    *)
(* dashboard's summary, the clean-up at the end of the day).              *)
(*                                                                        *)
(* Every trade is a put credit spread, short ShortK, long LongK, of one   *)
(* contract.  clock: 1 before 15:00 Central, 2 after it, 3 the next day.  *)
(*************************************************************************)
EXTENDS Integers, FiniteSets, FiniteSetsExt

CONSTANTS Trades, Paper,    \* the trades and those on paper
          Levels,           \* what SPX can be
          ShortK, LongK, Credit,
          MaxMoves,         \* bound: moves of SPX and changes of the feeds
          Extras            \* what else may happen in a run
ASSUME BooksAssumption == Levels \subseteq Nat /\ {ShortK, LongK, Credit} \subseteq Int

None == -1
Syncers == {"dashboard", "cleanup"}
Sources == {"locked", "mqtt", "ohlc", "polls", "snapshots"}
Priority(s) == CASE s = "locked" -> 100 [] s = "mqtt" -> 85 [] s = "ohlc" -> 80
                 [] s = "polls" -> 70 [] s = "snapshots" -> 40

VARIABLES clock, moves,
          spx,        \* the index
          streaming,  \* the MQTT cache holds it
          polled,     \* the recorder's last poll of the day
          snapshot,   \* SPX in the trade files' stop history
          daily,      \* the close in the daily OHLC file
          captured,   \* the MQTT close kept on disk
          file,       \* the day's settlement file
          trade,      \* the trade files
          rows,       \* the rows of the day in the database
          total,      \* the day's total in the database
          shown,      \* trades the dashboard has upserted itself
          sync,       \* what each syncer is at
          calm        \* the last sync saw no change and no other sync
feeds == <<spx, streaming, polled, snapshot, daily>>
hvars == <<clock, moves, feeds, captured, file, trade, rows, total, shown, sync, calm>>

(* --- the settlement price --------------------------------------------- *)
\* Mutant: the close is captured at any time.
CapturedAnyTime == IF captured = None /\ streaming THEN spx ELSE captured

Captured == IF captured = None /\ clock = 2 /\ streaming THEN spx ELSE captured
Offer(price, source, place) ==
    IF price = None THEN {} ELSE {[price |-> price, source |-> source, place |-> place]}

\* The 1-minute bars come from the recorder of the polls and rank next below them, so
\* they are in `polled'.  A file written by hand without a lock, and a file of the older
\* name, are not modelled: an operator's price is locked.
Candidates ==
    Offer(file.price, file.source, 1) \cup Offer(daily, "ohlc", 2) \cup Offer(polled, "polls", 3)
        \cup Offer(IF clock = 1 THEN None ELSE Captured, "mqtt", 4)
        \cup Offer(snapshot, "snapshots", 5)

\* The source with the highest priority; of equals the first one listed.
Resolved ==
    {c \in Candidates : \A d \in Candidates \ {c} :
        \/ Priority(c.source) > Priority(d.source)
        \/ Priority(c.source) = Priority(d.source) /\ c.place < d.place}

ClosePrice == IF Resolved = {} THEN None ELSE (CHOOSE c \in Resolved : TRUE).price

\* The price found is written down, unless an operator has locked one.
Ensured ==
    IF Resolved = {} \/ file.source = "locked" THEN file
    ELSE LET c == CHOOSE c \in Resolved : TRUE IN [price |-> c.price, source |-> c.source]

EnsuredPrice == IF file.source = "locked" THEN file.price ELSE ClosePrice

(* --- what a trade is worth -------------------------------------------- *)
Intrinsic(strike, price) == Max({0, strike - price})
RealFills(t) == trade[t].status = "closed" /\ trade[t].sc # None /\ trade[t].lc # None

\* Its fills decide, else the expiry at the given SPX.
SettledPnl(t, price) ==
    Credit - IF RealFills(t) THEN trade[t].sc - trade[t].lc
             ELSE Intrinsic(ShortK, price) - Intrinsic(LongK, price)

HistoryRow(t, price) ==
    IF trade[t].status # "cancelled" /\ (RealFills(t) \/ (clock > 1 /\ price # None))
    THEN {[pnl |-> SettledPnl(t, price), closed |-> TRUE, paper |-> t \in Paper]} ELSE {}

Row(t) == CHOOSE r \in rows[t] : TRUE
LiveClosed(rs) == {t \in Trades : \E r \in rs[t] : r.closed /\ ~r.paper}
SumOf(rs) == MapThenSumSet(LAMBDA t : (CHOOSE r \in rs[t] : TRUE).pnl, LiveClosed(rs))

\* Mutant: the total counts paper trades.
TotalOfAll(rs) ==
    MapThenSumSet(LAMBDA t : (CHOOSE r \in rs[t] : TRUE).pnl,
                  {t \in Trades : \E r \in rs[t] : r.closed})

\* The total is recomputed from the live rows; with none of them left the
\* statement selects nothing and the old total stays.
Refreshed(rs) == IF LiveClosed(rs) = {} THEN total ELSE SumOf(rs)

Upserted(new) == [t \in Trades |-> IF new[t] = {} THEN rows[t] ELSE new[t]]

(* --- the day ---------------------------------------------------------- *)
HInit ==
    /\ clock = 1 /\ moves = 0
    /\ spx \in Levels /\ streaming \in BOOLEAN
    /\ polled = None /\ snapshot = None /\ daily = None /\ captured = None
    /\ file = [price |-> None, source |-> "mqtt"]
    /\ trade \in [Trades -> {[status |-> "open", sc |-> None, lc |-> None, at |-> None],
                             [status |-> "cancelled", sc |-> None, lc |-> None, at |-> None]}]
    /\ rows = [t \in Trades |-> {}] /\ total = 0 /\ shown = {}
    /\ sync = [p \in Syncers |-> [step |-> "idle", valid |-> {}]]
    /\ calm = FALSE

\* One of the initial states, for a run in which the books rest.
HResting ==
    /\ spx = Min(Levels) /\ ~streaming
    /\ \A t \in Trades : trade[t].status = "open"

\* The index moves and the recorder may poll it; MQTT comes and goes.
Move ==
    /\ clock = 1 /\ moves < MaxMoves
    /\ moves' = moves + 1
    /\ spx' \in Levels
    /\ polled' \in {polled, spx'}
    /\ streaming' \in BOOLEAN
    /\ UNCHANGED <<clock, snapshot, daily, captured, file, trade, rows, total, shown, sync, calm>>

\* After the cutoff the cache may still receive its first SPX.
Stream ==
    /\ clock = 2 /\ ~streaming /\ moves < MaxMoves
    /\ streaming' = TRUE /\ moves' = moves + 1
    /\ UNCHANGED <<clock, spx, polled, snapshot, daily, captured, file, trade, rows, total,
                   shown, sync, calm>>

\* 15:00, and the next day, when the daily file may be downloaded.
Clock ==
    /\ clock < 3
    /\ clock' = clock + 1
    /\ daily' \in IF clock = 2 THEN {None, spx} ELSE {None}
    /\ \A p \in Syncers : clock = 2 => sync[p].step = "idle"
    /\ calm' = FALSE
    /\ UNCHANGED <<moves, spx, streaming, polled, snapshot, captured, file, trade, rows, total,
                   shown, sync>>

(* --- trades ----------------------------------------------------------- *)
\* A stop or a manual close: the long leg's price may come later, or never.
StopOut(t) ==
    /\ clock = 1 /\ trade[t].status = "open"
    /\ \E long \in {0, None} :
          trade' = [trade EXCEPT ![t] = [@ EXCEPT !.status = "closed", !.sc = 2, !.lc = long]]
    /\ snapshot' = spx
    /\ calm' = FALSE
    /\ UNCHANGED <<clock, moves, spx, streaming, polled, daily, captured, file, rows, total,
                   shown, sync>>

LongPriced(t) ==
    /\ trade[t].status = "closed" /\ trade[t].lc = None
    /\ trade' = [trade EXCEPT ![t].lc = 0]
    /\ calm' = FALSE
    /\ UNCHANGED <<clock, moves, feeds, captured, file, rows, total, shown, sync>>

\* The expiry gate: without a price the trade stays open, frozen.
SettleAtExpiry(t) ==
    /\ clock > 1 /\ trade[t].status = "open" /\ EnsuredPrice # None
    /\ captured' = Captured
    /\ file' = Ensured
    /\ trade' = [trade EXCEPT ![t] = [status |-> "closed", at |-> EnsuredPrice,
                                      sc |-> Intrinsic(ShortK, EnsuredPrice),
                                      lc |-> Intrinsic(LongK, EnsuredPrice)]]
    /\ calm' = FALSE
    /\ UNCHANGED <<clock, moves, feeds, rows, total, shown, sync>>

(* --- the syncs -------------------------------------------------------- *)
\* One sync copies every trade into its row.
MaySync(p) == IF p = "cleanup" THEN clock = 2 ELSE clock = 2 \/ "early" \in Extras
SyncUpsert(p) ==
    /\ clock < 3 /\ MaySync(p) /\ sync[p].step = "idle"
    /\ captured' = Captured
    /\ file' = Ensured
    /\ rows' = Upserted([t \in Trades |-> HistoryRow(t, EnsuredPrice)])
    /\ total' = Refreshed(rows')
    /\ sync' = [sync EXCEPT ![p].step = "upserted"]
    /\ calm' = \A q \in Syncers : sync[q].step = "idle"
    /\ UNCHANGED <<clock, moves, feeds, trade, shown>>

\* Then it reads the files again to learn which rows are valid ...
SyncValidate(p) ==
    /\ sync[p].step = "upserted"
    /\ sync' = [sync EXCEPT ![p] = [step |-> "validated",
                    valid |-> {t \in Trades : HistoryRow(t, EnsuredPrice) # {}}]]
    /\ captured' = Captured
    /\ file' = Ensured
    /\ UNCHANGED <<clock, moves, feeds, trade, rows, total, shown, calm>>

Purged(p) == [t \in Trades |-> IF t \in sync[p].valid THEN rows[t] ELSE {}]

\* ... and deletes the others.
SyncPurge(p) ==
    /\ sync[p].step = "validated"
    /\ rows' = Purged(p)
    /\ total' = IF rows' = rows THEN total ELSE Refreshed(rows')
    /\ sync' = [sync EXCEPT ![p] = [step |-> "idle", valid |-> {}]]
    /\ UNCHANGED <<clock, moves, feeds, captured, file, trade, shown, calm>>

\* The dashboard's summary upserts each closed trade once, without its paper
\* flag; asking for SPX captures the MQTT close.
Summary ==
    /\ clock < 3
    /\ captured' = Captured
    /\ LET new(t) == IF trade[t].status = "closed" /\ t \notin shown
                     THEN {[pnl |-> IF RealFills(t) THEN Credit - (trade[t].sc - trade[t].lc) ELSE 0,
                            closed |-> RealFills(t), paper |-> FALSE]}
                     ELSE {}
       IN  /\ rows' = Upserted([t \in Trades |-> new(t)])
           /\ total' = IF \A t \in Trades : new(t) = {} THEN total ELSE Refreshed(rows')
           /\ calm' = (calm /\ \A t \in Trades : new(t) = {})
    /\ shown' = shown \cup {t \in Trades : trade[t].status = "closed"}
    /\ UNCHANGED <<clock, moves, feeds, file, trade, sync>>

\* An operator confirms the close: the file is locked.
LockClose ==
    /\ "operator" \in Extras /\ file.source # "locked"
    /\ \E price \in Levels : file' = [price |-> price, source |-> "locked"]
    /\ calm' = FALSE
    /\ UNCHANGED <<clock, moves, feeds, captured, trade, rows, total, shown, sync>>

HNext ==
    \/ Move \/ Stream \/ Clock \/ Summary \/ LockClose
    \/ \E t \in Trades : StopOut(t) \/ LongPriced(t) \/ SettleAtExpiry(t)
    \/ \E p \in Syncers : SyncUpsert(p) \/ SyncValidate(p) \/ SyncPurge(p)

HSpec == HInit /\ [][HNext]_hvars

(* --- properties ------------------------------------------------------- *)
\* After a sync that nothing overlapped, every trade with fills has its row,
\* with its P&L and its paper flag, no other trade has one before the cutoff,
\* and the total is that of the live rows (when there are any).
RowsTrue ==
    calm /\ (\A p \in Syncers : sync[p].step = "idle") =>
        /\ \A t \in Trades :
              /\ RealFills(t) => rows[t] = {[pnl |-> Credit - (trade[t].sc - trade[t].lc),
                                            closed |-> TRUE, paper |-> t \in Paper]}
              /\ trade[t].status = "cancelled" \/ (trade[t].status = "open" /\ clock = 1)
                    => rows[t] = {}
        /\ LiveClosed(rows) # {} => total = SumOf(rows)

\* The settlement file only changes to a better source, a locked one never,
\* every trade settles at what the file says, and at the index's close when
\* any feed that reaches it knew it.
CloseSticks ==
    [][/\ file' # file => file.price = None \/ Priority(file'.source) > Priority(file.source)
       /\ \A t \in Trades : trade'[t].at # trade[t].at =>
             /\ trade'[t].at = file'.price
             /\ file.source # "locked" /\ (captured' # None \/ daily # None
                     \/ ("early" \notin Extras /\ polled = spx)) => trade'[t].at = spx]_hvars
==========================================================================
