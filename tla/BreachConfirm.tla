--------------------------- MODULE BreachConfirm ---------------------------
(***************************************************************************)
(* The software breach of one open spread, from the streamer's quotes to   *)
(* the limit order that replaces the stop.  The streamer publishes, for    *)
(* every quote of a leg, its provenance and then its price; the price      *)
(* cache of the stop monitor puts the two together; the scan of the trade  *)
(* looks at the pair twice, when it refreshes the breach watch and when it *)
(* evaluates phase 1; the exit job looks again when it gets the broker     *)
(* lane.  Two distinct breached pairs within the window confirm a breach.  *)
(*                                                                         *)
(* Time is counted in ticks, prices in points.  The legs were filled at    *)
(* time 0.  A crash of the monitor in the middle of a scan leaves what a   *)
(* crash before the scan leaves.                                           *)
(***************************************************************************)
EXTENDS Integers, Sequences, FiniteSets

CONSTANTS FillGrace,   \* BREACH_FILL_GRACE_SEC
          MaxAge,      \* MAX_MQTT_BREACH_QUOTE_AGE_SEC
          MaxSkew,     \* MAX_MQTT_PAIR_SKEW_SEC
          Window,      \* BREACH_CONFIRM_MAX_WINDOW_SEC
          Required,    \* BREACH_CONFIRM_OBSERVATIONS
          StaleAfter,  \* thirty seconds without a message or a health file
          Threshold,   \* spread_breach_threshold of the trade
          Width,       \* distance of the strikes
          ShortPrices, LongPrices,
          MaxTime, MaxQuotes, MaxWire, MaxFaults,  \* bounds: a quote is published when the wire is that short
          Scenarios    \* each what may go wrong in a run

ASSUME BreachAssumption ==
  /\ {FillGrace, MaxAge, MaxSkew, Window, StaleAfter, MaxTime, MaxQuotes, MaxWire, MaxFaults} \subseteq Nat
  /\ Required \in Nat \ {0} /\ ShortPrices \cup LongPrices \subseteq Nat /\ {Threshold, Width} \subseteq Nat
  /\ UNION Scenarios \subseteq {"restart", "cut", "reboot", "press", "late", "replay", "between"}

VARIABLES
  now,
  feed,     \* the streamer: up, its session, subscription time, last health file, numbers of its quotes
  history,  \* every quote the streamer published
  retained, \* what the MQTT broker keeps: session, kill switch, quote and replay mark of each leg
  wire,     \* messages on their way to the cache, linked is whether there is a connection
  linked,
  cache,    \* MqttPriceCache
  conf,     \* breach_confirmation of the trade
  counted,  \* the pairs counted since the last reset, with their times
  pc,       \* the supervisor's scan: between scans, or the watch is refreshed and armed
  exitjob,      \* the exit job: none, waiting for the lane (for a breach or the kill switch), its limit order sent
  streak,   \* ticks in a row in which the scan had a plain breach before it
  budget

breachvars == <<now, feed, history, retained, wire, linked, cache, conf, counted, pc, exitjob, streak, budget>>
market == <<feed, history, retained>>
monitor == <<conf, counted, pc, exitjob, streak>>

Legs == {"short", "long"}
Prices(leg) == IF leg = "short" THEN ShortPrices ELSE LongPrices
Fault(f) == f \in budget.of /\ budget.left > 0 /\ budget' = [budget EXCEPT !.left = @ - 1]
None == [seq |-> 0]

EmptyCache == [price |-> [l \in Legs |-> None], snap |-> [l \in Legs |-> None],
               meta |-> [l \in Legs |-> None], replayed |-> [l \in Legs |-> FALSE],
               session |-> 0, kill |-> FALSE, last |-> 0]

\* reset_breach_confirmation.
Reset == [count |-> 0, start |-> 0, short |-> None, long |-> None, session |-> 0]

BreachInit ==
  /\ now = 0
  /\ feed = [up |-> TRUE, session |-> 1, sub |-> 0, health |-> 0, seq |-> [l \in Legs |-> 0]]
  /\ history = {}
  /\ retained = [session |-> 1, kill |-> FALSE, quote |-> [l \in Legs |-> None], replay |-> [l \in Legs |-> FALSE]]
  /\ wire = <<>> /\ linked = TRUE
  /\ cache = [EmptyCache EXCEPT !.session = 1]
  /\ conf = Reset /\ counted = <<>>
  /\ pc = "idle" /\ exitjob = "none"
  /\ streak = [n |-> 0, now |-> FALSE]
  /\ \E s \in Scenarios : budget = [of |-> s, left |-> MaxFaults]

-----------------------------------------------------------------------------
(* The streamer and the MQTT broker *)

Msg(t, leg, q) == [t |-> t, leg |-> leg, q |-> q]
Sent(ms) == wire' = IF linked THEN wire \o ms ELSE wire
\* The scan sees the cache between the two messages of a quote only in the
\* scenario that says so.
QuoteMsgs(leg, q) == IF "between" \in budget.of THEN <<Msg("meta", leg, q), Msg("price", leg, q)>>
                     ELSE <<Msg("quote", leg, q)>>

\* _publish_genuine: the next number, the exchange's time and the mid of a leg.
Quote(leg, p, at) ==
  LET q == [leg |-> leg, session |-> feed.session, seq |-> feed.seq[leg] + 1, price |-> p, epoch |-> at, sub |-> feed.sub]
  IN /\ feed.up /\ Cardinality(history) < MaxQuotes /\ Len(wire) <= MaxWire
     /\ feed' = [feed EXCEPT !.seq[leg] = @ + 1]
     /\ history' = history \cup {q}
     /\ retained' = [retained EXCEPT !.quote[leg] = q, !.replay[leg] = FALSE]
     /\ Sent(QuoteMsgs(leg, q))
     /\ UNCHANGED <<now, linked, cache, monitor>>

\* An exchange time may be older than the quote's arrival.
Quoted ==
  \E leg \in Legs : \E p \in Prices(leg) :
    \/ Quote(leg, p, now) /\ UNCHANGED budget
    \/ now > 0 /\ Fault("late") /\ Quote(leg, p, now - 1)

StreamerDies ==
  /\ feed.up /\ Fault("restart")
  /\ feed' = [feed EXCEPT !.up = FALSE]
  /\ streak' = [n |-> 0, now |-> FALSE]
  /\ UNCHANGED <<now, history, retained, wire, linked, cache, conf, counted, pc, exitjob>>

\* A new session numbers its quotes from one, subscribes anew and takes a kill
\* switch back.
StreamerStarts ==
  /\ ~feed.up
  /\ feed' = [feed EXCEPT !.up = TRUE, !.session = @ + 1, !.sub = now, !.seq = [l \in Legs |-> 0]]
  /\ retained' = [retained EXCEPT !.session = feed.session + 1, !.kill = FALSE]
  /\ Sent(<<Msg("kill", "short", FALSE), Msg("session", "short", feed.session + 1)>>)
  /\ UNCHANGED <<now, history, linked, cache, monitor, budget>>

Press ==
  /\ Fault("press")
  /\ retained' = [retained EXCEPT !.kill = TRUE]
  /\ Sent(<<Msg("kill", "short", TRUE)>>)
  /\ UNCHANGED <<now, feed, history, linked, cache, monitor>>

-----------------------------------------------------------------------------
(* The price cache *)

\* _commit_genuine_quote: the provenance of one message with a price.
Committed(c, leg, q, price) ==
  [c EXCEPT !.snap[leg] = [q EXCEPT !.price = price], !.price[leg] = [seq |-> q.seq, price |-> price],
            !.replayed[leg] = FALSE]

\* _handle_meta: when a price is known it is committed at once.
OnMeta(c, leg, q, replay) ==
  LET d == [c EXCEPT !.meta[leg] = [q |-> q, replay |-> replay, seq |-> q.seq], !.last = now,
                     !.session = IF @ = 0 THEN q.session ELSE @]
  IN IF replay \/ c.price[leg] = None THEN d ELSE Committed(d, leg, q, c.price[leg].price)

\* _handle_scalar.
OnPrice(c, leg, q) ==
  LET d == [c EXCEPT !.price[leg] = [seq |-> q.seq, price |-> q.price], !.meta[leg] = None, !.last = now]
  IN IF c.meta[leg] = None THEN d
     ELSE IF c.meta[leg].replay THEN [d EXCEPT !.replayed[leg] = TRUE]
     ELSE Committed(d, leg, c.meta[leg].q, q.price)

\* _on_message for a quote, its provenance first or, when the broker sends what
\* it retained, its price first.
OnQuote(c, leg, q, replay) == OnPrice(OnMeta(c, leg, q, replay), leg, q)
OnKept(c, leg, q, replay) == OnMeta(OnPrice(c, leg, q), leg, q, replay)

\* _on_message.  A heartbeat announces a session only to a cache without one.
On(c, m) ==
  CASE m.t = "kill" -> [c EXCEPT !.kill = m.q]
    [] m.t = "session" -> [c EXCEPT !.session = m.q, !.last = now]
    [] m.t = "beat" -> [c EXCEPT !.session = IF @ = 0 THEN m.q ELSE @, !.last = now]
    [] m.t = "meta" -> OnMeta(c, m.leg, m.q, FALSE)
    [] m.t = "price" -> OnPrice(c, m.leg, m.q)
    [] m.t = "quote" -> OnQuote(c, m.leg, m.q, FALSE)
    [] m.t = "replay" -> OnQuote(c, m.leg, m.q, TRUE)
    [] m.t = "kept" -> OnKept(c, m.leg, m.q, FALSE)
    [] m.t = "keptreplay" -> OnKept(c, m.leg, m.q, TRUE)

Receive ==
  /\ wire # <<>>
  /\ cache' = On(cache, Head(wire)) /\ wire' = Tail(wire)
  /\ UNCHANGED <<now, market, linked, monitor, budget>>

Cut ==
  /\ linked /\ Fault("cut")
  /\ linked' = FALSE /\ wire' = <<>>
  /\ UNCHANGED <<now, market, cache, monitor>>

\* The retained messages of a new subscription come in no promised order.
RetainedMsgs(leg, metaFirst) ==
  LET kind == IF metaFirst THEN (IF retained.replay[leg] THEN "replay" ELSE "quote")
                           ELSE (IF retained.replay[leg] THEN "keptreplay" ELSE "kept")
  IN IF retained.quote[leg] = None THEN <<>> ELSE <<Msg(kind, leg, retained.quote[leg])>>

Reconnect ==
  /\ ~linked /\ linked' = TRUE
  /\ LET session == <<Msg("session", "short", retained.session), Msg("kill", "short", retained.kill)>>
     IN \E metaFirst, sessionFirst \in BOOLEAN :
          LET quotes == RetainedMsgs("short", metaFirst) \o RetainedMsgs("long", metaFirst)
          IN wire' = IF sessionFirst THEN session \o quotes ELSE quotes \o session
  /\ UNCHANGED <<now, market, cache, monitor, budget>>

-----------------------------------------------------------------------------
(* The quote pair and its confirmation *)

StreamerStale == now - feed.health > StaleAfter
CacheStale == now - cache.last > StaleAfter
Spread(s, l) == s.price - l.price
Distance(a, b) == IF a > b THEN a - b ELSE b - a

\* Mutant: the session of the quotes is not looked at.
AnySession ==
  LET s == cache.snap["short"]
      l == cache.snap["long"]
  IN /\ ~StreamerStale /\ ~CacheStale /\ now >= FillGrace
     /\ s # None /\ l # None /\ \A leg \in Legs : ~cache.replayed[leg]
     /\ \A q \in {s, l} : q.epoch > 0 /\ q.epoch >= q.sub /\ now - q.epoch <= MaxAge /\ q.price > 0
     /\ Distance(s.epoch, l.epoch) <= MaxSkew

\* evaluate_quote_pair_readiness up to the sanity of the spread.
PairUsable ==
  LET s == cache.snap["short"]
      l == cache.snap["long"]
  IN /\ ~StreamerStale /\ ~CacheStale /\ now >= FillGrace
     /\ s # None /\ l # None /\ \A leg \in Legs : ~cache.replayed[leg]
     /\ cache.session # 0 => \A q \in {s, l} : q.session = cache.session
     /\ \A q \in {s, l} : q.epoch > 0 /\ q.epoch >= q.sub /\ now - q.epoch <= MaxAge /\ q.price > 0
     /\ Distance(s.epoch, l.epoch) <= MaxSkew

PairReady == PairUsable /\ Spread(cache.snap["short"], cache.snap["long"]) \in 0..Width

Breached == Spread(cache.snap["short"], cache.snap["long"]) >= Threshold

\* _quote_pair_advanced.
Advanced(c) ==
  LET newer(q, old) == q.seq > old.seq \/ (old.seq > 0 /\ q.epoch > old.epoch)
  IN c.count = 0 \/ newer(cache.snap["short"], c.short) \/ newer(cache.snap["long"], c.long)

\* The confirmation that the pair is compared with: another session and the end
\* of the window begin a new one.
StillCounts(c) == IF c.session \notin {0, cache.snap["short"].session} \/ (c.count > 0 /\ now - c.start > Window)
              THEN Reset ELSE c

Counted(c) == [count |-> c.count + 1, start |-> IF c.count = 0 THEN now ELSE c.start,
               short |-> cache.snap["short"], long |-> cache.snap["long"], session |-> cache.snap["short"].session]


\* update_breach_confirmation of a breached pair.
Next1(c) == IF Advanced(c) THEN Counted(c) ELSE c

\* Mutant: an unchanged pair counts again.
Recounted == IF PairReady /\ Breached THEN Counted(StillCounts(conf)) ELSE Reset

\* update_breach_confirmation.
Confirmation == IF PairReady /\ Breached THEN Next1(StillCounts(conf)) ELSE Reset

Observation == [short |-> cache.snap["short"], long |-> cache.snap["long"], at |-> now]
Observe ==
  /\ conf' = Confirmation
  /\ counted' = IF conf'.count = 0 THEN <<>>
                ELSE IF conf'.count = 1 /\ conf' # conf THEN <<Observation>>
                ELSE IF conf' # conf THEN Append(counted, Observation) ELSE counted

Confirmed == Confirmation.count >= Required

-----------------------------------------------------------------------------
(* The scan, the job, the monitor process *)

\* Everything the market said in this tick is a breach, and the cache has it.
Plain ==
  /\ wire = <<>> /\ linked /\ feed.up /\ now > FillGrace
  /\ \A l \in Legs : retained.quote[l] # None /\ retained.quote[l].epoch = now /\ retained.quote[l].session = feed.session
                     /\ retained.quote[l].price > 0
  /\ Spread(retained.quote["short"], retained.quote["long"]) \in Threshold..Width

\* _scan_open_slot down to the arming: the breach watch is refreshed, and with
\* no ready pair the scan ends.
Refresh ==
  /\ pc = "idle" /\ exitjob = "none"
  /\ Observe
  /\ pc' = IF PairReady THEN "armed" ELSE "idle"
  /\ UNCHANGED <<now, market, wire, linked, cache, exitjob, streak, budget>>

\* Phase 1 looks at the pair again and hands a confirmed breach to the pool.
Evaluate ==
  /\ pc = "armed" /\ pc' = "idle"
  /\ IF cache.kill
     THEN exitjob' = "kill" /\ UNCHANGED <<conf, counted>>
     ELSE Observe /\ exitjob' = IF Confirmed THEN "waiting" ELSE "none"
  /\ streak' = [streak EXCEPT !.now = @ \/ Plain]
  /\ UNCHANGED <<now, market, wire, linked, cache, budget>>

\* The job has the lane: phase 1 is executed, with one more look at the pair.
Execute ==
  /\ exitjob \in {"waiting", "kill"}
  /\ IF CacheStale \/ \E l \in Legs : cache.price[l] = None
     THEN exitjob' = "none" /\ UNCHANGED <<conf, counted>>
     ELSE IF exitjob = "kill"
     THEN exitjob' = (IF PairUsable THEN "killed" ELSE "none") /\ UNCHANGED <<conf, counted>>
     ELSE Observe /\ exitjob' = IF Confirmed THEN "sent" ELSE "none"
  /\ UNCHANGED <<now, market, wire, linked, cache, pc, streak, budget>>

\* The monitor process dies and is started again: the trade's file keeps the
\* confirmation, the cache is empty until the retained messages come.
Reboot ==
  /\ Fault("reboot") /\ exitjob \in {"none", "waiting", "kill"} /\ pc = "idle"
  /\ cache' = EmptyCache /\ wire' = <<>> /\ linked' = FALSE /\ exitjob' = "none"
  /\ streak' = [n |-> 0, now |-> FALSE]
  /\ UNCHANGED <<now, market, conf, counted, pc>>

\* Every interval: the health file, the heartbeat and, if so configured, the
\* last mids of this session again, marked as replays.
Again == {l \in Legs : feed.seq[l] > 0 /\ "replay" \in budget.of}
Beat ==
  LET msgs(l) == IF l \in Again THEN <<Msg("replay", l, retained.quote[l])>> ELSE <<>>
  IN /\ feed' = [feed EXCEPT !.health = now + 1]
     /\ retained' = [retained EXCEPT !.replay = [l \in Legs |-> retained.replay[l] \/ l \in Again]]
     /\ Sent(<<Msg("beat", "short", feed.session)>> \o msgs("short") \o msgs("long"))

\* Messages need far less than a tick, and so does the scan.
Tick ==
  /\ now < MaxTime /\ wire = <<>> /\ pc = "idle" /\ now' = now + 1
  /\ IF feed.up THEN Beat ELSE UNCHANGED <<feed, retained, wire>>
  /\ streak' = [n |-> IF streak.now THEN streak.n + 1 ELSE 0, now |-> FALSE]
  /\ UNCHANGED <<history, linked, cache, conf, counted, pc, exitjob, budget>>

Streamer == Quoted \/ StreamerDies \/ StreamerStarts
Monitor == Receive \/ Refresh \/ Evaluate \/ Execute
Surroundings == Press \/ Cut \/ Reconnect \/ Reboot \/ Tick

BreachNext == Streamer \/ Monitor \/ Surroundings

BreachSpec == BreachInit /\ [][BreachNext]_breachvars

-----------------------------------------------------------------------------
(* Properties *)

\* State is what the code can hold, and the confirmation counts what was seen.
BreachTypeOK ==
  /\ now \in 0..MaxTime /\ pc \in {"idle", "armed"} /\ exitjob \in {"none", "waiting", "kill", "sent", "killed"}
  /\ conf.count \in Nat /\ Len(counted) = conf.count

\* A breach order is sent only for pairs of quotes the market really made, all
\* of one session and after the fill, each a breach, at least two of them, no
\* two the same, the first and the second within the window.
NoFalseBreach ==
  BreachTypeOK /\ (exitjob = "sent" =>
    /\ Len(counted) >= Required
    /\ \A i \in 1..Len(counted) :
         LET o == counted[i]
         IN /\ {o.short, o.long} \subseteq history
            /\ Spread(o.short, o.long) \in Threshold..Width
            /\ o.short.session = o.long.session /\ o.short.session = counted[1].short.session
            /\ o.at >= FillGrace /\ o.at - o.short.epoch <= MaxAge /\ o.at - o.long.epoch <= MaxAge
            /\ o.at - counted[1].at <= Window
    /\ \A i, j \in 1..Len(counted) :
         i # j => <<counted[i].short, counted[i].long>> # <<counted[j].short, counted[j].long>>)

=============================================================================
