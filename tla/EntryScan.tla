---------------------------- MODULE EntryScan ----------------------------
(*************************************************************************)
(* How an entry finds its credit spread (src/blocks/entry/spread_scan.py, *)
(* src/common/strike_guard.py, src/common/chain_snapshot.py and the MQTT  *)
(* fallback of src/blocks/entry).  Puts and calls are mirror images, so a *)
(* strike is its distance out of the money in strike steps: a spread      *)
(* <<d, w>> is short at d and long w steps further out.  Money is in      *)
(* units of 2.5 cents, the grid on which a mid price moves.               *)
(*                                                                        *)
(* A request r has the fields                                             *)
(*   rest    the prices REST or the loaded chain gave: a function whose   *)
(*           domain is the strikes that have one                          *)
(*   mqtt    the streamed quotes, used when `cooled' or when REST covered *)
(*           less than half of the strikes                                *)
(*   trades  the trade files                                              *)
(*   paper, side   the mode and the side of the entry                     *)
(*   min, max      the credit band                                        *)
(*   narrow, wide  the session's width range                              *)
(*   dips    the whole nickels that floating point rounds a nickel down   *)
(*************************************************************************)
EXTENDS Integers, FiniteSets, FiniteSetsExt

CONSTANTS OtmMax,      \* farthest short strike of the grid
          WidestDefault \* the width the code falls back to

Nickel == 2
MaxShifts == 30

\* The whole nickels in a raw credit.  raw / 0.05 is a float: a raw credit
\* that is a whole number of nickels may come out one nickel lower.
RoundCredit(r, raw) ==
    IF raw \in r.dips THEN raw - Nickel ELSE raw - (raw % Nickel)

\* How far the grid reaches for a credit, in points (credit in cents).
ResolveOtmMax(credit) ==
    CASE credit <= 70 -> 300 [] credit > 70 /\ credit <= 90 -> 250
      [] credit > 90 /\ credit <= 120 -> 200 [] OTHER -> 150

\* The trades whose legs a new spread must not flip.
Live(r, t) ==
    /\ t.paper = r.paper
    /\ t.side = r.side
    /\ \/ t.status = "open" /\ t.held > 0
       \/ t.status = "pending_fill" /\ (t.held > 0 \/ ~t.dropped)

\* Mutant: only the new long leg is compared.
FlipsLongOnly(r, short, long) ==
    \E t \in r.trades : Live(r, t) /\ long = t.short

Flips(r, short, long) ==
    \E t \in r.trades : Live(r, t) /\ (long = t.short \/ short = t.long)

(* --- prices ----------------------------------------------------------- *)
\* A streamed pair may be used: both legs quoted after the scan asked, not
\* replayed, not too old, close together in time, and a sane spread.
MaxAge == 4
MaxSkew == 1
PairReady(r, short, long) ==
    LET legs == {short, long} IN
    /\ legs \subseteq DOMAIN r.mqtt
    /\ \A k \in legs : LET q == r.mqtt[k] IN
          /\ q.kind = "quote"
          /\ q.at >= r.asked /\ q.at >= q.subscribed
          /\ r.now - q.at <= MaxAge
          /\ q.price > 0
    /\ LET a == r.mqtt[short] b == r.mqtt[long] IN
          /\ a.at - b.at \in -MaxSkew..MaxSkew
          /\ a.price >= b.price

\* REST is asked unless the broker cools down; too few answers and the
\* streamed quotes are used instead.
Covered(r) == 2 * Cardinality(DOMAIN r.rest) >= r.wanted
Streamed(r) == ~r.loaded /\ (r.cooled \/ ~Covered(r))
RestMap(r) == IF r.cooled /\ ~r.loaded THEN << >> ELSE r.rest

RestPair(r, short, long) ==
    IF {short, long} \subseteq DOMAIN RestMap(r)
    THEN {<<RestMap(r)[short], RestMap(r)[long]>>} ELSE {}

StreamPair(r, short, long) ==
    IF PairReady(r, short, long)
    THEN {<<r.mqtt[short].price, r.mqtt[long].price>>} ELSE {}

\* The prices of a cell of the grid: at most one pair.
Pair(r, short, long) ==
    IF Streamed(r) /\ PairReady(r, short, long)
    THEN StreamPair(r, short, long) ELSE RestPair(r, short, long)

\* While an overlap is resolved REST does not stand in for the stream.
ShiftPair(r, short, long) ==
    IF Streamed(r) THEN StreamPair(r, short, long) ELSE RestPair(r, short, long)

(* --- one spread ------------------------------------------------------- *)
Spread(r, short, long, credit) ==
    [short |-> short, long |-> long, credit |-> credit,
     flips |-> Flips(r, short, long)]

\* In the band, or, for a target credit, worth at least one nickel.
Admitted(r, raw, lo, hi) ==
    /\ raw >= Nickel
    /\ RoundCredit(r, raw) >= Nickel
    /\ r.target = 0 => RoundCredit(r, raw) \in lo..hi

Evaluate(r, short, long, pairs, lo, hi) ==
    {Spread(r, short, long, RoundCredit(r, p[1] - p[2])) :
        p \in {q \in pairs : Admitted(r, q[1] - q[2], lo, hi)}}

(* --- stepping out of a flip ------------------------------------------- *)
WiderMin(r) == r.min - r.min \div 10
WiderMax(r) == r.max + r.max \div 10

TrySpread(r, short, long) ==
    {s \in Evaluate(r, short, long, ShiftPair(r, short, long), WiderMin(r), WiderMax(r)) :
        ~s.flips}

\* The first shift of both legs, in one direction, that flips nothing.
ResolveLegOverlap(r, s, dir) ==
    LET at(n) == <<s.short + dir * n, s.long + dir * n>>
        free == {n \in 1..MaxShifts : ~Flips(r, at(n)[1], at(n)[2])}
    IN  IF free = {} THEN {} ELSE {at(Min(free))}

\* Wider spreads first, then a shift to the money, then one away from it; a
\* spread that nothing helps stays as it is.
ResolveOverlap(r, s, widest) ==
    LET widened == {w \in (s.long - s.short + 1)..widest :
                        /\ ~Flips(r, s.short, s.short + w)
                        /\ TrySpread(r, s.short, s.short + w) # {}}
        shifted(dir) == UNION {TrySpread(r, k[1], k[2]) : k \in ResolveLegOverlap(r, s, dir)}
    IN  CASE ~s.flips -> {s}
          [] s.flips /\ widened # {} -> TrySpread(r, s.short, s.short + Min(widened))
          [] s.flips /\ widened = {} /\ shifted(-1) # {} -> shifted(-1)
          [] s.flips /\ widened = {} /\ shifted(-1) = {} /\ shifted(1) # {} -> shifted(1)
          [] OTHER -> {s}

\* A spread below the band is widened until it is in it: the short price is
\* the cell's, the long one may come from another source.
LongPrices(r, short, long) ==
    IF Streamed(r) /\ PairReady(r, short, long)
    THEN {r.mqtt[long].price} ELSE {RestMap(r)[k] : k \in {long} \cap DOMAIN RestMap(r)}

ExpandDebitLeg(r, short, width, shortPrice) ==
    LET reached(w) ==
            {x \in UNION {ResolveOverlap(r, s, r.wide) :
                          s \in Evaluate(r, short, short + w,
                                         {<<shortPrice, q>> : q \in LongPrices(r, short, short + w)},
                                         r.min, r.max)} : ~x.flips}
        good == {w \in (width + 1)..r.wide : reached(w) # {}}
    IN  IF good = {} THEN {} ELSE reached(Min(good))

(* --- the sweep -------------------------------------------------------- *)
\* Mutant: any spread that is not taken ends the sweep of its width.
EndsOnAny(r, d, w) ==
    \E p \in Pair(r, d, d + w) :
        /\ Evaluate(r, d, d + w, {p}, r.min, r.max) = {}
        /\ ExpandDebitLeg(r, d, w, p[1]) = {}

\* A cell below the band that no widening helps ends the sweep of its width.
Ends(r, d, w) ==
    \E p \in Pair(r, d, d + w) :
        /\ Evaluate(r, d, d + w, {p}, r.min, r.max) = {}
        /\ p[1] - p[2] < r.min
        /\ ExpandDebitLeg(r, d, w, p[1]) = {}

\* What a cell adds to the candidates: nothing or one spread.
CellSpreads(r, d, w) ==
    LET seen == Evaluate(r, d, d + w, Pair(r, d, d + w), r.min, r.max)
    IN  IF seen # {} THEN UNION {ResolveOverlap(r, s, r.wide) : s \in seen}
        ELSE UNION {ExpandDebitLeg(r, d, w, p[1]) :
                    p \in {q \in Pair(r, d, d + w) : q[1] - q[2] < r.min}}

Cells(r) == {<<w, d>> : w \in r.narrow..r.wide, d \in 1..OtmMax}
Before(a, b) == a[1] < b[1] \/ (a[1] = b[1] /\ a[2] < b[2])

Swept(r) == {c \in Cells(r) : \A d \in 1..c[2] - 1 : ~Ends(r, d, c[1])}

\* What the cells reached offer, each with its spreads.
Offers(r) == {[cell |-> c, spreads |-> CellSpreads(r, c[2], c[1])] : c \in Swept(r)}

\* What F keeps of the first cell of which it keeps something.
First(offers, F(_)) ==
    LET left == {o \in offers : F(o.spreads) # {}}
    IN  IF left = {} THEN {}
        ELSE F((CHOOSE o \in left : \A p \in left \ {o} : Before(o.cell, p.cell)).spreads)

\* The first clean spread; else every spread is resolved again, up to the
\* default width; else the first spread as it is, with its warning.
MeicScan(r) ==
    LET offers == Offers(r)
        clean(spreads) == {s \in spreads : ~s.flips}
        again(spreads) == clean(UNION {ResolveOverlap(r, x, WidestDefault) : x \in spreads})
        all(spreads) == spreads
    IN  IF First(offers, clean) # {} THEN First(offers, clean)
        ELSE IF First(offers, again) # {} THEN First(offers, again) ELSE First(offers, all)

(* --- manual spreads: the nearest to a target credit ------------------- *)
Distance(r, s) == IF s.credit > r.target THEN s.credit - r.target ELSE r.target - s.credit
SameLegs(s, t) == s.short = t.short /\ s.long = t.long

\* Mutant: the answers are ordered by their credit.
NearerByCredit(r, s, t, d, e) == s.credit < t.credit \/ (s.credit = t.credit /\ d < e)

Nearer(r, s, t, d, e) ==
    \/ Distance(r, s) < Distance(r, t)
    \/ Distance(r, s) = Distance(r, t) /\ d < e

\* Every cell of one width, resolved; per strike pair the first; nearest first.
TargetScan(r, results) ==
    LET spreads(d) == UNION {ResolveOverlap(r, s, r.wide) :
                          s \in Evaluate(r, d, d + r.wide, Pair(r, d, d + r.wide), 0, 0)}
        found == {d \in 1..OtmMax : spreads(d) # {}}
        of(d) == CHOOSE s \in spreads(d) : TRUE
        kept == {d \in found : \A e \in found : e < d => ~SameLegs(of(d), of(e))}
        rank(d) == 1 + Cardinality({e \in kept : Nearer(r, of(e), of(d), e, d)})
    IN  [i \in 1..Min({results, Cardinality(kept)}) |-> of(CHOOSE d \in kept : rank(d) = i)]
==========================================================================
