---------------------------- MODULE Trades_proofs ----------------------------
(***************************************************************************)
(* Breach quotes: for any prices, limits and numbers of quotes, deaths and *)
(* cuts, a breach order is sent only for distinct pairs of real quotes of  *)
(* one session, each a breach when it was seen.  The numbers of a leg's    *)
(* quotes grow from the last one counted over the cache and the wire to    *)
(* the one the broker retains (Ordered), so a pair that has advanced is a  *)
(* new one, and what the confirmation counts is what was looked at         *)
(* (Counts).                                                               *)
(*                                                                         *)
(* Clone trades: for any trades, ladders and prices, the account never     *)
(* goes short, the books agree with it, and the journal and the ladders    *)
(* keep every open trade.  What is left of a trade is never more than what *)
(* was bought and not sent for sale, less the sale in progress             *)
(* (CloneCounts); the journal repeats the memory (CloneJournal); and the   *)
(* contracts left are on tiers still to come (CloneLadders), because the   *)
(* distribution gives out every contract.                                  *)
(***************************************************************************)
EXTENDS BreachConfirm, CloneTrades, FiniteSetTheorems, WellFoundedInduction, SequenceTheorems, TLAPS


\* A wire and a connection that never hand over a price under another quote's
\* provenance: the two messages of a quote are not torn apart by a scan, and the
\* last mids are not published again where connections are cut.
Untorn == "between" \notin budget.of /\ ~({"cut", "replay"} \subseteq budget.of)

Quotes == [leg : Legs, session : Nat \ {0}, seq : Nat \ {0}, price : Nat, epoch : Nat, sub : Nat]
Maybe == Quotes \cup {None}
QuoteKinds == {"quote", "replay", "kept", "keptreplay"}
Msgs == [t : QuoteKinds, leg : Legs, q : Quotes] \cup [t : {"kill"}, leg : Legs, q : BOOLEAN]
          \cup [t : {"session", "beat"}, leg : Legs, q : Nat \ {0}]
Caches == [price : [Legs -> [seq : Nat, price : Nat] \cup {None}], snap : [Legs -> Maybe],
           meta : [Legs -> [q : Quotes, replay : BOOLEAN, seq : Nat \ {0}] \cup {None}],
           replayed : [Legs -> BOOLEAN], session : Nat, kill : BOOLEAN, last : Nat]
Confs == [count : Nat, start : Nat, short : Maybe, long : Maybe, session : Nat]
Observations == [short : Quotes, long : Quotes, at : Nat]

Types ==
  /\ now \in 0..MaxTime
  /\ feed \in [up : BOOLEAN, session : Nat \ {0}, sub : Nat, health : Nat, seq : [Legs -> Nat]]
  /\ history \subseteq Quotes
  /\ retained \in [session : Nat \ {0}, kill : BOOLEAN, quote : [Legs -> Maybe], replay : [Legs -> BOOLEAN]]
  /\ wire \in Seq(Msgs) /\ linked \in BOOLEAN /\ cache \in Caches
  /\ conf \in Confs /\ counted \in Seq(Observations)
  /\ pc \in {"idle", "armed"} /\ exitjob \in {"none", "waiting", "kill", "sent", "killed"}
  /\ budget \in [of : Scenarios, left : 0..MaxFaults]

\* The quotes of a session are numbered as they are made.
Numbered ==
  /\ \A q \in history :
       /\ q.session <= feed.session
       /\ q.session = feed.session => q.seq <= feed.seq[q.leg]
  /\ \A a, b \in history : a.leg = b.leg /\ a.session = b.session /\ a.seq = b.seq => a = b

\* a quote with another price
Priced(q, v) == [q EXCEPT !.price = v]

Le(a, b) == a = None \/ (b # None /\ (a.session < b.session \/ (a.session = b.session /\ a.seq <= b.seq)))
Made(l, q) == q = None \/ (q \in history /\ q.leg = l)
LastOf(l) == IF l = "short" THEN conf.short ELSE conf.long
IsQuote(i) == wire[i].t \in QuoteKinds

\* What a leg's quotes go through, the youngest first: the broker's, those on the
\* wire, the cache's and the last one counted.
Ordered ==
  \A l \in Legs :
    /\ Made(l, retained.quote[l]) /\ Made(l, cache.snap[l]) /\ Made(l, LastOf(l))
    /\ Le(cache.snap[l], retained.quote[l]) /\ Le(LastOf(l), retained.quote[l])
    /\ feed.seq[l] > 0 => retained.quote[l] # None
    /\ cache.snap[l] # None => Le(LastOf(l), cache.snap[l])
    /\ \A i \in 1..Len(wire) : IsQuote(i) /\ wire[i].leg = l =>
         /\ Made(l, wire[i].q) /\ Le(wire[i].q, retained.quote[l])
         /\ Le(cache.snap[l], wire[i].q) /\ Le(LastOf(l), wire[i].q)
         /\ \A j \in 1..Len(wire) : i < j /\ IsQuote(j) /\ wire[j].leg = l => Le(wire[i].q, wire[j].q)

\* A replayed price whose provenance comes after it finds no other waiting for it.
Behind ==
  /\ ~linked => wire = <<>>
  /\ \A i \in 1..Len(wire) : wire[i].t = "keptreplay" =>
       /\ cache.meta[wire[i].leg] = None
       /\ \A j \in 1..Len(wire) : j < i /\ IsQuote(j) => wire[j].leg # wire[i].leg

Marked ==
  /\ "replay" \notin budget.of => \A l \in Legs : ~retained.replay[l]
  /\ ~linked /\ "cut" \notin budget.of => \A l \in Legs : cache.meta[l] = None
  /\ \A l \in Legs : cache.snap[l] # None => cache.session # 0

\* The confirmation counts what was seen.
Counts ==
  /\ Len(counted) = conf.count
  /\ conf.count = 0 => conf = Reset
  /\ conf.count > 0 =>
       /\ conf.short = counted[conf.count].short /\ conf.long = counted[conf.count].long
       /\ conf.start = counted[1].at /\ conf.session # 0 /\ conf.start <= now
  /\ \A i \in 1..Len(counted) : LET o == counted[i] IN
       /\ {o.short, o.long} \subseteq history /\ o.short.leg = "short" /\ o.long.leg = "long"
       /\ Spread(o.short, o.long) \in Threshold..Width
       /\ o.short.session = conf.session /\ o.long.session = conf.session
       /\ o.at >= FillGrace /\ o.at - o.short.epoch <= MaxAge /\ o.at - o.long.epoch <= MaxAge
       /\ o.at - conf.start <= Window
       /\ \A j \in 1..Len(counted) : i < j =>
            /\ o.short.seq <= counted[j].short.seq /\ o.long.seq <= counted[j].long.seq
            /\ o.short.seq < counted[j].short.seq \/ o.long.seq < counted[j].long.seq

Exits ==
  /\ pc = "armed" => exitjob = "none"
  /\ exitjob = "sent" => Len(counted) >= Required

IInv == Untorn /\ Types /\ Numbered /\ Ordered /\ Behind /\ Marked /\ Counts /\ Exits

(* --- lemmas -------------------------------------------------------------- *)

\* The limits are numbers.
LEMMA Limits ==
  /\ FillGrace \in Nat /\ MaxAge \in Nat /\ Window \in Nat /\ MaxTime \in Nat /\ MaxFaults \in Nat
  /\ Threshold \in Nat /\ Width \in Nat /\ Required \in Nat /\ Required >= 1
  /\ \A l \in Legs : Prices(l) \subseteq Nat
BY BreachAssumption DEF Prices

\* A quote is not the absence of one.
LEMMA QuoteIs == \A q \in Quotes : q # None
BY DEF Quotes, None

\* The order of a leg's quotes is transitive.
LEMMA LeTrans ==
  ASSUME NEW a \in Maybe, NEW b \in Maybe, NEW c \in Maybe, Le(a, b), Le(b, c)
  PROVE  Le(a, c)
<1>1. \A q \in Maybe : q # None => q.session \in Nat /\ q.seq \in Nat
  BY DEF Maybe, Quotes
<1> QED
  BY <1>1 DEF Le

\* A fault leaves the run's scenario as it is.
LEMMA FaultIs ==
  ASSUME budget \in [of : Scenarios, left : 0..MaxFaults], NEW f, Fault(f)
  PROVE  budget' \in [of : Scenarios, left : 0..MaxFaults] /\ budget'.of = budget.of
<1>1. budget.left > 0 /\ budget' = [budget EXCEPT !.left = budget.left - 1]
  BY DEF Fault
<1>2. budget.left - 1 \in 0..MaxFaults
  BY <1>1, Limits
<1> QED
  BY <1>1, <1>2

(* --- what a message makes of the cache ----------------------------------- *)

\* A quote that is committed becomes its leg's snapshot and price, with its provenance.
LEMMA CommittedIs ==
  ASSUME NEW c \in Caches, NEW leg \in Legs, NEW q \in Quotes, NEW p \in Nat,
         NEW d, d = Committed(c, leg, q, p)
  PROVE  /\ d \in Caches /\ d.meta = c.meta /\ d.session = c.session
         /\ d.snap[leg] = Priced(q, p) /\ d.price[leg] # None /\ d.price[leg].price = p
         /\ \A k \in Legs : k # leg => d.snap[k] = c.snap[k]
<1> DEFINE s == [c.snap EXCEPT ![leg] = Priced(q, p)]
           r == [c.price EXCEPT ![leg] = [seq |-> q.seq, price |-> p]]
           w == [c.replayed EXCEPT ![leg] = FALSE]
<1>1. Priced(q, p) \in Quotes /\ q.seq \in Nat
  BY DEF Quotes, Priced
<1>2. /\ s \in [Legs -> Maybe] /\ s[leg] = Priced(q, p)
      /\ \A k \in Legs : k # leg => s[k] = c.snap[k]
  BY <1>1 DEF Caches, Maybe
<1>3. /\ r \in [Legs -> [seq : Nat, price : Nat] \cup {None}]
      /\ r[leg] = [seq |-> q.seq, price |-> p] /\ \A k \in Legs : k # leg => r[k] = c.price[k]
  BY <1>1 DEF Caches
<1>4. w \in [Legs -> BOOLEAN]
  BY DEF Caches
<1>5. d = [c EXCEPT !.snap = s, !.price = r, !.replayed = w]
  BY DEF Committed, Priced
<1> HIDE DEF s, r, w
<1>6. /\ d \in Caches /\ d.snap = s /\ d.price = r /\ d.meta = c.meta /\ d.session = c.session
  BY <1>2, <1>3, <1>4, <1>5 DEF Caches
<1>7. r[leg] # None /\ r[leg].price = p
  BY <1>1, <1>3 DEF None
<1> QED
  BY <1>2, <1>6, <1>7

\* A provenance waits for its price; where a price is known, a genuine one is committed.
LEMMA MetaIs ==
  ASSUME NEW c \in Caches, NEW leg \in Legs, NEW q \in Quotes, NEW replay \in BOOLEAN, now \in Nat,
         NEW d, d = OnMeta(c, leg, q, replay)
  PROVE  /\ d \in Caches /\ d.session # 0
         /\ d.meta[leg] # None /\ d.meta[leg].replay = replay /\ d.meta[leg].q = q
         /\ \A k \in Legs : k # leg => d.snap[k] = c.snap[k] /\ d.meta[k] = c.meta[k]
         /\ replay => d.snap[leg] = c.snap[leg]
         /\ ~replay /\ c.price[leg] # None => d.snap[leg] = Priced(q, c.price[leg].price)
<1> DEFINE m == [c.meta EXCEPT ![leg] = [q |-> q, replay |-> replay, seq |-> q.seq]]
           n == IF c.session = 0 THEN q.session ELSE c.session
           e == [c EXCEPT !.meta = m, !.last = now, !.session = n]
<1>1. q.seq \in Nat \ {0} /\ q.session \in Nat \ {0}
  BY DEF Quotes
<1>2. /\ m \in [Legs -> [q : Quotes, replay : BOOLEAN, seq : Nat \ {0}] \cup {None}]
      /\ m[leg] = [q |-> q, replay |-> replay, seq |-> q.seq]
      /\ \A k \in Legs : k # leg => m[k] = c.meta[k]
  BY <1>1 DEF Caches
<1>3. m[leg] # None
  BY <1>1, <1>2 DEF None
<1>4. n \in Nat \ {0}
  BY <1>1 DEF Caches
<1> HIDE DEF m, n
<1>5. e \in Caches /\ e.meta = m /\ e.session = n /\ e.snap = c.snap /\ e.price = c.price
  BY <1>2, <1>4 DEF Caches
<1>6. d = IF replay \/ c.price[leg] = None THEN e ELSE Committed(e, leg, q, c.price[leg].price)
  BY DEF OnMeta, m, n
<1> HIDE DEF e
<1>7. CASE replay \/ c.price[leg] = None
  BY <1>2, <1>3, <1>4, <1>5, <1>6, <1>7
<1>8. CASE ~(replay \/ c.price[leg] = None)
  <2>1. c.price[leg].price \in Nat
    BY <1>8 DEF Caches
  <2>2. PICK v \in Nat : v = c.price[leg].price
    BY <2>1
  <2>3. PICK f \in Caches : f = e /\ d = Committed(f, leg, q, v)
    BY <1>5, <1>6, <1>8, <2>2
  <2>4. /\ d \in Caches /\ d.meta = f.meta /\ d.session = f.session
        /\ d.snap[leg] = Priced(q, v)
        /\ \A k \in Legs : k # leg => d.snap[k] = f.snap[k]
    BY <2>3, CommittedIs
  <2> QED
    BY <1>2, <1>3, <1>4, <1>5, <1>8, <2>2, <2>3, <2>4
<1> QED
  BY <1>7, <1>8

\* A price takes the waiting provenance with it: a genuine one is committed, a replay is not.
LEMMA PriceIs ==
  ASSUME NEW c \in Caches, NEW leg \in Legs, NEW q \in Quotes, now \in Nat,
         NEW d, d = OnPrice(c, leg, q)
  PROVE  /\ d \in Caches /\ d.session = c.session /\ d.meta[leg] = None
         /\ d.price[leg] # None /\ d.price[leg].price = q.price
         /\ \A k \in Legs : k # leg => d.snap[k] = c.snap[k] /\ d.meta[k] = c.meta[k]
         /\ c.meta[leg] = None \/ c.meta[leg].replay => d.snap[leg] = c.snap[leg]
         /\ c.meta[leg] # None /\ ~c.meta[leg].replay =>
              d.snap[leg] = Priced(c.meta[leg].q, q.price)
<1> DEFINE r == [c.price EXCEPT ![leg] = [seq |-> q.seq, price |-> q.price]]
           m == [c.meta EXCEPT ![leg] = None]
           e == [c EXCEPT !.price = r, !.meta = m, !.last = now]
<1>1. q.seq \in Nat \ {0} /\ q.price \in Nat
  BY DEF Quotes
<1>2. r \in [Legs -> [seq : Nat, price : Nat] \cup {None}] /\ r[leg] = [seq |-> q.seq, price |-> q.price]
  BY <1>1 DEF Caches
<1>3. /\ m \in [Legs -> [q : Quotes, replay : BOOLEAN, seq : Nat \ {0}] \cup {None}] /\ m[leg] = None
      /\ \A k \in Legs : k # leg => m[k] = c.meta[k]
  BY DEF Caches
<1>4. r[leg] # None /\ r[leg].price = q.price
  BY <1>1, <1>2 DEF None
<1> HIDE DEF r, m
<1>5. /\ e \in Caches /\ e.meta = m /\ e.session = c.session /\ e.snap = c.snap /\ e.price = r
  BY <1>2, <1>3 DEF Caches
<1>6. d = IF c.meta[leg] = None THEN e
          ELSE IF c.meta[leg].replay THEN [e EXCEPT !.replayed[leg] = TRUE]
          ELSE Committed(e, leg, c.meta[leg].q, q.price)
  BY DEF OnPrice, r, m
<1> HIDE DEF e
<1>7. CASE c.meta[leg] = None
  BY <1>3, <1>4, <1>5, <1>6, <1>7
<1>8. CASE c.meta[leg] # None /\ c.meta[leg].replay
  <2>1. d = [e EXCEPT !.replayed[leg] = TRUE]
    BY <1>6, <1>8
  <2>2. d \in Caches /\ d.meta = m /\ d.session = c.session /\ d.snap = c.snap /\ d.price = r
    <3>1. PICK w \in [Legs -> BOOLEAN] : d = [e EXCEPT !.replayed = w]
      BY <1>5, <2>1 DEF Caches
    <3> QED
      BY <1>5, <3>1 DEF Caches
  <2> QED
    BY <1>3, <1>4, <1>8, <2>2
<1>9. CASE c.meta[leg] # None /\ ~c.meta[leg].replay
  <2>1. PICK p \in Quotes : p = c.meta[leg].q
    BY <1>9 DEF Caches
  <2>2. PICK f \in Caches, v \in Nat : f = e /\ v = q.price /\ d = Committed(f, leg, p, v)
    BY <1>1, <1>5, <1>6, <1>9, <2>1
  <2>3. /\ d \in Caches /\ d.meta = f.meta /\ d.session = f.session
        /\ d.snap[leg] = Priced(p, v) /\ d.price[leg] # None /\ d.price[leg].price = v
        /\ \A k \in Legs : k # leg => d.snap[k] = f.snap[k]
    BY <2>2, CommittedIs
  <2> QED
    BY <1>3, <1>5, <1>9, <2>1, <2>2, <2>3
<1> QED
  BY <1>7, <1>8, <1>9

\* A quote with its own price is itself.
LEMMA SamePrice == \A q \in Quotes : \A v \in Nat : Priced(q, v) = q <=> v = q.price
<1> SUFFICES ASSUME NEW q \in Quotes, NEW v \in Nat PROVE Priced(q, v) = q <=> v = q.price
  OBVIOUS
<1>1. q = [leg |-> q.leg, session |-> q.session, seq |-> q.seq, price |-> q.price, epoch |-> q.epoch, sub |-> q.sub]
  BY DEF Quotes
<1> QED
  BY <1>1 DEF Quotes, Priced

\* What a message leaves in the cache: a genuine quote as it was made, nothing else.
LEMMA OnIs ==
  ASSUME NEW c \in Caches, NEW m \in Msgs, now \in Nat, NEW d, d = On(c, m)
  PROVE  /\ d \in Caches /\ (c.session # 0 => d.session # 0)
         /\ m.t \in {"quote", "kept"} =>
              /\ d.snap[m.leg] = m.q /\ d.session # 0
              /\ \A k \in Legs : k # m.leg => d.snap[k] = c.snap[k]
         /\ m.t = "replay" => \A k \in Legs : d.snap[k] = c.snap[k]
         /\ m.t = "keptreplay" /\ c.meta[m.leg] = None => \A k \in Legs : d.snap[k] = c.snap[k]
         /\ m.t \notin QuoteKinds => \A k \in Legs : d.snap[k] = c.snap[k] /\ d.meta[k] = c.meta[k]
         /\ m.t \in QuoteKinds => \A k \in Legs : k # m.leg => d.meta[k] = c.meta[k]
<1>1. CASE m.t \in {"quote", "replay"}
  <2>1. PICK leg \in Legs, q \in Quotes : leg = m.leg /\ q = m.q
    BY <1>1 DEF Msgs, QuoteKinds
  <2>7. q.price \in Nat
    BY DEF Quotes
  <2>2. PICK replay \in BOOLEAN : (replay <=> m.t = "replay") /\ d = OnQuote(c, leg, q, replay)
    BY <1>1, <2>1 DEF On
  <2>3. PICK e : e = OnMeta(c, leg, q, replay) /\ d = OnPrice(e, leg, q)
    BY <2>2 DEF OnQuote
  <2>4. /\ e \in Caches /\ e.session # 0
        /\ e.meta[leg] # None /\ e.meta[leg].replay = replay /\ e.meta[leg].q = q
        /\ \A k \in Legs : k # leg => e.snap[k] = c.snap[k] /\ e.meta[k] = c.meta[k]
        /\ replay => e.snap[leg] = c.snap[leg]
    BY <2>3, MetaIs
  <2>5. /\ d \in Caches /\ d.session = e.session
        /\ \A k \in Legs : k # leg => d.snap[k] = e.snap[k] /\ d.meta[k] = e.meta[k]
        /\ e.meta[leg].replay => d.snap[leg] = e.snap[leg]
        /\ ~e.meta[leg].replay => d.snap[leg] = Priced(e.meta[leg].q, q.price)
    BY <2>3, <2>4, PriceIs
  <2>6. Priced(q, q.price) = q
    BY <2>7, SamePrice
  <2> QED
    BY <1>1, <2>1, <2>2, <2>4, <2>5, <2>6 DEF QuoteKinds
<1>2. CASE m.t \in {"kept", "keptreplay"}
  <2>1. PICK leg \in Legs, q \in Quotes : leg = m.leg /\ q = m.q
    BY <1>2 DEF Msgs, QuoteKinds
  <2>7. q.price \in Nat
    BY DEF Quotes
  <2>2. PICK replay \in BOOLEAN : (replay <=> m.t = "keptreplay") /\ d = OnKept(c, leg, q, replay)
    BY <1>2, <2>1 DEF On
  <2>3. PICK e : e = OnPrice(c, leg, q) /\ d = OnMeta(e, leg, q, replay)
    BY <2>2 DEF OnKept
  <2>4. /\ e \in Caches /\ e.session = c.session /\ e.price[leg] # None /\ e.price[leg].price = q.price
        /\ \A k \in Legs : k # leg => e.snap[k] = c.snap[k] /\ e.meta[k] = c.meta[k]
        /\ c.meta[leg] = None => e.snap[leg] = c.snap[leg]
    BY <2>3, PriceIs
  <2>5. /\ d \in Caches /\ d.session # 0
        /\ \A k \in Legs : k # leg => d.snap[k] = e.snap[k] /\ d.meta[k] = e.meta[k]
        /\ replay => d.snap[leg] = e.snap[leg]
        /\ ~replay => d.snap[leg] = Priced(q, q.price)
    BY <2>3, <2>4, MetaIs
  <2>6. Priced(q, q.price) = q
    BY <2>7, SamePrice
  <2> QED
    BY <1>2, <2>1, <2>2, <2>4, <2>5, <2>6 DEF QuoteKinds
<1>3. CASE m.t = "kill"
  <2>1. d = [c EXCEPT !.kill = m.q] /\ m.q \in BOOLEAN
    BY <1>3 DEF On, Msgs, QuoteKinds
  <2> QED
    BY <1>3, <2>1 DEF Caches, QuoteKinds
<1>4. CASE m.t \in {"session", "beat"}
  <2>1. m.q \in Nat \ {0}
    BY <1>4 DEF Msgs, QuoteKinds
  <2>2. PICK n \in Nat \ {0} : d = [c EXCEPT !.session = n, !.last = now]
    BY <1>4, <2>1 DEF On, Caches
  <2> QED
    BY <1>4, <2>2 DEF Caches, QuoteKinds
<1>5. m.t \in QuoteKinds \cup {"kill", "session", "beat"}
  BY DEF Msgs
<1> QED
  BY <1>1, <1>2, <1>3, <1>4, <1>5 DEF QuoteKinds

(* --- what a look at the pair makes of the confirmation -------------------- *)

\* A ready pair is a pair of quotes of one session, not too old for a breach.
LEMMA ReadyIs ==
  ASSUME IInv, PairReady, Breached
  PROVE  /\ Observation \in Observations /\ cache.snap["short"].session = cache.snap["long"].session
         /\ {Observation.short, Observation.long} \subseteq history
         /\ Observation.short.leg = "short" /\ Observation.long.leg = "long"
         /\ Spread(Observation.short, Observation.long) \in Threshold..Width
         /\ now >= FillGrace /\ now - Observation.short.epoch <= MaxAge /\ now - Observation.long.epoch <= MaxAge
<1>1. PICK s, l : s = cache.snap["short"] /\ l = cache.snap["long"]
  OBVIOUS
<1>2. s # None /\ l # None
  BY <1>1 DEF PairReady, PairUsable
<1>3. s \in Maybe /\ l \in Maybe /\ now \in Nat /\ history \subseteq Quotes
  BY <1>1, Limits DEF IInv, Types, Caches, Legs
<1>4. s \in Quotes /\ l \in Quotes
  BY <1>2, <1>3 DEF Maybe
<1>5. {s, l} \subseteq history /\ s.leg = "short" /\ l.leg = "long"
  BY <1>1, <1>2 DEF IInv, Ordered, Made, Legs
<1>6. s.session = cache.session /\ l.session = cache.session
  BY <1>1, <1>2 DEF PairReady, PairUsable, IInv, Marked, Legs
<1>7. now >= FillGrace /\ now - s.epoch <= MaxAge /\ now - l.epoch <= MaxAge
  BY <1>1 DEF PairReady, PairUsable
<1>8. s.price \in Nat /\ l.price \in Nat
  BY <1>4 DEF Quotes
<1>9. Spread(s, l) \in Threshold..Width
  BY <1>1, <1>8, Limits DEF PairReady, Breached, Spread
<1>10. Observation = [short |-> s, long |-> l, at |-> now]
  BY <1>1 DEF Observation
<1>11. Observation \in Observations
  BY <1>3, <1>4, <1>10 DEF Observations
<1> QED
  BY <1>1, <1>5, <1>6, <1>7, <1>9, <1>10, <1>11

\* The numbers of a new pair are above those of the last one counted.
LEMMA NewerIs ==
  ASSUME IInv, PairReady, Breached, conf.count > 0, Advanced(conf),
         conf.session = cache.snap["short"].session
  PROVE  /\ conf.short.seq <= cache.snap["short"].seq /\ conf.long.seq <= cache.snap["long"].seq
         /\ conf.short.seq < cache.snap["short"].seq \/ conf.long.seq < cache.snap["long"].seq
<1>1. PICK s, l, a, b : s = cache.snap["short"] /\ l = cache.snap["long"] /\ a = conf.short /\ b = conf.long
  OBVIOUS
<1>2. {s, l} \subseteq history /\ s.leg = "short" /\ l.leg = "long" /\ s.session = l.session
  BY <1>1, ReadyIs DEF Observation
<1>3. conf.count \in Nat /\ Len(counted) = conf.count /\ conf.count \in 1..Len(counted)
  BY DEF IInv, Types, Counts, Confs
<1>4. /\ {a, b} \subseteq history /\ a.leg = "short" /\ b.leg = "long"
      /\ a.session = conf.session /\ b.session = conf.session
  BY <1>1, <1>3 DEF IInv, Counts
<1>5. {s, l, a, b} \subseteq Quotes
  BY <1>2, <1>4 DEF IInv, Types
<1>6. /\ \A q \in {s, l, a, b} : q # None /\ q.session \in Nat /\ q.seq \in Nat /\ q.epoch \in Nat
  BY <1>5, QuoteIs DEF Quotes
<1>7. Le(a, s) /\ Le(b, l)
  BY <1>1, <1>6 DEF IInv, Ordered, LastOf, Legs
<1>8. a.seq <= s.seq /\ b.seq <= l.seq
  BY <1>1, <1>2, <1>4, <1>6, <1>7 DEF Le
<1>9. s.seq > a.seq \/ s.epoch > a.epoch \/ l.seq > b.seq \/ l.epoch > b.epoch
  BY <1>1, <1>3 DEF Advanced
<1>10. s.seq = a.seq => s = a
  BY <1>1, <1>2, <1>4 DEF IInv, Numbered
<1>11. l.seq = b.seq => l = b
  BY <1>1, <1>2, <1>4 DEF IInv, Numbered
<1>12. a.seq < s.seq \/ b.seq < l.seq
  BY <1>6, <1>8, <1>9, <1>10, <1>11
<1> QED
  BY <1>1, <1>8, <1>12

\* The confirmation that a pair is compared with.
LEMMA StillIs ==
  ASSUME IInv
  PROVE  \/ StillCounts(conf) = Reset
         \/ /\ StillCounts(conf) = conf /\ conf.count > 0
            /\ conf.session = cache.snap["short"].session /\ now - conf.start <= Window
<1>1. conf.count \in Nat
  BY DEF IInv, Types, Confs
<1>2. CASE conf.count = 0
  BY <1>2 DEF StillCounts, IInv, Counts
<1>3. CASE conf.count > 0
  <2>1. conf.session # 0 /\ conf.start \in Nat /\ now \in Nat
    BY <1>3, Limits DEF IInv, Counts, Types, Confs
  <2> QED
    BY <1>3, <2>1, Limits DEF StillCounts
<1> QED
  BY <1>1, <1>2, <1>3

\* What a look at the pair leaves: nothing, what was there, a first pair or one
\* more.
LEMMA ConfirmationIs ==
  ASSUME IInv
  PROVE  \/ Confirmation = Reset
         \/ Confirmation = conf /\ conf.count > 0
         \/ PairReady /\ Breached /\ Confirmation = Counted(Reset) /\ conf # Counted(Reset)
         \/ /\ PairReady /\ Breached /\ Confirmation = Counted(conf) /\ conf.count > 0 /\ Advanced(conf)
            /\ conf.session = cache.snap["short"].session /\ now - conf.start <= Window
<1>1. conf.count \in Nat /\ now \in Nat /\ conf \in Confs
  BY Limits DEF IInv, Types, Confs
<1>2. CASE ~(PairReady /\ Breached)
  BY <1>2 DEF Confirmation
<1>3. CASE PairReady /\ Breached /\ StillCounts(conf) = Reset
  <2>1. Confirmation = Counted(Reset)
    BY <1>3 DEF Confirmation, Next1, Advanced, Reset
  <2>2. ASSUME conf = Counted(Reset)
        PROVE  FALSE
    <3>1. conf.count = 1 /\ conf.start = now /\ conf.session = cache.snap["short"].session
      BY <2>2 DEF Counted, Reset
    <3>2. StillCounts(conf) = conf
      BY <1>1, <3>1, Limits DEF StillCounts
    <3> QED
      BY <1>3, <3>1, <3>2 DEF Reset
  <2> QED
    BY <1>3, <2>1, <2>2
<1>4. CASE /\ PairReady /\ Breached /\ StillCounts(conf) = conf /\ conf.count > 0
           /\ conf.session = cache.snap["short"].session /\ now - conf.start <= Window
  BY <1>4 DEF Confirmation, Next1
<1> QED
  BY <1>2, <1>3, <1>4, StillIs

\* A look at the pair: what is counted was seen.
LEMMA ObserveIs ==
  ASSUME IInv, Observe, UNCHANGED <<now, history, cache>>
  PROVE  /\ conf' \in Confs /\ counted' \in Seq(Observations) /\ Counts'
         /\ \A l \in Legs : LastOf(l)' \in {None, LastOf(l), cache.snap[l]}
         /\ Confirmed => Len(counted') >= Required
<1> USE DEF Confs
<1>1. conf' = Confirmation /\ conf \in Confs /\ counted \in Seq(Observations) /\ Len(counted) = conf.count
  BY DEF Observe, IInv, Types, Counts
<1>2. now \in Nat /\ now' = now /\ history' = history /\ cache' = cache
  BY Limits DEF IInv, Types
<1>3. CASE conf' = Reset
  <2>1. counted' = <<>> /\ Reset.count = 0 /\ Reset.short = None /\ Reset.long = None
    BY <1>3 DEF Observe, Reset
  <2>2. Reset \in Confs
    BY DEF Reset, Maybe
  <2>3. Counts'
    BY <1>3, <2>1 DEF Counts
  <2>4. ~Confirmed
    BY <1>1, <1>3, <2>1, Limits DEF Confirmed
  <2> QED
    BY <1>3, <2>1, <2>2, <2>3, <2>4 DEF LastOf
<1>4. CASE conf' = conf /\ conf.count > 0
  <2>1. counted' = counted
    BY <1>4 DEF Observe
  <2>2. Counts'
    BY <1>2, <1>4, <2>1 DEF IInv, Counts
  <2>3. Confirmed => Len(counted') >= Required
    BY <1>1, <1>4, <2>1 DEF Confirmed
  <2> QED
    BY <1>1, <1>4, <2>1, <2>2, <2>3 DEF LastOf
<1>5. CASE PairReady /\ Breached /\ conf' = Counted(Reset) /\ conf # Counted(Reset)
  <2>1. PICK o \in Observations : o = Observation
    BY <1>5, ReadyIs
  <2>2. /\ o.short = cache.snap["short"] /\ o.long = cache.snap["long"] /\ o.at = now
        /\ o.short \in Quotes /\ o.long \in Quotes
    BY <2>1 DEF Observation, Observations
  <2>3. conf' = [count |-> 1, start |-> now, short |-> o.short, long |-> o.long, session |-> o.short.session]
    BY <1>5, <2>2 DEF Counted, Reset
  <2>4. conf' \in Confs
    BY <1>2, <2>2, <2>3 DEF Maybe, Quotes
  <2>5. counted' = <<o>>
    BY <1>5, <2>1, <2>3 DEF Observe
  <2>6. counted' \in Seq(Observations) /\ Len(counted') = 1 /\ counted'[1] = o
    BY <2>1, <2>5
  <2>7. o.short.session # 0 /\ o.short.session = o.long.session
    BY <1>5, <2>2, ReadyIs DEF Quotes
  <2>8. Counts'
    <3>1. /\ {o.short, o.long} \subseteq history /\ o.short.leg = "short" /\ o.long.leg = "long"
          /\ Spread(o.short, o.long) \in Threshold..Width
          /\ o.at >= FillGrace /\ o.at - o.short.epoch <= MaxAge /\ o.at - o.long.epoch <= MaxAge
          /\ o.at - conf'.start <= Window
      BY <1>2, <1>5, <2>1, <2>2, <2>3, ReadyIs, Limits
    <3> QED
      BY <1>2, <2>2, <2>3, <2>6, <2>7, <3>1 DEF Counts
  <2>9. Confirmed => Len(counted') >= Required
    BY <1>1, <2>3, <2>6 DEF Confirmed
  <2> QED
    BY <2>2, <2>3, <2>4, <2>6, <2>8, <2>9 DEF LastOf, Legs
<1>6. CASE /\ PairReady /\ Breached /\ conf' = Counted(conf) /\ conf.count > 0 /\ Advanced(conf)
           /\ conf.session = cache.snap["short"].session /\ now - conf.start <= Window
  <2>1. PICK o \in Observations : o = Observation
    BY <1>6, ReadyIs
  <2>2. /\ o.short = cache.snap["short"] /\ o.long = cache.snap["long"] /\ o.at = now
        /\ o.short \in Quotes /\ o.long \in Quotes
    BY <2>1 DEF Observation, Observations
  <2>3. PICK n \in Nat : n = conf.count /\ n = Len(counted) /\ n > 0
    BY <1>1, <1>6
  <2>4. conf' = [count |-> n + 1, start |-> conf.start, short |-> o.short, long |-> o.long, session |-> conf.session]
    BY <1>6, <2>2, <2>3 DEF Counted
  <2>5. conf' \in Confs
    BY <1>1, <2>2, <2>4 DEF Maybe
  <2>6. counted' = Append(counted, o)
    <3>1. conf'.count = n + 1
      BY <2>4
    <3>2. conf'.count # conf.count /\ conf'.count # 0 /\ conf'.count # 1
      BY <2>3, <3>1
    <3>3. conf' # conf
      BY <3>2
    <3> QED
      BY <2>1, <3>2, <3>3 DEF Observe
  <2>7. /\ counted' \in Seq(Observations) /\ Len(counted') = n + 1 /\ counted'[n + 1] = o
        /\ \A i \in 1..n : counted'[i] = counted[i]
    BY <1>1, <2>1, <2>3, <2>6, AppendProperties
  <2>8. o.short.session = conf.session /\ o.long.session = conf.session
    BY <1>6, <2>2, ReadyIs
  <2>9. Counts'
    <3>1. /\ {o.short, o.long} \subseteq history /\ o.short.leg = "short" /\ o.long.leg = "long"
          /\ Spread(o.short, o.long) \in Threshold..Width
          /\ o.at >= FillGrace /\ o.at - o.short.epoch <= MaxAge /\ o.at - o.long.epoch <= MaxAge
          /\ o.at - conf'.start <= Window
      BY <1>6, <2>1, <2>2, <2>4, ReadyIs
    <3>2. /\ conf.short.seq <= o.short.seq /\ conf.long.seq <= o.long.seq
          /\ conf.short.seq < o.short.seq \/ conf.long.seq < o.long.seq
      BY <1>6, <2>2, NewerIs
    <3>3. \A i \in 1..n : counted[i] \in Observations /\ counted[i].short.seq \in Nat /\ counted[i].long.seq \in Nat
      <4>1. \A i \in 1..n : counted[i] \in Observations
        BY <1>1, <2>3
      <4> QED
        BY <4>1 DEF Observations, Quotes
    <3>4. o.short.seq \in Nat /\ o.long.seq \in Nat
      BY <2>2 DEF Quotes
    <3>5. ASSUME NEW i \in 1..n
          PROVE  /\ counted[i].short.seq <= o.short.seq /\ counted[i].long.seq <= o.long.seq
                 /\ counted[i].short.seq < o.short.seq \/ counted[i].long.seq < o.long.seq
      <4>1. conf.short = counted[n].short /\ conf.long = counted[n].long
        BY <2>3 DEF IInv, Counts
      <4>2. CASE i = n
        BY <3>2, <4>1, <4>2
      <4>3. CASE i < n
        <5>1. /\ counted[i].short.seq <= counted[n].short.seq /\ counted[i].long.seq <= counted[n].long.seq
          BY <2>3, <4>3 DEF IInv, Counts
        <5>2. n \in 1..n
          BY <2>3
        <5> QED
          BY <3>2, <3>3, <3>4, <4>1, <5>1, <5>2
      <4> QED
        BY <2>3, <4>2, <4>3
    <3>6. \A i \in 1..n : LET p == counted[i] IN
            /\ {p.short, p.long} \subseteq history /\ p.short.leg = "short" /\ p.long.leg = "long"
            /\ Spread(p.short, p.long) \in Threshold..Width
            /\ p.short.session = conf.session /\ p.long.session = conf.session
            /\ p.at >= FillGrace /\ p.at - p.short.epoch <= MaxAge /\ p.at - p.long.epoch <= MaxAge
            /\ p.at - conf.start <= Window
            /\ \A j \in 1..n : i < j =>
                 /\ p.short.seq <= counted[j].short.seq /\ p.long.seq <= counted[j].long.seq
                 /\ p.short.seq < counted[j].short.seq \/ p.long.seq < counted[j].long.seq
      BY <2>3 DEF IInv, Counts
    <3>7. conf.start = counted'[1].at /\ conf.session # 0 /\ conf.start <= now
      BY <2>3, <2>7 DEF IInv, Counts
    <3>8. ASSUME NEW i \in 1..(n + 1)
          PROVE  LET p == counted'[i] IN
            /\ {p.short, p.long} \subseteq history /\ p.short.leg = "short" /\ p.long.leg = "long"
            /\ Spread(p.short, p.long) \in Threshold..Width
            /\ p.short.session = conf'.session /\ p.long.session = conf'.session
            /\ p.at >= FillGrace /\ p.at - p.short.epoch <= MaxAge /\ p.at - p.long.epoch <= MaxAge
            /\ p.at - conf'.start <= Window
      BY <2>4, <2>7, <2>8, <3>1, <3>6
    <3>9. ASSUME NEW i \in 1..(n + 1), NEW j \in 1..(n + 1), i < j
          PROVE  LET p == counted'[i] IN
            /\ p.short.seq <= counted'[j].short.seq /\ p.long.seq <= counted'[j].long.seq
            /\ p.short.seq < counted'[j].short.seq \/ p.long.seq < counted'[j].long.seq
      <4>1. i \in 1..n /\ counted'[i] = counted[i]
        BY <2>7, <3>9
      <4>2. CASE j = n + 1
        BY <2>7, <3>5, <4>1, <4>2
      <4>3. CASE j \in 1..n
        BY <2>7, <3>6, <3>9, <4>1, <4>3
      <4> QED
        BY <4>2, <4>3
    <3>10. /\ Len(counted') = conf'.count /\ conf'.count > 0 /\ conf'.count = n + 1
           /\ conf'.short = counted'[n + 1].short /\ conf'.long = counted'[n + 1].long
           /\ conf'.start = counted'[1].at /\ conf'.session # 0 /\ conf'.start <= now
      BY <2>3, <2>4, <2>7, <3>7
    <3> QED
      BY <1>2, <2>3, <2>7, <3>8, <3>9, <3>10 DEF Counts
  <2>10. Confirmed => Len(counted') >= Required
    BY <1>1, <2>4, <2>7 DEF Confirmed
  <2> QED
    BY <2>2, <2>4, <2>5, <2>7, <2>9, <2>10 DEF LastOf, Legs
<1> QED
  BY <1>1, <1>3, <1>4, <1>5, <1>6, ConfirmationIs

(* --- what new messages and the next one make of the order ----------------- *)

\* The last quote of a leg that was counted, or none.
LEMMA LastIs == ASSUME Types PROVE \A l \in Legs : LastOf(l) \in Maybe /\ cache.snap[l] \in Maybe
  /\ retained.quote[l] \in Maybe
BY DEF Types, Confs, Caches, LastOf

\* Every message of the wire is one.
LEMMA WireIs ==
  ASSUME Types
  PROVE  \A i \in 1..Len(wire) : wire[i] \in Msgs /\ (IsQuote(i) => wire[i].leg \in Legs /\ wire[i].q \in Quotes)
<1>1. \A i \in 1..Len(wire) : wire[i] \in Msgs
  BY DEF Types
<1>2. \A m \in Msgs : m.t \in QuoteKinds => m.leg \in Legs /\ m.q \in Quotes
  BY DEF Msgs, QuoteKinds
<1> QED
  BY <1>1, <1>2 DEF IsQuote

\* The order of a leg's quotes is reflexive.
LEMMA LeSelf == \A q \in Maybe : Le(q, q)
<1>1. \A q \in Quotes : q.session = q.session /\ q.seq \in Nat
  BY DEF Quotes
<1> QED
  BY <1>1 DEF Maybe, Le

\* Messages of quotes that the broker has just retained keep the order.
LEMMA SentIs ==
  ASSUME IInv, NEW ms \in Seq(Msgs), Sent(ms), UNCHANGED <<cache, conf, linked>>, history \subseteq history',
         retained'.quote \in [Legs -> Maybe],
         \A l \in Legs : /\ retained'.quote[l] = None
                              \/ (retained'.quote[l] \in history' /\ retained'.quote[l].leg = l)
                         /\ Le(retained.quote[l], retained'.quote[l])
                         /\ feed'.seq[l] > 0 => retained'.quote[l] # None,
         \A i \in 1..Len(ms) : ms[i].t \in QuoteKinds => ms[i].t # "keptreplay"
           /\ ms[i].q = retained'.quote[ms[i].leg]
  PROVE  wire' \in Seq(Msgs) /\ Ordered' /\ Behind'
<1>1. PICK n \in Nat : n = Len(wire) /\ wire \in Seq(Msgs)
  BY DEF IInv, Types
<1>2. /\ wire' \in Seq(Msgs) /\ Len(wire') \in Nat /\ Len(wire') >= n /\ (~linked => wire' = wire)
      /\ \A i \in 1..n : wire'[i] = wire[i]
      /\ \A i \in 1..Len(wire') : i > n => \E j \in 1..Len(ms) : wire'[i] = ms[j]
  <2>1. CASE linked
    <3>1. wire' = wire \o ms
      BY <2>1 DEF Sent
    <3> QED
      BY <1>1, <2>1, <3>1, ConcatProperties
  <2>2. CASE ~linked
    BY <1>1, <2>2 DEF Sent
  <2> QED
    BY <2>1, <2>2
<1>3. \A m \in Msgs : m.t \in QuoteKinds => m.leg \in Legs /\ m.q \in Quotes
  BY DEF Msgs, QuoteKinds
<1>4. \A j \in 1..Len(ms) : ms[j] \in Msgs
  OBVIOUS
<1>5. \A i \in 1..Len(wire') : i > n /\ wire'[i].t \in QuoteKinds =>
        /\ wire'[i].leg \in Legs /\ wire'[i].q \in Quotes /\ wire'[i].t # "keptreplay"
        /\ wire'[i].q = retained'.quote[wire'[i].leg]
  BY <1>2, <1>3, <1>4
<1>6. \A i \in 1..n : wire[i] \in Msgs /\ (IsQuote(i) => wire[i].leg \in Legs /\ wire[i].q \in Quotes)
  BY <1>1, WireIs DEF IInv
<1>7. \A l \in Legs : LastOf(l) \in Maybe /\ cache.snap[l] \in Maybe /\ retained.quote[l] \in Maybe
        /\ retained'.quote[l] \in Maybe
  BY LastIs DEF IInv
<1>8. cache' = cache /\ conf' = conf /\ \A l \in Legs : LastOf(l)' = LastOf(l)
  BY DEF LastOf
<1>9. ASSUME NEW l \in Legs
      PROVE  /\ retained'.quote[l] = None \/ (retained'.quote[l] \in history' /\ retained'.quote[l].leg = l)
             /\ cache.snap[l] = None \/ (cache.snap[l] \in history' /\ cache.snap[l].leg = l)
             /\ LastOf(l) = None \/ (LastOf(l) \in history' /\ LastOf(l).leg = l)
             /\ Le(cache.snap[l], retained'.quote[l]) /\ Le(LastOf(l), retained'.quote[l])
             /\ feed'.seq[l] > 0 => retained'.quote[l] # None
             /\ cache.snap[l] # None => Le(LastOf(l), cache.snap[l])
  <2>1. /\ Le(cache.snap[l], retained.quote[l]) /\ Le(LastOf(l), retained.quote[l])
        /\ cache.snap[l] # None => Le(LastOf(l), cache.snap[l])
    BY DEF IInv, Ordered
  <2>2. Le(cache.snap[l], retained'.quote[l]) /\ Le(LastOf(l), retained'.quote[l])
    <3>1. PICK a \in Maybe, b \in Maybe, c \in Maybe, d \in Maybe :
            a = cache.snap[l] /\ b = LastOf(l) /\ c = retained.quote[l] /\ d = retained'.quote[l]
      BY <1>7
    <3>2. Le(a, c) /\ Le(b, c) /\ Le(c, d)
      BY <2>1, <3>1
    <3>3. Le(a, d) /\ Le(b, d)
      BY <3>2, LeTrans
    <3> QED
      BY <3>1, <3>3
  <2>3. /\ cache.snap[l] = None \/ (cache.snap[l] \in history' /\ cache.snap[l].leg = l)
        /\ LastOf(l) = None \/ (LastOf(l) \in history' /\ LastOf(l).leg = l)
    BY DEF IInv, Ordered, Made
  <2>4. /\ retained'.quote[l] = None \/ (retained'.quote[l] \in history' /\ retained'.quote[l].leg = l)
        /\ feed'.seq[l] > 0 => retained'.quote[l] # None
    OBVIOUS
  <2> QED
    BY <2>1, <2>2, <2>3, <2>4
<1>10. ASSUME NEW l \in Legs, NEW i \in 1..Len(wire'), wire'[i].t \in QuoteKinds, wire'[i].leg = l
       PROVE  /\ wire'[i].q = None \/ (wire'[i].q \in history' /\ wire'[i].q.leg = l)
              /\ Le(wire'[i].q, retained'.quote[l]) /\ Le(cache.snap[l], wire'[i].q) /\ Le(LastOf(l), wire'[i].q)
  <2>1. CASE i > n
    BY <1>5, <1>7, <1>9, <1>10, <2>1, LeSelf
  <2>2. CASE i <= n
    <3>1. i \in 1..n /\ wire'[i] = wire[i] /\ IsQuote(i) /\ wire[i].q \in Quotes
      BY <1>2, <1>6, <1>10, <2>2 DEF IsQuote
    <3>2. Made(l, wire[i].q) /\ Le(wire[i].q, retained.quote[l]) /\ Le(cache.snap[l], wire[i].q)
            /\ Le(LastOf(l), wire[i].q)
      BY <1>1, <1>10, <3>1 DEF IInv, Ordered
    <3>3. Le(wire[i].q, retained'.quote[l])
      <4>1. PICK a \in Maybe, c \in Maybe, d \in Maybe :
              a = wire[i].q /\ c = retained.quote[l] /\ d = retained'.quote[l]
        BY <1>7, <3>1 DEF Maybe
      <4>2. Le(a, c) /\ Le(c, d)
        BY <3>2, <4>1
      <4>3. Le(a, d)
        BY <4>2, LeTrans
      <4> QED
        BY <4>1, <4>3
    <3> QED
      BY <3>1, <3>2, <3>3 DEF Made
  <2> QED
    BY <1>1, <1>2, <2>1, <2>2
<1>11. ASSUME NEW l \in Legs, NEW i \in 1..Len(wire'), wire'[i].t \in QuoteKinds, wire'[i].leg = l,
              NEW j \in 1..Len(wire'), i < j, wire'[j].t \in QuoteKinds, wire'[j].leg = l
       PROVE  Le(wire'[i].q, wire'[j].q)
  <2>1. CASE j > n
    BY <1>5, <1>10, <1>11, <2>1
  <2>2. CASE j <= n
    <3>1. i \in 1..n /\ j \in 1..n
      BY <1>1, <1>11, <2>2
    <3> QED
      BY <1>1, <1>2, <1>11, <3>1 DEF IInv, Ordered, IsQuote
  <2> QED
    BY <1>1, <1>2, <2>1, <2>2
<1>12. Ordered'
  BY <1>8, <1>9, <1>10, <1>11 DEF Ordered, Made, IsQuote
<1>13. ASSUME NEW i \in 1..Len(wire'), wire'[i].t = "keptreplay"
       PROVE  /\ cache'.meta[wire'[i].leg] = None
              /\ \A j \in 1..Len(wire') : j < i /\ wire'[j].t \in QuoteKinds => wire'[j].leg # wire'[i].leg
  <2>1. i \in 1..n
    BY <1>1, <1>2, <1>5, <1>13 DEF QuoteKinds
  <2>2. wire'[i] = wire[i] /\ \A j \in 1..Len(wire') : j < i => j \in 1..n /\ wire'[j] = wire[j]
    BY <1>1, <1>2, <2>1
  <2> QED
    BY <1>1, <1>8, <1>13, <2>1, <2>2 DEF IInv, Behind, IsQuote
<1>14. Behind'
  BY <1>2, <1>13 DEF Behind, IsQuote, IInv
<1> QED
  BY <1>2, <1>12, <1>14

\* The next message keeps the order, and a replayed quote changes no snapshot.
LEMMA ReceiveIs ==
  ASSUME IInv, Receive
  PROVE  cache' \in Caches /\ wire' \in Seq(Msgs) /\ Ordered' /\ Behind' /\ Marked'
<1>1. PICK n \in Nat : n = Len(wire) /\ n > 0 /\ wire \in Seq(Msgs)
  BY DEF IInv, Types, Receive
<1>2. /\ wire' \in Seq(Msgs) /\ Len(wire') = n - 1
      /\ \A i \in 1..(n - 1) : wire'[i] = wire[i + 1]
  BY <1>1, HeadTailProperties DEF Receive
<1>3. PICK m \in Msgs : m = wire[1] /\ cache' = On(cache, m)
  BY <1>1 DEF Receive
<1>4. now \in Nat /\ cache \in Caches /\ linked
  BY <1>1, Limits DEF IInv, Types, Behind
<1>5. /\ UNCHANGED <<history, retained, conf, linked, budget, feed>>
      /\ \A l \in Legs : LastOf(l)' = LastOf(l)
  BY DEF Receive, market, monitor, LastOf
<1>6. /\ cache' \in Caches /\ (cache.session # 0 => cache'.session # 0)
      /\ m.t \in {"quote", "kept"} =>
           /\ cache'.snap[m.leg] = m.q /\ cache'.session # 0
           /\ \A k \in Legs : k # m.leg => cache'.snap[k] = cache.snap[k]
      /\ m.t = "replay" => \A k \in Legs : cache'.snap[k] = cache.snap[k]
      /\ m.t = "keptreplay" /\ cache.meta[m.leg] = None => \A k \in Legs : cache'.snap[k] = cache.snap[k]
      /\ m.t \notin QuoteKinds => \A k \in Legs : cache'.snap[k] = cache.snap[k] /\ cache'.meta[k] = cache.meta[k]
      /\ m.t \in QuoteKinds => \A k \in Legs : k # m.leg => cache'.meta[k] = cache.meta[k]
  BY <1>3, <1>4, OnIs
<1>7. \A i \in 1..Len(wire') : i + 1 \in 1..n /\ wire'[i] = wire[i + 1] /\ i + 1 > 1
  BY <1>1, <1>2
<1>8. 1 \in 1..n /\ (IsQuote(1) <=> m.t \in QuoteKinds)
  BY <1>1, <1>3 DEF IsQuote
<1>9. m.t = "keptreplay" => cache.meta[m.leg] = None
  BY <1>1, <1>3, <1>8 DEF IInv, Behind
<1>10. ASSUME NEW l \in Legs
       PROVE  \/ cache'.snap[l] = cache.snap[l]
              \/ m.t \in {"quote", "kept"} /\ m.leg = l /\ cache'.snap[l] = m.q
  BY <1>6, <1>9 DEF QuoteKinds
<1>11. ASSUME NEW l \in Legs
       PROVE  /\ Made(l, cache'.snap[l]) /\ Le(cache'.snap[l], retained.quote[l])
              /\ cache'.snap[l] # None => Le(LastOf(l), cache'.snap[l])
              /\ \A i \in 1..Len(wire') : wire'[i].t \in QuoteKinds /\ wire'[i].leg = l
                   => Le(cache'.snap[l], wire'[i].q)
  <2>1. CASE cache'.snap[l] = cache.snap[l]
    BY <1>1, <1>7, <2>1 DEF IInv, Ordered, IsQuote
  <2>2. CASE m.t \in {"quote", "kept"} /\ m.leg = l /\ cache'.snap[l] = m.q
    <3>1. IsQuote(1) /\ wire[1].leg = l /\ wire[1].q = m.q
      BY <1>3, <2>2 DEF IsQuote, QuoteKinds
    <3>2. /\ Made(l, m.q) /\ Le(m.q, retained.quote[l]) /\ Le(LastOf(l), m.q)
          /\ \A j \in 1..Len(wire) : 1 < j /\ IsQuote(j) /\ wire[j].leg = l => Le(m.q, wire[j].q)
      BY <1>1, <1>8, <3>1 DEF IInv, Ordered
    <3> QED
      BY <1>1, <1>7, <2>2, <3>2 DEF IsQuote
  <2> QED
    BY <1>10, <2>1, <2>2
<1>12. ASSUME NEW l \in Legs, NEW i \in 1..Len(wire'), wire'[i].t \in QuoteKinds, wire'[i].leg = l
       PROVE  /\ Made(l, wire'[i].q) /\ Le(wire'[i].q, retained.quote[l]) /\ Le(LastOf(l), wire'[i].q)
              /\ \A j \in 1..Len(wire') : i < j /\ wire'[j].t \in QuoteKinds /\ wire'[j].leg = l
                   => Le(wire'[i].q, wire'[j].q)
  <2>1. i + 1 \in 1..Len(wire) /\ wire'[i] = wire[i + 1] /\ IsQuote(i + 1) /\ wire[i + 1].leg = l
    BY <1>1, <1>7, <1>12 DEF IsQuote
  <2>2. /\ Made(l, wire[i + 1].q) /\ Le(wire[i + 1].q, retained.quote[l]) /\ Le(LastOf(l), wire[i + 1].q)
        /\ \A j \in 1..Len(wire) : i + 1 < j /\ IsQuote(j) /\ wire[j].leg = l => Le(wire[i + 1].q, wire[j].q)
    BY <2>1 DEF IInv, Ordered
  <2>3. ASSUME NEW j \in 1..Len(wire'), i < j, wire'[j].t \in QuoteKinds, wire'[j].leg = l
        PROVE  Le(wire'[i].q, wire'[j].q)
    <3>1. j + 1 \in 1..Len(wire) /\ wire'[j] = wire[j + 1] /\ i + 1 < j + 1
      BY <1>1, <1>7, <2>3
    <3> QED
      BY <2>1, <2>2, <2>3, <3>1 DEF IsQuote
  <2> QED
    BY <2>1, <2>2, <2>3
<1>13. \A l \in Legs : /\ Made(l, retained.quote[l]) /\ Made(l, LastOf(l)) /\ Le(LastOf(l), retained.quote[l])
                       /\ feed.seq[l] > 0 => retained.quote[l] # None
  BY DEF IInv, Ordered
<1>14. Ordered'
  BY <1>5, <1>11, <1>12, <1>13 DEF Ordered, Made, IsQuote
<1>15. ASSUME NEW i \in 1..Len(wire'), wire'[i].t = "keptreplay"
       PROVE  /\ cache'.meta[wire'[i].leg] = None
              /\ \A j \in 1..Len(wire') : j < i /\ wire'[j].t \in QuoteKinds => wire'[j].leg # wire'[i].leg
  <2>1. i + 1 \in 1..Len(wire) /\ wire'[i] = wire[i + 1] /\ 1 < i + 1 /\ 1 \in 1..Len(wire)
    BY <1>1, <1>7
  <2>2. /\ cache.meta[wire[i + 1].leg] = None
        /\ \A j \in 1..Len(wire) : j < i + 1 /\ IsQuote(j) => wire[j].leg # wire[i + 1].leg
    BY <1>15, <2>1 DEF IInv, Behind
  <2>3. wire[i + 1].leg \in Legs
    BY <1>15, <2>1, WireIs DEF IInv, IsQuote, QuoteKinds
  <2>4. cache'.meta[wire[i + 1].leg] = None
    BY <1>3, <1>6, <1>8, <2>1, <2>2, <2>3
  <2>5. ASSUME NEW j \in 1..Len(wire'), j < i, wire'[j].t \in QuoteKinds
        PROVE  wire'[j].leg # wire'[i].leg
    <3>1. j + 1 \in 1..Len(wire) /\ wire'[j] = wire[j + 1] /\ j + 1 < i + 1
      BY <1>1, <1>7, <2>5
    <3> QED
      BY <2>1, <2>2, <2>5, <3>1 DEF IsQuote
  <2> QED
    BY <2>1, <2>4, <2>5
<1>16. Behind'
  BY <1>4, <1>5, <1>15 DEF Behind, IsQuote
<1>17. ASSUME NEW l \in Legs, cache'.snap[l] # None
       PROVE  cache'.session # 0
  BY <1>6, <1>10, <1>17 DEF IInv, Marked
<1>18. Marked'
  BY <1>4, <1>5, <1>17 DEF IInv, Marked
<1> QED
  BY <1>2, <1>6, <1>14, <1>16, <1>18

\* The broker answers a subscription with at most one quote of each leg.
LEMMA RetainedIs ==
  ASSUME IInv, NEW leg \in Legs, NEW b \in BOOLEAN, NEW ms, ms = RetainedMsgs(leg, b)
  PROVE  /\ ms \in Seq(Msgs) /\ Len(ms) \in {0, 1}
         /\ Len(ms) = 1 => /\ ms[1].t \in QuoteKinds /\ ms[1].leg = leg /\ ms[1].q = retained.quote[leg]
                           /\ ms[1].q \in Quotes /\ (ms[1].t = "keptreplay" => retained.replay[leg])
<1>1. CASE retained.quote[leg] = None
  BY <1>1 DEF RetainedMsgs
<1>2. CASE retained.quote[leg] # None
  <2>1. PICK q \in Quotes : q = retained.quote[leg]
    BY <1>2 DEF IInv, Types, Maybe
  <2>2. PICK t \in QuoteKinds : ms = <<[t |-> t, leg |-> leg, q |-> q]>> /\ (t = "keptreplay" => retained.replay[leg])
    BY <1>2, <2>1 DEF RetainedMsgs, Msg, QuoteKinds
  <2>3. [t |-> t, leg |-> leg, q |-> q] \in Msgs
    BY <2>1, <2>2 DEF Msgs
  <2> QED
    BY <2>1, <2>2, <2>3
<1> QED
  BY <1>1, <1>2

\* A new connection: what the broker retains, one quote of each leg at most,
\* among messages of the session and the kill switch.
LEMMA ReconnectIs ==
  ASSUME IInv, Reconnect
  PROVE  /\ wire' \in Seq(Msgs)
         /\ \A i \in 1..Len(wire') : wire'[i].t \in QuoteKinds =>
              /\ wire'[i].leg \in Legs /\ wire'[i].q = retained.quote[wire'[i].leg] /\ wire'[i].q \in Quotes
              /\ wire'[i].t = "keptreplay" => retained.replay[wire'[i].leg]
              /\ \A j \in 1..Len(wire') : j # i /\ wire'[j].t \in QuoteKinds => wire'[j].leg # wire'[i].leg
<1> DEFINE Rest == <<Msg("session", "short", retained.session), Msg("kill", "short", retained.kill)>>
<1>1. PICK metaFirst \in BOOLEAN, sessionFirst \in BOOLEAN :
        wire' = IF sessionFirst THEN Rest \o (RetainedMsgs("short", metaFirst) \o RetainedMsgs("long", metaFirst))
                ELSE (RetainedMsgs("short", metaFirst) \o RetainedMsgs("long", metaFirst)) \o Rest
  BY DEF Reconnect
<1>2. PICK a, b, r : /\ a = RetainedMsgs("short", metaFirst) /\ b = RetainedMsgs("long", metaFirst) /\ r = Rest
  OBVIOUS
<1>3. r \in Seq(Msgs) /\ Len(r) = 2 /\ \A i \in 1..2 : r[i].t \notin QuoteKinds
  <2>1. PICK x, y : x = Msg("session", "short", retained.session) /\ y = Msg("kill", "short", retained.kill)
    OBVIOUS
  <2>2. x \in Msgs /\ y \in Msgs /\ x.t \notin QuoteKinds /\ y.t \notin QuoteKinds
    BY <2>1 DEF Msg, Msgs, QuoteKinds, Legs, IInv, Types
  <2>3. r = <<x, y>>
    BY <1>2, <2>1
  <2> QED
    BY <2>2, <2>3
<1>4. /\ a \in Seq(Msgs) /\ Len(a) \in {0, 1}
      /\ Len(a) = 1 => /\ a[1].t \in QuoteKinds /\ a[1].leg = "short" /\ a[1].q = retained.quote["short"]
                       /\ a[1].q \in Quotes /\ (a[1].t = "keptreplay" => retained.replay["short"])
  BY <1>2, RetainedIs DEF Legs
<1>5. /\ b \in Seq(Msgs) /\ Len(b) \in {0, 1}
      /\ Len(b) = 1 => /\ b[1].t \in QuoteKinds /\ b[1].leg = "long" /\ b[1].q = retained.quote["long"]
                       /\ b[1].q \in Quotes /\ (b[1].t = "keptreplay" => retained.replay["long"])
  BY <1>2, RetainedIs DEF Legs
<1>6. PICK c : c = a \o b
  OBVIOUS
<1>7. /\ c \in Seq(Msgs) /\ Len(c) \in 0..2
      /\ \A i \in 1..Len(c) :
           /\ c[i].leg \in Legs /\ c[i].q = retained.quote[c[i].leg] /\ c[i].q \in Quotes
           /\ c[i].t = "keptreplay" => retained.replay[c[i].leg]
           /\ \A j \in 1..Len(c) : j # i => c[j].leg # c[i].leg
  <2>1. /\ c \in Seq(Msgs) /\ Len(c) = Len(a) + Len(b)
        /\ \A i \in 1..Len(a) : c[i] = a[i]
        /\ \A i \in 1..Len(c) : i > Len(a) => c[i] = b[i - Len(a)]
    BY <1>4, <1>5, <1>6, ConcatProperties
  <2>2. \A i \in 1..Len(c) : \/ i = 1 /\ Len(a) = 1 /\ c[i] = a[1]
                             \/ i = Len(a) + 1 /\ Len(b) = 1 /\ c[i] = b[1]
    BY <1>4, <1>5, <2>1
  <2> QED
    BY <1>4, <1>5, <2>1, <2>2 DEF Legs
<1> HIDE DEF Rest
<1>8. CASE sessionFirst
  <2>1. wire' = r \o c
    BY <1>1, <1>2, <1>6, <1>8
  <2>2. /\ wire' \in Seq(Msgs) /\ Len(wire') = Len(r) + Len(c)
        /\ \A i \in 1..Len(r) : wire'[i] = r[i]
        /\ \A i \in 1..Len(wire') : i > Len(r) => wire'[i] = c[i - Len(r)]
    <3>1. r \in Seq(Msgs) /\ c \in Seq(Msgs)
      BY <1>3, <1>7
    <3> QED
      BY <2>1, <3>1, ConcatProperties
  <2>3. ASSUME NEW i \in 1..Len(wire'), wire'[i].t \in QuoteKinds
        PROVE  \E k \in 1..Len(c) : k = i - 2 /\ wire'[i] = c[k]
    BY <1>3, <1>7, <2>2, <2>3
  <2>4. ASSUME NEW i \in 1..Len(wire'), wire'[i].t \in QuoteKinds
        PROVE  /\ wire'[i].leg \in Legs /\ wire'[i].q = retained.quote[wire'[i].leg] /\ wire'[i].q \in Quotes
               /\ wire'[i].t = "keptreplay" => retained.replay[wire'[i].leg]
               /\ \A j \in 1..Len(wire') : j # i /\ wire'[j].t \in QuoteKinds => wire'[j].leg # wire'[i].leg
    <3>1. PICK k \in 1..Len(c) : k = i - 2 /\ wire'[i] = c[k]
      BY <2>3, <2>4
    <3>2. ASSUME NEW j \in 1..Len(wire'), j # i, wire'[j].t \in QuoteKinds
          PROVE  wire'[j].leg # wire'[i].leg
      <4>1. PICK h \in 1..Len(c) : h = j - 2 /\ wire'[j] = c[h]
        BY <2>3, <3>2
      <4> QED
        BY <1>7, <3>1, <3>2, <4>1
    <3> QED
      BY <1>7, <3>1, <3>2
  <2> QED
    BY <2>2, <2>4
<1>9. CASE ~sessionFirst
  <2>1. wire' = c \o r
    BY <1>1, <1>2, <1>6, <1>9
  <2>2. /\ wire' \in Seq(Msgs) /\ Len(wire') = Len(c) + 2
        /\ \A i \in 1..Len(c) : wire'[i] = c[i]
        /\ \A i \in 1..Len(wire') : i > Len(c) => wire'[i] = r[i - Len(c)]
    BY <1>3, <1>7, <2>1, ConcatProperties, SMTT(40)
  <2>3. \A i \in 1..Len(wire') : wire'[i].t \in QuoteKinds => i \in 1..Len(c) /\ wire'[i] = c[i]
    BY <1>3, <1>7, <2>2
  <2> QED
    BY <1>7, <2>2, <2>3
<1> QED
  BY <1>8, <1>9

(* --- the invariant -------------------------------------------------------- *)

\* It holds at the start of a run.
LEMMA InvInit == BreachInit /\ Untorn => IInv
<1> SUFFICES ASSUME BreachInit, Untorn PROVE IInv
  OBVIOUS
<1> USE DEF BreachInit
<1>1. None \in Maybe /\ EmptyCache \in Caches /\ cache \in Caches
  <2>1. None \in Maybe
    BY DEF Maybe
  <2>2. /\ EmptyCache.price \in [Legs -> [seq : Nat, price : Nat] \cup {None}] /\ EmptyCache.snap \in [Legs -> Maybe]
        /\ EmptyCache.meta \in [Legs -> [q : Quotes, replay : BOOLEAN, seq : Nat \ {0}] \cup {None}]
        /\ EmptyCache.replayed \in [Legs -> BOOLEAN]
    BY <2>1 DEF EmptyCache
  <2>3. EmptyCache \in Caches
    BY <2>2 DEF EmptyCache, Caches
  <2> QED
    BY <2>1, <2>3 DEF Caches
<1>2. Reset \in Confs
  BY <1>1 DEF Reset, Confs
<1>3. Types
  <2>1. budget \in [of : Scenarios, left : 0..MaxFaults]
    BY Limits
  <2> QED
    BY <1>1, <1>2, <2>1, Limits DEF Types
<1>4. Numbered
  BY DEF Numbered
<1>5. \A l \in Legs : cache.snap[l] = None /\ cache.meta[l] = None /\ LastOf(l) = None /\ retained.quote[l] = None
  BY DEF EmptyCache, LastOf, Reset
<1>6. Ordered
  BY <1>5 DEF Ordered, Made, Le
<1>7. Behind
  BY DEF Behind
<1>8. Marked
  BY <1>5 DEF Marked
<1>9. Counts
  BY DEF Counts, Reset
<1>10. Exits
  BY DEF Exits
<1> QED
  BY <1>3, <1>4, <1>6, <1>7, <1>8, <1>9, <1>10 DEF IInv

\* What was counted stays counted while time and the market go on.
LEMMA CountsKept ==
  ASSUME IInv, UNCHANGED <<conf, counted>>, history \subseteq history', now' \in Nat, now <= now'
  PROVE  Counts'
<1>1. now \in Nat /\ conf.start \in Nat /\ conf.count \in Nat /\ Counts
  BY Limits DEF IInv, Types, Confs
<1>2. conf.count > 0 => conf.start <= now'
  BY <1>1 DEF Counts
<1>3. \A i \in 1..Len(counted) : {counted[i].short, counted[i].long} \subseteq history'
  BY <1>1 DEF Counts
<1> QED
  BY <1>1, <1>2, <1>3 DEF Counts

\* A quote is published: it is the youngest of its leg.
LEMMA QuoteStep ==
  ASSUME IInv, Quoted
  PROVE  IInv'
<1>1. now \in Nat /\ now' = now
  BY Limits DEF IInv, Types, Quoted, Quote
<1>2. PICK leg \in Legs, p \in Nat, at \in Nat :
        Quote(leg, p, at) /\ budget' \in [of : Scenarios, left : 0..MaxFaults] /\ budget'.of = budget.of
  <2>1. budget \in [of : Scenarios, left : 0..MaxFaults]
    BY DEF IInv, Types
  <2>2. PICK leg \in Legs, p \in Nat :
          (Quote(leg, p, now) /\ UNCHANGED budget) \/ (now > 0 /\ Fault("late") /\ Quote(leg, p, now - 1))
    BY Limits DEF Quoted
  <2>3. CASE Quote(leg, p, now) /\ UNCHANGED budget
    BY <1>1, <2>1, <2>3
  <2>4. CASE now > 0 /\ Fault("late") /\ Quote(leg, p, now - 1)
    <3>1. now - 1 \in Nat
      BY <1>1, <2>4
    <3> QED
      BY <2>1, <2>4, <3>1, FaultIs
  <2> QED
    BY <2>2, <2>3, <2>4
<1>3. PICK q : q = [leg |-> leg, session |-> feed.session, seq |-> feed.seq[leg] + 1, price |-> p, epoch |-> at,
             sub |-> feed.sub]
  OBVIOUS
<1>4. /\ feed' = [feed EXCEPT !.seq[leg] = @ + 1] /\ history' = history \cup {q}
      /\ retained' = [retained EXCEPT !.quote[leg] = q, !.replay[leg] = FALSE]
      /\ Sent(QuoteMsgs(leg, q)) /\ UNCHANGED <<linked, cache, conf, counted, pc, exitjob>>
  BY <1>2, <1>3 DEF Quote, monitor
<1>5. feed \in [up : BOOLEAN, session : Nat \ {0}, sub : Nat, health : Nat, seq : [Legs -> Nat]]
        /\ history \subseteq Quotes
      /\ retained \in [session : Nat \ {0}, kill : BOOLEAN, quote : [Legs -> Maybe], replay : [Legs -> BOOLEAN]]
  BY DEF IInv, Types
<1>6. PICK n \in Nat : n = feed.seq[leg]
  BY <1>5
<1>7. q \in Quotes /\ q.leg = leg /\ q.session = feed.session /\ q.seq = n + 1
  BY <1>2, <1>3, <1>5, <1>6 DEF Quotes
<1>8. PICK seq \in [Legs -> Nat] : /\ feed' = [feed EXCEPT !.seq = seq] /\ seq[leg] = n + 1
                                   /\ \A l \in Legs : l # leg => seq[l] = feed.seq[l]
  <2>1. [feed.seq EXCEPT ![leg] = n + 1] \in [Legs -> Nat]
    BY <1>5
  <2> QED
    BY <1>4, <1>5, <1>6, <2>1
<1>9. /\ feed' \in [up : BOOLEAN, session : Nat \ {0}, sub : Nat, health : Nat, seq : [Legs -> Nat]]
      /\ feed'.session = feed.session /\ feed'.seq = seq
  BY <1>5, <1>8
<1>10. PICK mids \in [Legs -> Maybe], marks \in [Legs -> BOOLEAN] :
         /\ retained' = [retained EXCEPT !.quote = mids, !.replay = marks]
         /\ mids[leg] = q /\ \A l \in Legs : l # leg => mids[l] = retained.quote[l]
         /\ ~marks[leg] /\ \A l \in Legs : l # leg => marks[l] = retained.replay[l]
  <2>1. PICK mids, marks : mids = [retained.quote EXCEPT ![leg] = q]
               /\ marks = [retained.replay EXCEPT ![leg] = FALSE]
    OBVIOUS
  <2>2. /\ mids \in [Legs -> Maybe] /\ mids[leg] = q /\ \A l \in Legs : l # leg => mids[l] = retained.quote[l]
    BY <1>5, <1>7, <2>1 DEF Maybe
  <2>3. /\ marks \in [Legs -> BOOLEAN] /\ ~marks[leg] /\ \A l \in Legs : l # leg => marks[l] = retained.replay[l]
    BY <1>5, <2>1
  <2>4. retained' = [retained EXCEPT !.quote = mids, !.replay = marks]
    BY <1>4, <2>1
  <2> QED
    BY <2>2, <2>3, <2>4
<1>11. /\ retained' \in [session : Nat \ {0}, kill : BOOLEAN, quote : [Legs -> Maybe], replay : [Legs -> BOOLEAN]]
       /\ retained'.quote = mids /\ retained'.replay = marks
  BY <1>5, <1>10
<1>12. PICK ms \in Seq(Msgs) : /\ Sent(ms) /\ Len(ms) = 1 /\ ms[1].t = "quote" /\ ms[1].leg = leg /\ ms[1].q = q
  <2>1. PICK m : m = [t |-> "quote", leg |-> leg, q |-> q]
    OBVIOUS
  <2>2. m \in Msgs
    BY <1>7, <2>1 DEF Msgs, QuoteKinds
  <2>3. QuoteMsgs(leg, q) = <<m>>
    BY <2>1 DEF QuoteMsgs, Msg, IInv, Untorn
  <2>4. <<m>> \in Seq(Msgs) /\ Len(<<m>>) = 1 /\ <<m>>[1] = m
    BY <2>2
  <2> QED
    BY <1>4, <2>1, <2>3, <2>4
<1>13. Numbered'
  <2>1. \A h \in history : h \in Quotes /\ h.session <= feed.session
          /\ (h.session = feed.session => h.seq <= feed.seq[h.leg])
    BY <1>5 DEF IInv, Numbered
  <2>2. \A h \in Quotes : h.seq \in Nat /\ h.session \in Nat /\ h.leg \in Legs
    BY DEF Quotes
  <2>3. ASSUME NEW h \in history'
        PROVE  h.session <= feed'.session /\ (h.session = feed'.session => h.seq <= feed'.seq[h.leg])
    <3>1. CASE h = q
      BY <1>7, <1>8, <1>9, <2>2, <3>1
    <3>2. CASE h \in history
      <4>1. h.leg \in Legs /\ h.seq \in Nat /\ h.session <= feed.session
              /\ (h.session = feed.session => h.seq <= feed.seq[h.leg])
        BY <2>1, <2>2, <3>2
      <4>2. feed.seq[h.leg] \in Nat /\ seq[h.leg] \in Nat /\ feed.seq[h.leg] <= seq[h.leg]
        <5>1. \A l \in Legs : feed.seq[l] \in Nat /\ seq[l] \in Nat
          BY <1>5, <1>8
        <5>2. \A l \in Legs : feed.seq[l] <= seq[l]
          BY <1>6, <1>8, <5>1
        <5> QED
          BY <4>1, <5>1, <5>2
      <4> QED
        BY <1>9, <4>1, <4>2
    <3> QED
      BY <1>4, <3>1, <3>2
  <2>4. ASSUME NEW a \in history', NEW b \in history', a.leg = b.leg, a.session = b.session, a.seq = b.seq
        PROVE  a = b
    <3>1. \A h \in history : ~(h.leg = leg /\ h.session = feed.session /\ h.seq = n + 1)
      BY <1>6, <2>1, <2>2
    <3> QED
      BY <1>4, <1>7, <2>4, <3>1 DEF IInv, Numbered
  <2> QED
    BY <2>3, <2>4 DEF Numbered
<1>14. ASSUME NEW l \in Legs
       PROVE  /\ retained'.quote[l] = None \/ (retained'.quote[l] \in history' /\ retained'.quote[l].leg = l)
              /\ Le(retained.quote[l], retained'.quote[l])
              /\ feed'.seq[l] > 0 => retained'.quote[l] # None
  <2>1. /\ retained.quote[l] = None \/ (retained.quote[l] \in history /\ retained.quote[l].leg = l)
        /\ feed.seq[l] > 0 => retained.quote[l] # None
    BY DEF IInv, Ordered, Made
  <2>2. CASE l = leg
    <3>1. retained'.quote[l] = q /\ q \in history' /\ q # None
      BY <1>4, <1>7, <1>10, <1>11, <2>2, QuoteIs
    <3>2. Le(retained.quote[l], q)
      <4>1. CASE retained.quote[l] = None
        BY <4>1 DEF Le
      <4>2. CASE retained.quote[l] # None
        <5>1. PICK h \in history : h = retained.quote[l] /\ h.leg = leg
          BY <2>1, <2>2, <4>2
        <5>2. h.session \in Nat /\ h.seq \in Nat /\ feed.session \in Nat
          BY <1>5, <5>1 DEF Quotes
        <5>3. h.session <= feed.session /\ (h.session = feed.session => h.seq <= n)
          BY <1>6, <5>1 DEF IInv, Numbered
        <5> QED
          BY <1>6, <1>7, <3>1, <5>1, <5>2, <5>3 DEF Le
      <4> QED
        BY <4>1, <4>2
    <3> QED
      BY <1>7, <2>2, <3>1, <3>2
  <2>3. CASE l # leg
    <3>1. retained'.quote[l] = retained.quote[l] /\ feed'.seq[l] = feed.seq[l] /\ retained.quote[l] \in Maybe
      BY <1>5, <1>8, <1>9, <1>10, <1>11, <2>3
    <3> QED
      BY <1>4, <2>1, <3>1, LeSelf
  <2> QED
    BY <2>2, <2>3
<1>15. wire' \in Seq(Msgs) /\ Ordered' /\ Behind'
  <2>1. \A i \in 1..Len(ms) : ms[i].t \in QuoteKinds => ms[i].t # "keptreplay" /\ ms[i].q = retained'.quote[ms[i].leg]
    BY <1>10, <1>11, <1>12
  <2>2. history \subseteq history' /\ retained'.quote \in [Legs -> Maybe] /\ Sent(ms)
          /\ UNCHANGED <<cache, conf, linked>>
    BY <1>4, <1>11, <1>12
  <2> QED
    BY <1>14, <2>1, <2>2, SentIs
<1>16. Types'
  <2>1. history' \subseteq Quotes
    BY <1>4, <1>5, <1>7
  <2> QED
    BY <1>1, <1>2, <1>4, <1>9, <1>11, <1>15, <2>1 DEF IInv, Types
<1>17. Marked'
  BY <1>2, <1>4, <1>10, <1>11 DEF IInv, Marked
<1>18. Counts'
  BY <1>1, <1>4, CountsKept
<1>19. Exits' /\ Untorn'
  BY <1>2, <1>4 DEF IInv, Exits, Untorn
<1> QED
  BY <1>13, <1>15, <1>16, <1>17, <1>18, <1>19 DEF IInv

\* The streamer dies: nothing of what was published changes.
LEMMA StreamerDiesStep ==
  ASSUME IInv, StreamerDies
  PROVE  IInv'
<1>1. /\ feed' = [feed EXCEPT !.up = FALSE] /\ Fault("restart")
      /\ UNCHANGED <<now, history, retained, wire, linked, cache, conf, counted, pc, exitjob>>
  BY DEF StreamerDies
<1>2. budget' \in [of : Scenarios, left : 0..MaxFaults] /\ budget'.of = budget.of
  BY <1>1, FaultIs DEF IInv, Types
<1>3. /\ feed' \in [up : BOOLEAN, session : Nat \ {0}, sub : Nat, health : Nat, seq : [Legs -> Nat]]
      /\ feed'.session = feed.session /\ feed'.seq = feed.seq
  BY <1>1 DEF IInv, Types
<1>4. Types'
  BY <1>1, <1>2, <1>3 DEF IInv, Types
<1>5. Ordered' /\ Numbered'
  BY <1>1, <1>3 DEF IInv, Ordered, Numbered, Made, LastOf, IsQuote
<1>6. Behind' /\ Marked' /\ Counts'
  BY <1>1, <1>2 DEF IInv, Behind, Marked, Counts, IsQuote
<1>7. Exits' /\ Untorn'
  BY <1>1, <1>2 DEF IInv, Exits, Untorn
<1> QED
  BY <1>4, <1>5, <1>6, <1>7 DEF IInv

\* A new session begins its numbers again, above those of all earlier sessions.
LEMMA StreamerStartsStep ==
  ASSUME IInv, StreamerStarts
  PROVE  IInv'
<1>1. PICK zero \in [Legs -> Nat] : zero = [l \in Legs |-> 0] /\ \A l \in Legs : zero[l] = 0
  <2>1. [l \in Legs |-> 0] \in [Legs -> Nat]
    OBVIOUS
  <2> QED
    BY <2>1
<1>2. PICK n \in Nat \ {0} : n = feed.session + 1 /\ n > feed.session
  <2>1. feed.session \in Nat \ {0}
    BY DEF IInv, Types
  <2> QED
    BY <2>1
<1>3. /\ feed' = [feed EXCEPT !.up = TRUE, !.session = n, !.sub = now, !.seq = zero]
      /\ retained' = [retained EXCEPT !.session = n, !.kill = FALSE]
      /\ Sent(<<Msg("kill", "short", FALSE), Msg("session", "short", n)>>)
      /\ UNCHANGED <<now, history, linked, cache, conf, counted, pc, exitjob, budget>>
  BY <1>1, <1>2 DEF StreamerStarts, monitor
<1>4. now \in Nat
  BY Limits DEF IInv, Types
<1>5. /\ feed' \in [up : BOOLEAN, session : Nat \ {0}, sub : Nat, health : Nat, seq : [Legs -> Nat]]
      /\ feed'.session = n /\ feed'.seq = zero
  BY <1>1, <1>2, <1>3, <1>4 DEF IInv, Types
<1>6. /\ retained' \in [session : Nat \ {0}, kill : BOOLEAN, quote : [Legs -> Maybe], replay : [Legs -> BOOLEAN]]
      /\ retained'.quote = retained.quote /\ retained'.replay = retained.replay
  BY <1>2, <1>3 DEF IInv, Types
<1>7. PICK ms \in Seq(Msgs) : Sent(ms) /\ \A i \in 1..Len(ms) : ms[i].t \notin QuoteKinds
  <2>1. PICK x, y : x = Msg("kill", "short", FALSE) /\ y = Msg("session", "short", n)
    OBVIOUS
  <2>2. x \in Msgs /\ y \in Msgs /\ x.t \notin QuoteKinds /\ y.t \notin QuoteKinds
    BY <1>2, <2>1 DEF Msg, Msgs, QuoteKinds, Legs
  <2>3. <<x, y>> \in Seq(Msgs) /\ \A i \in 1..Len(<<x, y>>) : <<x, y>>[i].t \notin QuoteKinds
    BY <2>2
  <2>4. Sent(<<x, y>>)
    BY <1>3, <2>1
  <2> QED
    BY <2>3, <2>4
<1>8. ASSUME NEW l \in Legs
      PROVE  /\ retained'.quote[l] = None \/ (retained'.quote[l] \in history' /\ retained'.quote[l].leg = l)
             /\ Le(retained.quote[l], retained'.quote[l])
             /\ feed'.seq[l] > 0 => retained'.quote[l] # None
  <2>1. retained.quote[l] \in Maybe /\ Made(l, retained.quote[l])
    BY DEF IInv, Types, Ordered
  <2> QED
    BY <1>1, <1>3, <1>5, <1>6, <2>1, LeSelf DEF Made
<1>9. wire' \in Seq(Msgs) /\ Ordered' /\ Behind'
  <2>1. history \subseteq history' /\ retained'.quote \in [Legs -> Maybe] /\ UNCHANGED <<cache, conf, linked>>
    BY <1>3, <1>6
  <2> QED
    BY <1>7, <1>8, <2>1, SentIs
<1>10. Types'
  BY <1>3, <1>5, <1>6, <1>9 DEF IInv, Types
<1>11. Numbered'
  <2>1. \A h \in history : h.session <= feed.session /\ h.session \in Nat
    BY DEF IInv, Types, Numbered, Quotes
  <2>2. feed.session \in Nat
    BY DEF IInv, Types
  <2>3. \A h \in history : h.session <= n /\ h.session # n
    BY <1>2, <2>1, <2>2
  <2> QED
    BY <1>3, <1>5, <2>3 DEF IInv, Numbered
<1>12. Marked' /\ Counts' /\ Exits' /\ Untorn'
  BY <1>3, <1>6 DEF IInv, Marked, Counts, Exits, Untorn
<1> QED
  BY <1>9, <1>10, <1>11, <1>12 DEF IInv

\* The kill switch is pressed.
LEMMA PressStep ==
  ASSUME IInv, Press
  PROVE  IInv'
<1>1. /\ Fault("press") /\ retained' = [retained EXCEPT !.kill = TRUE] /\ Sent(<<Msg("kill", "short", TRUE)>>)
      /\ UNCHANGED <<now, feed, history, linked, cache, conf, counted, pc, exitjob>>
  BY DEF Press, monitor
<1>2. budget' \in [of : Scenarios, left : 0..MaxFaults] /\ budget'.of = budget.of
  BY <1>1, FaultIs DEF IInv, Types
<1>3. /\ retained' \in [session : Nat \ {0}, kill : BOOLEAN, quote : [Legs -> Maybe], replay : [Legs -> BOOLEAN]]
      /\ retained'.quote = retained.quote /\ retained'.replay = retained.replay
  BY <1>1 DEF IInv, Types
<1>4. PICK ms \in Seq(Msgs) : Sent(ms) /\ \A i \in 1..Len(ms) : ms[i].t \notin QuoteKinds
  <2>1. PICK x : x = Msg("kill", "short", TRUE)
    OBVIOUS
  <2>2. x \in Msgs /\ x.t \notin QuoteKinds
    BY <2>1 DEF Msg, Msgs, QuoteKinds, Legs
  <2>3. <<x>> \in Seq(Msgs) /\ \A i \in 1..Len(<<x>>) : <<x>>[i].t \notin QuoteKinds
    BY <2>2
  <2> QED
    BY <1>1, <2>1, <2>3
<1>5. ASSUME NEW l \in Legs
      PROVE  /\ retained'.quote[l] = None \/ (retained'.quote[l] \in history' /\ retained'.quote[l].leg = l)
             /\ Le(retained.quote[l], retained'.quote[l])
             /\ feed'.seq[l] > 0 => retained'.quote[l] # None
  <2>1. retained.quote[l] \in Maybe /\ Made(l, retained.quote[l]) /\ (feed.seq[l] > 0 => retained.quote[l] # None)
    BY DEF IInv, Types, Ordered
  <2> QED
    BY <1>1, <1>3, <2>1, LeSelf DEF Made
<1>6. wire' \in Seq(Msgs) /\ Ordered' /\ Behind'
  <2>1. history \subseteq history' /\ retained'.quote \in [Legs -> Maybe] /\ UNCHANGED <<cache, conf, linked>>
    BY <1>1, <1>3
  <2> QED
    BY <1>4, <1>5, <2>1, SentIs
<1>7. Types'
  BY <1>1, <1>2, <1>3, <1>6 DEF IInv, Types
<1>8. Numbered' /\ Marked' /\ Counts' /\ Exits' /\ Untorn'
  BY <1>1, <1>2, <1>3 DEF IInv, Numbered, Marked, Counts, Exits, Untorn
<1> QED
  BY <1>6, <1>7, <1>8 DEF IInv

\* The cache takes the next message.
LEMMA ReceiveStep ==
  ASSUME IInv, Receive
  PROVE  IInv'
<1>1. UNCHANGED <<now, feed, history, retained, linked, conf, counted, pc, exitjob, budget>>
  BY DEF Receive, market, monitor
<1>2. cache' \in Caches /\ wire' \in Seq(Msgs) /\ Ordered' /\ Behind' /\ Marked'
  BY ReceiveIs
<1>3. Types'
  BY <1>1, <1>2 DEF IInv, Types
<1>4. Numbered' /\ Counts' /\ Exits' /\ Untorn'
  BY <1>1 DEF IInv, Numbered, Counts, Exits, Untorn
<1> QED
  BY <1>2, <1>3, <1>4 DEF IInv

\* The connection is cut: what was on the wire is lost.
LEMMA CutStep ==
  ASSUME IInv, Cut
  PROVE  IInv'
<1>1. /\ Fault("cut") /\ linked' = FALSE /\ wire' = <<>>
      /\ UNCHANGED <<now, feed, history, retained, cache, conf, counted, pc, exitjob>>
  BY DEF Cut, market, monitor
<1>2. budget' \in [of : Scenarios, left : 0..MaxFaults] /\ budget'.of = budget.of /\ "cut" \in budget.of
  BY <1>1, FaultIs DEF IInv, Types, Fault
<1>3. Types'
  <2>1. wire' \in Seq(Msgs)
    BY <1>1
  <2> QED
    BY <1>1, <1>2, <2>1 DEF IInv, Types
<1>4. Ordered'
  BY <1>1 DEF IInv, Ordered, Made, LastOf
<1>5. Behind' /\ Marked'
  BY <1>1, <1>2 DEF IInv, Behind, Marked
<1>6. Numbered' /\ Counts' /\ Exits' /\ Untorn'
  BY <1>1, <1>2 DEF IInv, Numbered, Counts, Exits, Untorn
<1> QED
  BY <1>3, <1>4, <1>5, <1>6 DEF IInv

\* The monitor is started again with an empty cache.
LEMMA RebootStep ==
  ASSUME IInv, Reboot
  PROVE  IInv'
<1>1. /\ Fault("reboot") /\ cache' = EmptyCache /\ wire' = <<>> /\ linked' = FALSE /\ exitjob' = "none"
      /\ UNCHANGED <<now, feed, history, retained, conf, counted, pc>>
  BY DEF Reboot, market
<1>2. budget' \in [of : Scenarios, left : 0..MaxFaults] /\ budget'.of = budget.of
  BY <1>1, FaultIs DEF IInv, Types
<1>3. cache' \in Caches /\ \A l \in Legs : cache'.snap[l] = None /\ cache'.meta[l] = None
  <2>1. None \in Maybe
    BY DEF Maybe
  <2>2. /\ EmptyCache.price \in [Legs -> [seq : Nat, price : Nat] \cup {None}] /\ EmptyCache.snap \in [Legs -> Maybe]
        /\ EmptyCache.meta \in [Legs -> [q : Quotes, replay : BOOLEAN, seq : Nat \ {0}] \cup {None}]
        /\ EmptyCache.replayed \in [Legs -> BOOLEAN]
        /\ \A l \in Legs : EmptyCache.snap[l] = None /\ EmptyCache.meta[l] = None
    BY <2>1 DEF EmptyCache
  <2>3. EmptyCache \in Caches
    BY <2>2 DEF EmptyCache, Caches
  <2> QED
    BY <1>1, <2>2, <2>3
<1>4. Types'
  <2>1. wire' \in Seq(Msgs)
    BY <1>1
  <2> QED
    BY <1>1, <1>2, <1>3, <2>1 DEF IInv, Types
<1>5. Ordered'
  BY <1>1, <1>3 DEF IInv, Ordered, Made, LastOf, Le
<1>6. Behind' /\ Marked'
  BY <1>1, <1>2, <1>3 DEF IInv, Behind, Marked
<1>7. Numbered' /\ Counts' /\ Exits' /\ Untorn'
  BY <1>1, <1>2 DEF IInv, Numbered, Counts, Exits, Untorn
<1> QED
  BY <1>4, <1>5, <1>6, <1>7 DEF IInv

\* A connection is made again: a replayed price finds no other waiting, because
\* nothing is replayed where connections are cut.
LEMMA ReconnectStep ==
  ASSUME IInv, Reconnect
  PROVE  IInv'
<1>1. /\ ~linked /\ linked' = TRUE
      /\ UNCHANGED <<now, feed, history, retained, cache, conf, counted, pc, exitjob, budget>>
  BY DEF Reconnect, market, monitor
<1>2. /\ wire' \in Seq(Msgs)
      /\ \A i \in 1..Len(wire') : wire'[i].t \in QuoteKinds =>
           /\ wire'[i].leg \in Legs /\ wire'[i].q = retained.quote[wire'[i].leg] /\ wire'[i].q \in Quotes
           /\ wire'[i].t = "keptreplay" => retained.replay[wire'[i].leg]
           /\ \A j \in 1..Len(wire') : j # i /\ wire'[j].t \in QuoteKinds => wire'[j].leg # wire'[i].leg
  BY ReconnectIs
<1>3. Types'
  BY <1>1, <1>2 DEF IInv, Types
<1>4. \A l \in Legs : /\ Made(l, retained.quote[l]) /\ Made(l, cache.snap[l]) /\ Made(l, LastOf(l))
                      /\ Le(cache.snap[l], retained.quote[l]) /\ Le(LastOf(l), retained.quote[l])
                      /\ feed.seq[l] > 0 => retained.quote[l] # None
                      /\ cache.snap[l] # None => Le(LastOf(l), cache.snap[l])
                      /\ Le(retained.quote[l], retained.quote[l])
  BY LastIs, LeSelf DEF IInv, Ordered
<1>5. Ordered'
  <2>1. ASSUME NEW l \in Legs, NEW i \in 1..Len(wire'), wire'[i].t \in QuoteKinds, wire'[i].leg = l
        PROVE  /\ Made(l, wire'[i].q) /\ Le(wire'[i].q, retained.quote[l])
               /\ Le(cache.snap[l], wire'[i].q) /\ Le(LastOf(l), wire'[i].q)
               /\ \A j \in 1..Len(wire') : i < j /\ wire'[j].t \in QuoteKinds /\ wire'[j].leg = l
                    => Le(wire'[i].q, wire'[j].q)
    <3>1. wire'[i].q = retained.quote[l]
      BY <1>2, <2>1
    <3>2. \A j \in 1..Len(wire') : ~(i < j /\ wire'[j].t \in QuoteKinds /\ wire'[j].leg = l)
      BY <1>2, <2>1
    <3> QED
      BY <1>4, <3>1, <3>2
  <2>2. \A l \in Legs : LastOf(l)' = LastOf(l)
    BY <1>1 DEF LastOf
  <2> QED
    BY <1>1, <1>4, <2>1, <2>2 DEF Ordered, Made, IsQuote
<1>6. Behind'
  <2>1. ASSUME NEW i \in 1..Len(wire'), wire'[i].t = "keptreplay"
        PROVE  /\ cache.meta[wire'[i].leg] = None
               /\ \A j \in 1..Len(wire') : j < i /\ wire'[j].t \in QuoteKinds => wire'[j].leg # wire'[i].leg
    <3>1. wire'[i].leg \in Legs /\ retained.replay[wire'[i].leg]
      BY <1>2, <2>1 DEF QuoteKinds
    <3>2. "replay" \in budget.of
      BY <3>1 DEF IInv, Marked
    <3>3. "cut" \notin budget.of
      BY <3>2 DEF IInv, Untorn
    <3>4. cache.meta[wire'[i].leg] = None
      BY <1>1, <3>1, <3>3 DEF IInv, Marked
    <3>5. \A j \in 1..Len(wire') : j < i /\ wire'[j].t \in QuoteKinds => wire'[j].leg # wire'[i].leg
      BY <1>2, <2>1 DEF QuoteKinds
    <3> QED
      BY <3>4, <3>5
  <2> QED
    BY <1>1, <2>1 DEF Behind, IsQuote
<1>7. Numbered' /\ Marked' /\ Counts' /\ Exits' /\ Untorn'
  BY <1>1 DEF IInv, Numbered, Marked, Counts, Exits, Untorn
<1> QED
  BY <1>3, <1>5, <1>6, <1>7 DEF IInv

\* A step of the scan or the job that leaves the confirmation or looks at the pair.
LEMMA LookStep ==
  ASSUME IInv, UNCHANGED <<now, feed, history, retained, wire, linked, cache, budget>>,
         Observe \/ UNCHANGED <<conf, counted>>,
         pc' \in {"idle", "armed"}, exitjob' \in {"none", "waiting", "kill", "sent", "killed"}, Exits'
  PROVE  IInv'
<1>1. /\ conf' \in Confs /\ counted' \in Seq(Observations) /\ Counts'
      /\ \A l \in Legs : LastOf(l)' \in {None, LastOf(l), cache.snap[l]}
  <2>1. CASE Observe
    BY <2>1, ObserveIs
  <2>2. CASE UNCHANGED <<conf, counted>>
    BY <2>2, ZenonT(40) DEF IInv, Types, Counts, LastOf
  <2> QED
    BY <2>1, <2>2
<1>2. Types'
  BY <1>1 DEF IInv, Types
<1>3. Ordered'
  <2>1. ASSUME NEW l \in Legs
        PROVE  /\ Made(l, LastOf(l)') /\ Le(LastOf(l)', retained.quote[l])
               /\ cache.snap[l] # None => Le(LastOf(l)', cache.snap[l])
               /\ \A i \in 1..Len(wire) : IsQuote(i) /\ wire[i].leg = l => Le(LastOf(l)', wire[i].q)
    <3>1. /\ Made(l, retained.quote[l]) /\ Made(l, cache.snap[l]) /\ Made(l, LastOf(l))
          /\ Le(cache.snap[l], retained.quote[l]) /\ Le(LastOf(l), retained.quote[l])
          /\ cache.snap[l] # None => Le(LastOf(l), cache.snap[l])
          /\ \A i \in 1..Len(wire) : IsQuote(i) /\ wire[i].leg = l => Le(cache.snap[l], wire[i].q)
               /\ Le(LastOf(l), wire[i].q)
      BY DEF IInv, Ordered
    <3>2. Le(cache.snap[l], cache.snap[l])
      BY LastIs, LeSelf DEF IInv
    <3>3. CASE LastOf(l)' = None
      BY <3>3 DEF Made, Le
    <3>4. CASE LastOf(l)' = LastOf(l)
      BY <3>1, <3>4
    <3>5. CASE LastOf(l)' = cache.snap[l]
      BY <3>1, <3>2, <3>5
    <3> QED
      BY <1>1, <3>3, <3>4, <3>5
  <2> QED
    BY <2>1 DEF IInv, Ordered, Made, IsQuote
<1>4. Behind' /\ Marked' /\ Numbered' /\ Untorn'
  BY DEF IInv, Behind, Marked, Numbered, Untorn, IsQuote
<1> QED
  BY <1>1, <1>2, <1>3, <1>4 DEF IInv

\* The scan and the job.
LEMMA ScanStep ==
  ASSUME IInv, Refresh \/ Evaluate \/ Execute
  PROVE  IInv'
<1>1. CASE Refresh
  <2>1. Exits'
    BY <1>1 DEF Refresh, Exits
  <2> QED
    BY <1>1, <2>1, LookStep DEF Refresh, market
<1>2. CASE Evaluate
  <2>1. Exits'
    BY <1>2 DEF Evaluate, Exits
  <2> QED
    BY <1>2, <2>1, LookStep DEF Evaluate, market
<1>3. CASE Execute
  <2>1. pc' = pc /\ pc # "armed" /\ exitjob' \in {"none", "killed", "sent"}
          /\ (exitjob' = "sent" => Observe /\ Confirmed)
    BY <1>3 DEF Execute, IInv, Exits
  <2>2. exitjob' = "sent" => Len(counted') >= Required
    BY <1>3, <2>1, ObserveIs DEF Execute, market
  <2>3. Exits'
    BY <2>1, <2>2 DEF Exits
  <2>4. pc' \in {"idle", "armed"}
    BY <2>1 DEF IInv, Types
  <2> QED
    BY <1>3, <2>1, <2>3, <2>4, LookStep DEF Execute, market
<1> QED
  BY <1>1, <1>2, <1>3

\* A tick: the heartbeat, and the last mids again where they are published again.
LEMMA TickStep ==
  ASSUME IInv, Tick
  PROVE  IInv'
<1>1. now \in Nat /\ MaxTime \in Nat /\ now' = now + 1 /\ now < MaxTime
  BY Limits DEF IInv, Types, Tick
<1>2. UNCHANGED <<history, linked, cache, conf, counted, pc, exitjob, budget>>
  BY DEF Tick
<1>3. /\ feed' \in [up : BOOLEAN, session : Nat \ {0}, sub : Nat, health : Nat, seq : [Legs -> Nat]]
      /\ feed'.session = feed.session /\ feed'.seq = feed.seq
  <2>1. PICK n \in Nat : n = now + 1
    BY <1>1
  <2>2. feed' = feed \/ feed' = [feed EXCEPT !.health = n]
    BY <2>1 DEF Tick, Beat
  <2> QED
    BY <2>1, <2>2 DEF IInv, Types
<1>4. /\ retained' \in [session : Nat \ {0}, kill : BOOLEAN, quote : [Legs -> Maybe], replay : [Legs -> BOOLEAN]]
      /\ retained'.quote = retained.quote
      /\ "replay" \notin budget.of => retained'.replay = retained.replay
  <2>1. CASE feed.up
    <3>1. PICK marks : marks = [l \in Legs |-> retained.replay[l] \/ l \in Again]
      OBVIOUS
    <3>2. retained' = [retained EXCEPT !.replay = marks]
      BY <2>1, <3>1 DEF Tick, Beat
    <3>3. retained.replay \in [Legs -> BOOLEAN]
      BY DEF IInv, Types
    <3>4. marks \in [Legs -> BOOLEAN]
      BY <3>1, <3>3
    <3>5. "replay" \notin budget.of => Again = {}
      BY DEF Again
    <3>6. "replay" \notin budget.of => marks = retained.replay
      BY <3>1, <3>3, <3>5
    <3> QED
      BY <3>2, <3>4, <3>6 DEF IInv, Types
  <2>2. CASE ~feed.up
    BY <2>2 DEF Tick, IInv, Types
  <2> QED
    BY <2>1, <2>2
<1>5. ASSUME NEW l \in Legs
      PROVE  /\ retained'.quote[l] = None \/ (retained'.quote[l] \in history' /\ retained'.quote[l].leg = l)
             /\ Le(retained.quote[l], retained'.quote[l])
             /\ feed'.seq[l] > 0 => retained'.quote[l] # None
  <2>1. retained.quote[l] \in Maybe /\ Made(l, retained.quote[l]) /\ (feed.seq[l] > 0 => retained.quote[l] # None)
    BY DEF IInv, Types, Ordered
  <2> QED
    BY <1>2, <1>3, <1>4, <2>1, LeSelf DEF Made
<1>6. PICK ms \in Seq(Msgs) : /\ Sent(ms)
                              /\ \A i \in 1..Len(ms) : ms[i].t \in QuoteKinds =>
                                   ms[i].t # "keptreplay" /\ ms[i].q = retained.quote[ms[i].leg]
  <2>1. CASE ~feed.up
    <3>1. wire' = wire /\ wire \in Seq(Msgs)
      BY <2>1 DEF Tick, IInv, Types
    <3>2. <<>> \in Seq(Msgs) /\ Len(<<>>) = 0 /\ wire \o <<>> = wire
      BY <3>1, ConcatEmptySeq
    <3>3. Sent(<<>>)
      BY <3>1, <3>2 DEF Sent
    <3>4. \A i \in 1..Len(<<>>) : FALSE
      BY <3>2
    <3> QED
      BY <3>2, <3>3, <3>4
  <2>2. CASE feed.up
    <3> DEFINE msgs(l) == IF l \in Again THEN <<Msg("replay", l, retained.quote[l])>> ELSE <<>>
               Fits(s) == /\ s \in Seq(Msgs)
                          /\ \A i \in 1..Len(s) : s[i].t \in QuoteKinds =>
                               s[i].t # "keptreplay" /\ s[i].q = retained.quote[s[i].leg]
    <3>1. Sent(<<Msg("beat", "short", feed.session)>> \o msgs("short") \o msgs("long"))
      BY <2>2 DEF Tick, Beat
    <3>2. ASSUME NEW l \in Legs
          PROVE  Fits(msgs(l))
      <4>1. CASE l \in Again
        <5>1. PICK q \in Quotes : q = retained.quote[l]
          BY <1>3, <1>4, <1>5, <4>1 DEF Again, Maybe
        <5>2. PICK m : m = Msg("replay", l, q)
          OBVIOUS
        <5>3. m \in Msgs /\ m.t = "replay" /\ m.leg = l /\ m.q = q
          BY <5>2 DEF Msg, Msgs, QuoteKinds
        <5>4. msgs(l) = <<m>>
          BY <4>1, <5>1, <5>2
        <5> QED
          BY <5>1, <5>3, <5>4
      <4>2. CASE l \notin Again
        BY <4>2
      <4> QED
        BY <4>1, <4>2
    <3>3. Fits(<<Msg("beat", "short", feed.session)>>)
      <4>1. PICK m : m = Msg("beat", "short", feed.session)
        OBVIOUS
      <4>2. m \in Msgs /\ m.t \notin QuoteKinds
        BY <4>1 DEF Msg, Msgs, QuoteKinds, Legs, IInv, Types
      <4> QED
        BY <4>1, <4>2
    <3>4. ASSUME NEW a, NEW b, Fits(a), Fits(b)
          PROVE  Fits(a \o b)
      <4>1. /\ a \o b \in Seq(Msgs) /\ Len(a \o b) = Len(a) + Len(b) /\ Len(a) \in Nat /\ Len(b) \in Nat
            /\ \A i \in 1..Len(a) : (a \o b)[i] = a[i]
            /\ \A i \in 1..Len(a \o b) : i > Len(a) => (a \o b)[i] = b[i - Len(a)]
        BY <3>4, ConcatProperties
      <4>2. PICK c : c = a \o b
        OBVIOUS
      <4>3. \A i \in 1..Len(c) : (i \in 1..Len(a) /\ c[i] = a[i]) \/ \E k \in 1..Len(b) : c[i] = b[k]
        <5> SUFFICES ASSUME NEW i \in 1..Len(c), i \notin 1..Len(a) PROVE \E k \in 1..Len(b) : c[i] = b[k]
          BY <4>1, <4>2
        <5>1. PICK x \in Nat, y \in Nat : x = Len(a) /\ y = Len(b) /\ Len(c) = x + y
          BY <4>1, <4>2
        <5>2. i > x /\ i - x \in 1..y
          BY <5>1
        <5>3. c[i] = b[i - x]
          BY <4>1, <4>2, <5>1, <5>2
        <5> QED
          BY <5>1, <5>2, <5>3
      <4>4. Fits(c)
        BY <3>4, <4>1, <4>2, <4>3
      <4> QED
        BY <4>2, <4>4
    <3> HIDE DEF msgs, Fits
    <3>5. Fits(<<Msg("beat", "short", feed.session)>> \o msgs("short") \o msgs("long"))
      BY <3>2, <3>3, <3>4 DEF Legs
    <3> QED
      BY <3>1, <3>5 DEF Fits
  <2> QED
    BY <2>1, <2>2
<1>7. wire' \in Seq(Msgs) /\ Ordered' /\ Behind'
  <2>1. history \subseteq history' /\ retained'.quote \in [Legs -> Maybe] /\ UNCHANGED <<cache, conf, linked>>
    BY <1>2, <1>4
  <2> QED
    BY <1>4, <1>5, <1>6, <2>1, SentIs
<1>8. Types'
  BY <1>1, <1>2, <1>3, <1>4, <1>7 DEF IInv, Types
<1>9. Numbered' /\ Marked' /\ Exits' /\ Untorn'
  BY <1>2, <1>3, <1>4 DEF IInv, Numbered, Marked, Exits, Untorn
<1>10. Counts'
  BY <1>1, <1>2, CountsKept
<1> QED
  BY <1>7, <1>8, <1>9, <1>10 DEF IInv

\* Every step keeps the invariant.
LEMMA InvStep == IInv /\ [BreachNext]_breachvars => IInv'
<1> SUFFICES ASSUME IInv, [BreachNext]_breachvars PROVE IInv'
  OBVIOUS
<1>1. CASE Streamer
  BY <1>1, QuoteStep, StreamerDiesStep, StreamerStartsStep DEF Streamer
<1>2. CASE Monitor
  BY <1>2, ReceiveStep, ScanStep DEF Monitor
<1>3. CASE Surroundings
  BY <1>3, PressStep, CutStep, ReconnectStep, RebootStep, TickStep DEF Surroundings
<1>4. CASE UNCHANGED breachvars
  <2>1. UNCHANGED <<now, feed, history, retained, wire, linked, cache, conf, counted, pc, exitjob, budget>>
    BY <1>4 DEF breachvars
  <2>2. Exits' /\ pc' \in {"idle", "armed"} /\ exitjob' \in {"none", "waiting", "kill", "sent", "killed"}
    BY <2>1 DEF IInv, Types, Exits
  <2> QED
    BY <2>1, <2>2, LookStep
<1> QED
  BY <1>1, <1>2, <1>3, <1>4 DEF BreachNext

\* The invariant: the numbers of a leg's quotes grow from the last one counted
\* to the one the broker retains, and the confirmation counts what was seen.
THEOREM BreachInvariant == BreachSpec /\ Untorn => []IInv
<1>1. BreachInit /\ Untorn => IInv
  BY InvInit
<1>2. IInv /\ [BreachNext]_breachvars => IInv'
  BY InvStep
<1> QED
  BY <1>1, <1>2, PTL DEF BreachSpec

\* With the invariant, a breach order has its pairs behind it.
LEMMA SentIsTrue == IInv => NoFalseBreach
<1> SUFFICES ASSUME IInv PROVE NoFalseBreach
  OBVIOUS
<1>1. BreachTypeOK
  BY DEF IInv, Types, Counts, Confs, BreachTypeOK
<1>2. ASSUME exitjob = "sent"
      PROVE  /\ Len(counted) >= Required
             /\ \A i \in 1..Len(counted) :
                  LET o == counted[i]
                  IN /\ {o.short, o.long} \subseteq history
                     /\ Spread(o.short, o.long) \in Threshold..Width
                     /\ o.short.session = o.long.session /\ o.short.session = counted[1].short.session
                     /\ o.at >= FillGrace /\ o.at - o.short.epoch <= MaxAge /\ o.at - o.long.epoch <= MaxAge
                     /\ o.at - counted[1].at <= Window
             /\ \A i, j \in 1..Len(counted) :
                  i # j => <<counted[i].short, counted[i].long>> # <<counted[j].short, counted[j].long>>
  <2>1. PICK n \in Nat : n = Len(counted) /\ n >= Required /\ n > 0 /\ conf.count = n
    BY <1>2, Limits DEF IInv, Exits, Types, Counts, Confs
  <2>2. 1 \in 1..n /\ counted[1].short.session = conf.session /\ conf.start = counted[1].at
    BY <2>1 DEF IInv, Counts
  <2>3. \A i \in 1..n : LET o == counted[i] IN
          /\ {o.short, o.long} \subseteq history
          /\ Spread(o.short, o.long) \in Threshold..Width
          /\ o.short.session = conf.session /\ o.long.session = conf.session
          /\ o.at >= FillGrace /\ o.at - o.short.epoch <= MaxAge /\ o.at - o.long.epoch <= MaxAge
          /\ o.at - conf.start <= Window
    BY <2>1 DEF IInv, Counts
  <2>4. \A i \in 1..n : counted[i].short.seq \in Nat /\ counted[i].long.seq \in Nat
    <3>1. \A q \in history : q.seq \in Nat
      BY DEF IInv, Types, Quotes
    <3> QED
      BY <2>3, <3>1
  <2>5. \A i, j \in 1..n : i < j => counted[i].short.seq < counted[j].short.seq
          \/ counted[i].long.seq < counted[j].long.seq
    BY <2>1 DEF IInv, Counts
  <2>6. ASSUME NEW i \in 1..n, NEW j \in 1..n, i # j
        PROVE  <<counted[i].short, counted[i].long>> # <<counted[j].short, counted[j].long>>
    <3>1. i < j \/ j < i
      BY <2>6
    <3>2. counted[i].short.seq # counted[j].short.seq \/ counted[i].long.seq # counted[j].long.seq
      BY <2>4, <2>5, <3>1
    <3> QED
      BY <3>2
  <2> QED
    BY <2>1, <2>2, <2>3, <2>6
<1> QED
  BY <1>1, <1>2 DEF NoFalseBreach

\* A breach order is sent only for distinct pairs of quotes the market made, of
\* one session, not older than allowed, each a breach, within the window.
THEOREM NoBreachIsFalse == BreachSpec /\ Untorn => []NoFalseBreach
BY BreachInvariant, SentIsTrue, PTL

(* --- Sums over a finite set ---------------------------------------------- *)
\* The element a sum takes first, and the partial sums it goes through.
Pick(s) == CHOOSE x \in s : TRUE
Sums(it, F, S) == it = [s \in SUBSET S |-> IF s = {} THEN 0 ELSE F[Pick(s)] + it[s \ {Pick(s)}]]

\* The least of some numbers: what an induction below starts from.
LEMMA LeastNumber ==
  ASSUME NEW T, T \subseteq Nat, T # {}
  PROVE  \E n \in T : \A m \in T : n <= m
<1>1. PICK n \in T : \A m \in T : ~(<<m, n>> \in OpToRel(<, Nat))
  BY NatLessThanWellFounded, WFMin
<1>2. ASSUME NEW m \in T PROVE n <= m
  <2>1. m \in Nat /\ n \in Nat
    BY <1>1
  <2>2. ~(m < n)
    BY <1>1, <2>1 DEF OpToRel
  <2> QED
    BY <2>1, <2>2
<1> QED
  BY <1>2

\* What is taken from a set first is in it.
LEMMA PickFacts ==
  ASSUME NEW s, s # {}
  PROVE  Pick(s) \in s
BY Zenon DEF Pick

\* A total is the partial sums' last, where there are partial sums.
LEMMA TotalIsLast ==
  ASSUME NEW F, NEW S, \E it : Sums(it, F, S)
  PROVE  \E it : Sums(it, F, S) /\ Total(F, S) = it[S]
<1>1. Total(F, S) = (CHOOSE it : Sums(it, F, S))[S]
  BY Zenon DEF Total, MapThenSumSet, MapThenFoldSet, Sums, Pick
<1>2. Sums(CHOOSE it : Sums(it, F, S), F, S)
  BY Zenon
<1> QED
  BY <1>1, <1>2, Zenon

\* Partial sums of whole numbers are whole numbers, and in any order the same.
LEMMA SumsFacts ==
  ASSUME NEW F, NEW S, IsFiniteSet(S), \A x \in S : F[x] \in Int, NEW it, Sums(it, F, S)
  PROVE  /\ it[{}] = 0
         /\ \A s \in SUBSET S : it[s] \in Int /\ \A x \in s : it[s] = F[x] + it[s \ {x}]
<1>1. ASSUME NEW s \in SUBSET S
      PROVE  it[s] = IF s = {} THEN 0 ELSE F[Pick(s)] + it[s \ {Pick(s)}]
  BY <1>1, Zenon DEF Sums
<1>. DEFINE Right(s) == it[s] \in Int /\ \A x \in s : it[s] = F[x] + it[s \ {x}]
            Wrong == {n \in Nat : \E s \in SUBSET S : Cardinality(s) = n /\ ~Right(s)}
<1>2. \A s \in SUBSET S : IsFiniteSet(s) /\ Cardinality(s) \in Nat
        /\ \A x \in s : Cardinality(s \ {x}) = Cardinality(s) - 1
  BY FS_Subset, FS_CardinalityType, FS_RemoveElement
<1>3. ASSUME Wrong # {} PROVE FALSE
  <2>1. PICK n \in Wrong : \A m \in Wrong : n <= m
    BY <1>3, LeastNumber
  <2>2. n \in Nat /\ \E s \in SUBSET S : Cardinality(s) = n /\ ~Right(s)
    BY <2>1
  <2>3. ASSUME NEW r \in SUBSET S, Cardinality(r) < n PROVE Right(r)
    <3>. HIDE DEF Right
    <3>1. Cardinality(r) \in Nat
      BY <1>2
    <3>2. ~Right(r) => Cardinality(r) \in Wrong
      BY <3>1
    <3>. HIDE DEF Wrong
    <3>3. ~Right(r) => n <= Cardinality(r)
      BY <2>1, <3>2
    <3> QED
      BY <2>2, <2>3, <3>1, <3>3
  <2>. HIDE DEF Wrong
  <2>4. PICK s \in SUBSET S : Cardinality(s) = n /\ ~Right(s)
    BY <2>2, Zenon
  <2>5. CASE s = {}
    <3>1. it[s] = 0
      BY <1>1, <2>5, Zenon
    <3> QED
      BY <2>4, <2>5, <3>1
  <2>6. CASE s # {}
    <3>1. PICK p \in s : p = Pick(s)
      BY <2>6, PickFacts
    <3>2. it[s] = F[p] + it[s \ {p}]
      BY <1>1, <2>6, <3>1, Zenon
    <3>3. s \ {p} \in SUBSET S /\ Cardinality(s \ {p}) < n
      BY <1>2, <2>2, <2>4, <3>1
    <3>4. Right(s \ {p})
      BY <2>3, <3>3, Zenon
    <3>5. F[p] \in Int /\ it[s \ {p}] \in Int
      BY <3>1, <3>4
    <3>6. ASSUME NEW x \in s PROVE it[s] = F[x] + it[s \ {x}]
      <4>1. CASE x = p
        BY <3>2, <4>1
      <4>2. CASE x # p
        <5>1. x \in s \ {p} /\ p \in s \ {x} /\ F[x] \in Int
          BY <4>2
        <5>2. it[s \ {p}] = F[x] + it[(s \ {p}) \ {x}]
          BY <3>4, <5>1
        <5>3. s \ {x} \in SUBSET S /\ Cardinality(s \ {x}) < n
          BY <1>2, <2>2, <2>4
        <5>4. Right(s \ {x})
          BY <2>3, <5>3, Zenon
        <5>5. it[s \ {x}] = F[p] + it[(s \ {x}) \ {p}]
          BY <5>1, <5>4
        <5>6. (s \ {x}) \ {p} = (s \ {p}) \ {x}
          OBVIOUS
        <5>7. it[(s \ {p}) \ {x}] \in Int
          <6>1. (s \ {p}) \ {x} \in SUBSET S /\ Cardinality((s \ {p}) \ {x}) < n
            <7>1. s \ {p} \in SUBSET S /\ Cardinality(s \ {p}) = n - 1
              BY <1>2, <2>2, <2>4, <3>1
            <7>2. Cardinality((s \ {p}) \ {x}) = Cardinality(s \ {p}) - 1
              BY <1>2, <5>1, <7>1, Zenon
            <7> QED
              BY <2>2, <7>1, <7>2
          <6>2. Right((s \ {p}) \ {x})
            BY <2>3, <6>1, Zenon
          <6> QED
            BY <6>2
        <5>8. PICK c \in Int : c = it[(s \ {p}) \ {x}]
          BY <5>7
        <5>9. it[s \ {p}] = F[x] + c /\ it[s \ {x}] = F[p] + c
          BY <5>2, <5>5, <5>6, <5>8
        <5>10. PICK y \in Int, z \in Int : y = F[x] /\ z = F[p]
          BY <3>5, <5>1
        <5>11. it[s] = z + (y + c) /\ F[x] + it[s \ {x}] = y + (z + c)
          BY <3>2, <5>9, <5>10, Zenon
        <5>12. z + (y + c) = y + (z + c)
          OBVIOUS
        <5> QED
          BY <5>11, <5>12, Zenon
      <4> QED
        BY <4>1, <4>2
    <3>7. it[s] \in Int
      <4>1. PICK y \in Int, z \in Int : y = F[p] /\ z = it[s \ {p}]
        BY <3>5
      <4>2. it[s] = y + z /\ y + z \in Int
        BY <3>2, <4>1
      <4> QED
        BY <4>2
    <3> QED
      BY <2>4, <3>6, <3>7
  <2> QED
    BY <2>5, <2>6
<1>4. ASSUME NEW s \in SUBSET S PROVE Right(s)
  BY <1>2, <1>3
<1>5. it[{}] = 0
  BY <1>1
<1> QED
  BY <1>4, <1>5

\* Where the terms agree the partial sums agree.
LEMMA SumsAgree ==
  ASSUME NEW F, NEW S, NEW it, Sums(it, F, S), NEW G, NEW T, NEW jt, Sums(jt, G, T),
         NEW R, R \subseteq S, R \subseteq T, IsFiniteSet(R), \A x \in R : F[x] = G[x]
  PROVE  it[R] = jt[R]
<1>1. ASSUME NEW s \in SUBSET R
      PROVE  /\ it[s] = IF s = {} THEN 0 ELSE F[Pick(s)] + it[s \ {Pick(s)}]
             /\ jt[s] = IF s = {} THEN 0 ELSE G[Pick(s)] + jt[s \ {Pick(s)}]
  <2>1. s \in SUBSET S /\ s \in SUBSET T
    OBVIOUS
  <2> QED
    BY <2>1, Zenon DEF Sums
<1>. DEFINE Wrong == {n \in Nat : \E s \in SUBSET R : Cardinality(s) = n /\ it[s] # jt[s]}
<1>2. \A s \in SUBSET R : Cardinality(s) \in Nat /\ \A x \in s : Cardinality(s \ {x}) = Cardinality(s) - 1
  BY FS_Subset, FS_CardinalityType, FS_RemoveElement
<1>3. ASSUME Wrong # {} PROVE FALSE
  <2>1. PICK n \in Wrong : \A m \in Wrong : n <= m
    BY <1>3, LeastNumber
  <2>2. n \in Nat /\ \E s \in SUBSET R : Cardinality(s) = n /\ it[s] # jt[s]
    BY <2>1
  <2>3. PICK s \in SUBSET R : Cardinality(s) = n /\ it[s] # jt[s]
    BY <2>2
  <2>4. s # {}
    BY <1>1, <2>3, Zenon
  <2>5. PICK p \in s : p = Pick(s)
    BY <2>4, PickFacts
  <2>6. s \ {p} \in SUBSET R /\ Cardinality(s \ {p}) = n - 1 /\ n - 1 \in Nat /\ ~(n <= n - 1)
    <3>1. s \ {p} \in SUBSET R /\ Cardinality(s \ {p}) = n - 1
      BY <1>2, <2>3
    <3>2. Cardinality(s \ {p}) \in Nat
      BY <1>2, <3>1
    <3> QED
      BY <2>2, <3>1, <3>2
  <2>7. it[s \ {p}] = jt[s \ {p}]
    <3>1. it[s \ {p}] # jt[s \ {p}] => n - 1 \in Wrong
      BY <2>6
    <3>. HIDE DEF Wrong
    <3> QED
      BY <2>1, <2>6, <3>1
  <2>8. F[p] = G[p]
    BY <2>5
  <2> QED
    BY <1>1, <2>3, <2>4, <2>5, <2>7, <2>8, ZenonT(40)
<1> QED
  BY <1>2, <1>3

\* There are partial sums of every finite set of whole numbers.
LEMMA SumsExist ==
  ASSUME NEW F, NEW S, IsFiniteSet(S), \A x \in S : F[x] \in Int
  PROVE  \E it : Sums(it, F, S)
<1>. DEFINE Upto(n) == {s \in SUBSET S : Cardinality(s) <= n}
            Fits(it, n) == \A s \in Upto(n) : it[s] = IF s = {} THEN 0 ELSE F[Pick(s)] + it[s \ {Pick(s)}]
            Lacking == {n \in Nat : ~\E it : Fits(it, n)}
<1>1. \A s \in SUBSET S : IsFiniteSet(s) /\ Cardinality(s) \in Nat
        /\ \A x \in s : Cardinality(s \ {x}) = Cardinality(s) - 1
  BY FS_Subset, FS_CardinalityType, FS_RemoveElement
<1>2. ASSUME NEW n \in Nat, n # 0, NEW it, Fits(it, n - 1)
      PROVE  \E jt : Fits(jt, n)
  <2>. DEFINE jt == [s \in SUBSET S |-> IF Cardinality(s) <= n - 1 THEN it[s]
                                        ELSE IF s = {} THEN 0 ELSE F[Pick(s)] + it[s \ {Pick(s)}]]
  <2>1. ASSUME NEW s \in Upto(n)
        PROVE  jt[s] = IF s = {} THEN 0 ELSE F[Pick(s)] + jt[s \ {Pick(s)}]
    <3>1. s \in SUBSET S /\ Cardinality(s) \in Nat /\ Cardinality(s) <= n
      BY <1>1
    <3>2. CASE s = {}
      <4>1. Cardinality(s) = 0 /\ 0 <= n - 1
        BY <1>2, <3>2, FS_EmptySet
      <4>2. jt[s] = it[s]
        BY <3>1, <4>1
      <4>3. s \in Upto(n - 1)
        BY <3>1, <4>1
      <4> QED
        BY <1>2, <3>2, <4>2, <4>3
    <3>3. CASE s # {}
      <4>1. PICK p \in s : p = Pick(s)
        BY <3>3, PickFacts
      <4>2. s \ {p} \in SUBSET S /\ Cardinality(s \ {p}) <= n - 1
        BY <1>1, <3>1, <4>1
      <4>3. jt[s \ {p}] = it[s \ {p}]
        BY <4>2
      <4>4. CASE Cardinality(s) <= n - 1
        <5>1. s \in Upto(n - 1) /\ jt[s] = it[s]
          BY <3>1, <4>4
        <5>2. it[s] = F[p] + it[s \ {p}]
          BY <1>2, <3>3, <4>1, <5>1
        <5> QED
          BY <3>3, <4>1, <4>3, <5>1, <5>2
      <4>5. CASE ~(Cardinality(s) <= n - 1)
        <5>1. jt[s] = F[p] + it[s \ {p}]
          BY <3>1, <3>3, <4>1, <4>5
        <5> QED
          BY <3>3, <4>1, <4>3, <5>1
      <4> QED
        BY <4>4, <4>5
    <3> QED
      BY <3>2, <3>3
  <2>. HIDE DEF jt
  <2> QED
    BY <2>1
<1>3. \E it : Fits(it, 0)
  <2>. DEFINE it == [s \in SUBSET S |-> 0]
  <2>1. \A s \in Upto(0) : s = {} /\ it[s] = 0
    <3>1. \A s \in SUBSET S : Cardinality(s) <= 0 => Cardinality(s) = 0
      BY <1>1
    <3> QED
      BY <1>1, <3>1, FS_EmptySet
  <2>. HIDE DEF it
  <2> QED
    BY <2>1
<1>4. ASSUME Lacking # {} PROVE FALSE
  <2>. HIDE DEF Fits
  <2>1. PICK n \in Lacking : \A m \in Lacking : n <= m
    BY <1>4, LeastNumber
  <2>2. n \in Nat /\ ~\E it : Fits(it, n)
    BY <2>1
  <2>3. n # 0
    BY <1>3, <2>2
  <2>4. n - 1 \in Nat /\ ~(n <= n - 1)
    BY <2>2, <2>3
  <2>5. \E it : Fits(it, n - 1)
    BY <2>1, <2>4
  <2> QED
    BY <1>2, <2>2, <2>3, <2>5
<1>5. PICK it : Fits(it, Cardinality(S))
  <2>. HIDE DEF Fits
  <2>1. Cardinality(S) \in Nat
    BY FS_CardinalityType
  <2> QED
    BY <1>4, <2>1
<1>. DEFINE jt == [s \in SUBSET S |-> it[s]]
<1>6. \A s \in SUBSET S : Cardinality(s) <= Cardinality(S)
  BY FS_Subset
<1>7. ASSUME NEW s \in SUBSET S
      PROVE  jt[s] = IF s = {} THEN 0 ELSE F[Pick(s)] + jt[s \ {Pick(s)}]
  <2>1. it[s] = IF s = {} THEN 0 ELSE F[Pick(s)] + it[s \ {Pick(s)}]
    BY <1>5, <1>6
  <2>2. s \ {Pick(s)} \in SUBSET S
    OBVIOUS
  <2> QED
    BY <2>1, <2>2
<1>8. jt = [s \in SUBSET S |-> IF s = {} THEN 0 ELSE F[Pick(s)] + jt[s \ {Pick(s)}]]
  <2>1. jt = [s \in SUBSET S |-> jt[s]]
    OBVIOUS
  <2>. HIDE DEF jt
  <2> QED
    BY <1>7, <2>1
<1> QED
  BY <1>8 DEF Sums

\* What a total is.
LEMMA TotalFacts ==
  ASSUME NEW F, NEW S, IsFiniteSet(S), \A x \in S : F[x] \in Int
  PROVE  /\ Total(F, S) \in Int /\ (S = {} => Total(F, S) = 0)
         /\ \A x \in S : Total(F, S) = F[x] + Total(F, S \ {x})
<1>1. PICK it : Sums(it, F, S) /\ Total(F, S) = it[S]
  BY SumsExist, TotalIsLast
<1>2. it[{}] = 0 /\ it[S] \in Int /\ \A x \in S : it[S] = F[x] + it[S \ {x}]
  <2>. DEFINE Right(s) == it[s] \in Int /\ \A x \in s : it[s] = F[x] + it[s \ {x}]
  <2>1. it[{}] = 0 /\ \A s \in SUBSET S : Right(s)
    <3>1. Sums(it, F, S)
      BY <1>1
    <3>2. IsFiniteSet(S) /\ \A x \in S : F[x] \in Int
      OBVIOUS
    <3>3. it[{}] = 0
      BY <3>1, <3>2, SumsFacts
    <3>4. ASSUME NEW s \in SUBSET S PROVE it[s] \in Int
      BY <3>1, <3>2, SumsFacts
    <3>5. ASSUME NEW s \in SUBSET S, NEW x \in s PROVE it[s] = F[x] + it[s \ {x}]
      BY <3>1, <3>2, SumsFacts
    <3> QED
      BY <3>3, <3>4, <3>5
  <2>. HIDE DEF Right
  <2>2. S \in SUBSET S
    OBVIOUS
  <2>3. Right(S)
    BY <2>1, <2>2, Zenon
  <2> QED
    BY <2>1, <2>3 DEF Right
<1>3. ASSUME NEW T \in SUBSET S PROVE Total(F, T) = it[T]
  <2>1. IsFiniteSet(T) /\ \A x \in T : F[x] \in Int
    BY FS_Subset
  <2>2. PICK jt : Sums(jt, F, T) /\ Total(F, T) = jt[T]
    BY <2>1, SumsExist, TotalIsLast
  <2>3. it[T] = jt[T]
    BY <1>1, <2>1, <2>2, SumsAgree
  <2> QED
    BY <2>2, <2>3
<1> QED
  BY <1>1, <1>2, <1>3

\* A total depends on its terms only.
LEMMA TotalSame ==
  ASSUME NEW S, IsFiniteSet(S), NEW F, NEW G, \A x \in S : F[x] \in Int /\ G[x] = F[x]
  PROVE  Total(F, S) = Total(G, S)
<1>1. PICK it : Sums(it, F, S) /\ Total(F, S) = it[S]
  BY SumsExist, TotalIsLast
<1>2. \A x \in S : G[x] \in Int
  OBVIOUS
<1>3. PICK jt : Sums(jt, G, S) /\ Total(G, S) = jt[S]
  BY <1>2, SumsExist, TotalIsLast
<1>4. it[S] = jt[S]
  BY <1>1, <1>3, SumsAgree
<1> QED
  BY <1>1, <1>3, <1>4

\* With one term changed, a total changes by as much.
LEMMA TotalChanged ==
  ASSUME NEW S, IsFiniteSet(S), NEW F, NEW G, NEW x \in S, \A y \in S : F[y] \in Int /\ G[y] \in Int,
         \A y \in S : y # x => G[y] = F[y]
  PROVE  Total(G, S) = Total(F, S) - F[x] + G[x]
<1>1. IsFiniteSet(S \ {x})
  BY FS_Subset
<1>2. Total(F, S \ {x}) = Total(G, S \ {x})
  BY <1>1, TotalSame
<1>3. PICK a \in Int : a = Total(F, S \ {x})
  BY <1>1, TotalFacts
<1>4. Total(F, S) = F[x] + a /\ Total(G, S) = G[x] + a
  BY <1>2, <1>3, TotalFacts
<1> QED
  BY <1>3, <1>4

\* A total of terms that are not negative is not less than any of them.
LEMMA TotalCovers ==
  ASSUME NEW S, IsFiniteSet(S), NEW F, \A y \in S : F[y] \in Nat
  PROVE  Total(F, S) \in Nat /\ \A x \in S : F[x] <= Total(F, S)
<1>. DEFINE Wrong == {n \in Nat : \E s \in SUBSET S : Cardinality(s) = n /\ Total(F, s) \notin Nat}
<1>1. \A s \in SUBSET S : IsFiniteSet(s) /\ Cardinality(s) \in Nat
        /\ \A x \in s : Cardinality(s \ {x}) = Cardinality(s) - 1
  BY FS_Subset, FS_CardinalityType, FS_RemoveElement
<1>2. ASSUME NEW s \in SUBSET S
      PROVE  (s = {} => Total(F, s) = 0) /\ \A x \in s : Total(F, s) = F[x] + Total(F, s \ {x})
  <2>1. IsFiniteSet(s) /\ \A x \in s : F[x] \in Int
    BY <1>1
  <2> QED
    BY <2>1, TotalFacts
<1>3. ASSUME Wrong # {} PROVE FALSE
  <2>1. PICK n \in Wrong : \A m \in Wrong : n <= m
    BY <1>3, LeastNumber
  <2>2. PICK s \in SUBSET S : n \in Nat /\ Cardinality(s) = n /\ Total(F, s) \notin Nat
    BY <2>1
  <2>3. s # {}
    BY <1>2, <2>2
  <2>4. PICK p \in s : TRUE
    BY <2>3
  <2>5. s \ {p} \in SUBSET S /\ Cardinality(s \ {p}) = n - 1 /\ n - 1 \in Nat /\ ~(n <= n - 1)
    <3>1. s \ {p} \in SUBSET S /\ Cardinality(s \ {p}) = n - 1
      BY <1>1, <2>2
    <3>2. Cardinality(s \ {p}) \in Nat
      BY <1>1, <3>1
    <3> QED
      BY <2>2, <3>1, <3>2
  <2>6. Total(F, s \ {p}) \in Nat
    <3>1. Total(F, s \ {p}) \notin Nat => n - 1 \in Wrong
      BY <2>5
    <3>. HIDE DEF Wrong
    <3> QED
      BY <2>1, <2>5, <3>1
  <2>7. Total(F, s) = F[p] + Total(F, s \ {p}) /\ F[p] \in Nat
    BY <1>2
  <2>8. PICK a \in Nat, b \in Nat : a = F[p] /\ b = Total(F, s \ {p})
    BY <2>6, <2>7
  <2>9. Total(F, s) = a + b /\ a + b \in Nat
    BY <2>7, <2>8
  <2> QED
    BY <2>2, <2>9
<1>4. \A s \in SUBSET S : Total(F, s) \in Nat
  BY <1>1, <1>3
<1>5. ASSUME NEW x \in S PROVE F[x] <= Total(F, S)
  <2>1. PICK a \in Nat, b \in Nat : a = F[x] /\ b = Total(F, S \ {x})
    BY <1>4
  <2>2. Total(F, S) = a + b
    BY <1>2, <2>1
  <2> QED
    BY <2>1, <2>2
<1> QED
  BY <1>4, <1>5

\* Induction over a finite set: what holds of the empty set and survives the
\* arrival of an element holds of the whole.
LEMMA SetInduction ==
  ASSUME NEW S, IsFiniteSet(S), NEW Good, {} \in Good,
         \A s \in SUBSET S, x \in S : s \in Good /\ x \notin s => s \cup {x} \in Good
  PROVE  S \in Good
<1>. DEFINE Wrong == {n \in Nat : \E s \in SUBSET S : Cardinality(s) = n /\ s \notin Good}
<1>1. \A s \in SUBSET S : IsFiniteSet(s) /\ Cardinality(s) \in Nat
        /\ \A x \in s : Cardinality(s \ {x}) = Cardinality(s) - 1
  BY FS_Subset, FS_CardinalityType, FS_RemoveElement
<1>2. ASSUME Wrong # {} PROVE FALSE
  <2>1. PICK n \in Wrong : \A m \in Wrong : n <= m
    BY <1>2, LeastNumber
  <2>2. PICK s \in SUBSET S : Cardinality(s) = n /\ s \notin Good
    BY <2>1
  <2>3. PICK x \in s : TRUE
    BY <2>2
  <2>4. s \ {x} \in SUBSET S /\ Cardinality(s \ {x}) = n - 1 /\ n \in Nat /\ n - 1 \in Nat
    BY <1>1, <2>2
  <2>5. s \ {x} \in Good
    <3>1. s \ {x} \notin Good => n - 1 \in Wrong
      BY <2>4
    <3>. HIDE DEF Wrong
    <3> QED
      BY <2>1, <2>4, <3>1
  <2>6. (s \ {x}) \cup {x} = s /\ x \in S /\ x \notin s \ {x}
    OBVIOUS
  <2>7. (s \ {x}) \cup {x} \in Good
    BY <2>4, <2>5, <2>6, Zenon
  <2> QED
    BY <2>2, <2>6, <2>7
<1> QED
  BY <1>1, <1>2

\* A total with one more element.
LEMMA TotalStep ==
  ASSUME NEW F, NEW s, IsFiniteSet(s), NEW x, x \notin s, \A y \in s \cup {x} : F[y] \in Int
  PROVE  /\ Total(F, s) \in Int /\ IsFiniteSet(s \cup {x})
         /\ Total(F, s \cup {x}) = F[x] + Total(F, s)
<1>1. IsFiniteSet(s \cup {x}) /\ x \in s \cup {x} /\ (s \cup {x}) \ {x} = s
  BY FS_AddElement
<1>2. \A y \in s : F[y] \in Int
  OBVIOUS
<1>3. Total(F, s) \in Int
  BY <1>2, TotalFacts
<1>4. \A z \in s \cup {x} : Total(F, s \cup {x}) = F[z] + Total(F, (s \cup {x}) \ {z})
  BY <1>1, TotalFacts
<1>5. Total(F, s \cup {x}) = F[x] + Total(F, (s \cup {x}) \ {x})
  BY <1>1, <1>4, Zenon
<1> QED
  BY <1>1, <1>3, <1>5

\* Totals are linear.
LEMMA TotalLinear ==
  ASSUME NEW S, IsFiniteSet(S), NEW k \in Int, NEW F, NEW G, NEW H,
         \A x \in S : F[x] \in Int /\ G[x] \in Int /\ H[x] \in Int /\ H[x] = k * F[x] + G[x]
  PROVE  Total(H, S) = k * Total(F, S) + Total(G, S)
<1>. DEFINE Good == {s \in SUBSET S : Total(H, s) = k * Total(F, s) + Total(G, s)}
<1>1. {} \in Good
  <2>1. Total(F, {}) = 0 /\ Total(G, {}) = 0 /\ Total(H, {}) = 0
    BY FS_EmptySet, TotalFacts
  <2> QED
    BY <2>1
<1>2. ASSUME NEW s \in SUBSET S, NEW x \in S, s \in Good, x \notin s PROVE s \cup {x} \in Good
  <2>1. IsFiniteSet(s)
    BY FS_Subset
  <2>2. PICK a \in Int, b \in Int, c \in Int : a = Total(F, s) /\ b = Total(G, s) /\ c = Total(H, s)
    BY <1>2, <2>1, TotalStep
  <2>3. c = k * a + b
    BY <1>2, <2>2
  <2>4. PICK f \in Int, g \in Int, h \in Int : f = F[x] /\ g = G[x] /\ h = H[x] /\ h = k * f + g
    OBVIOUS
  <2>5. Total(F, s \cup {x}) = f + a /\ Total(G, s \cup {x}) = g + b /\ Total(H, s \cup {x}) = h + c
    <3>1. \A y \in s \cup {x} : F[y] \in Int /\ G[y] \in Int /\ H[y] \in Int
      OBVIOUS
    <3>2. Total(F, s \cup {x}) = f + a
      BY <1>2, <2>1, <2>2, <2>4, <3>1, TotalStep
    <3>3. Total(G, s \cup {x}) = g + b
      BY <1>2, <2>1, <2>2, <2>4, <3>1, TotalStep
    <3>4. Total(H, s \cup {x}) = h + c
      BY <1>2, <2>1, <2>2, <2>4, <3>1, TotalStep
    <3> QED
      BY <3>2, <3>3, <3>4
  <2>6. h + c = k * (f + a) + (g + b)
    BY <2>3, <2>4
  <2> QED
    BY <2>5, <2>6
<1>. HIDE DEF Good
<1>3. S \in Good
  BY <1>1, <1>2, SetInduction
<1> QED
  BY <1>3 DEF Good

\* The total of terms of at most b.
LEMMA TotalAtMost ==
  ASSUME NEW S, IsFiniteSet(S), NEW b \in Int, NEW F, \A x \in S : F[x] \in Int /\ F[x] <= b
  PROVE  Total(F, S) <= b * Cardinality(S)
<1>. DEFINE Good == {s \in SUBSET S : Total(F, s) <= b * Cardinality(s)}
<1>1. {} \in Good
  <2>1. Total(F, {}) = 0 /\ Cardinality({}) = 0
    BY FS_EmptySet, TotalFacts
  <2> QED
    BY <2>1
<1>2. ASSUME NEW s \in SUBSET S, NEW x \in S, s \in Good, x \notin s PROVE s \cup {x} \in Good
  <2>1. IsFiniteSet(s)
    BY FS_Subset
  <2>2. PICK a \in Int, f \in Int, n \in Int : a = Total(F, s) /\ f = F[x] /\ n = Cardinality(s)
    <3>1. Total(F, s) \in Int
      BY <1>2, <2>1, TotalStep
    <3>2. F[x] \in Int /\ Cardinality(s) \in Int
      BY <2>1, FS_CardinalityType
    <3> QED
      BY <3>1, <3>2
  <2>3. Total(F, s \cup {x}) = f + a /\ Cardinality(s \cup {x}) = n + 1
    BY <1>2, <2>1, <2>2, TotalStep, FS_AddElement
  <2>4. a <= b * n /\ f <= b
    BY <1>2, <2>2
  <2>5. f + a <= b * (n + 1)
    BY <2>4
  <2> QED
    BY <2>3, <2>5
<1>. HIDE DEF Good
<1>3. S \in Good
  BY <1>1, <1>2, SetInduction
<1> QED
  BY <1>3 DEF Good

\* Counting by a total.
LEMMA TotalOnes ==
  ASSUME NEW S, IsFiniteSet(S), NEW A, NEW F, \A x \in S : F[x] = IF x \in A THEN 1 ELSE 0
  PROVE  Total(F, S) = Cardinality(S \cap A)
<1>. DEFINE Good == {s \in SUBSET S : Total(F, s) = Cardinality(s \cap A)}
<1>1. {} \in Good
  <2>1. Total(F, {}) = 0 /\ Cardinality({} \cap A) = 0
    BY FS_EmptySet, TotalFacts
  <2> QED
    BY <2>1
<1>2. ASSUME NEW s \in SUBSET S, NEW x \in S, s \in Good, x \notin s PROVE s \cup {x} \in Good
  <2>1. IsFiniteSet(s) /\ IsFiniteSet(s \cap A) /\ \A y \in S : F[y] \in Int
    BY FS_Subset, FS_Intersection
  <2>2. Total(F, s \cup {x}) = F[x] + Total(F, s) /\ Total(F, s) = Cardinality(s \cap A)
    BY <1>2, <2>1, TotalStep
  <2>3. Cardinality(s \cap A) \in Nat
    BY <2>1, FS_CardinalityType
  <2>4. CASE x \in A
    <3>1. (s \cup {x}) \cap A = (s \cap A) \cup {x} /\ x \notin s \cap A
      BY <1>2, <2>4
    <3>2. Cardinality((s \cup {x}) \cap A) = Cardinality(s \cap A) + 1
      BY <2>1, <3>1, FS_AddElement
    <3> QED
      BY <2>2, <2>3, <2>4, <3>2
  <2>5. CASE x \notin A
    <3>1. (s \cup {x}) \cap A = s \cap A
      BY <2>5
    <3>2. PICK n \in Nat : n = Cardinality(s \cap A)
      BY <2>3
    <3>3. F[x] = 0
      BY <2>5
    <3>4. Total(F, s \cup {x}) = n
      BY <2>2, <3>2, <3>3
    <3> QED
      BY <3>1, <3>2, <3>4
  <2> QED
    BY <2>4, <2>5
<1>. HIDE DEF Good
<1>3. S \in Good
  BY <1>1, <1>2, SetInduction
<1> QED
  BY <1>3 DEF Good

\* The sum of a sequence is a total.
LEMMA SumIsTotal == ASSUME NEW s PROVE Sum(s) = Total(s, DOMAIN s)
BY Zenon DEF Sum, FoldSeq, FoldFunction, FoldFunctionOnSet, MapThenFoldSet, Total, MapThenSumSet

\* An injection into a smaller set there is none.
LEMMA NotMoreThan ==
  ASSUME NEW A, IsFiniteSet(A), NEW T, IsFiniteSet(T), NEW f \in [A -> T],
         \A x, y \in A : x # y => f[x] # f[y]
  PROVE  Cardinality(A) <= Cardinality(T)
<1>1. Cardinality(A) \in Nat /\ Cardinality(T) \in Nat
  BY FS_CardinalityType
<1>2. CASE Cardinality(T) < Cardinality(A)
  BY <1>2, FS_PigeonHole
<1> QED
  BY <1>1, <1>2

\* As many tiers are served as there are contracts left over.
LEMMA ServedFacts ==
  ASSUME NEW n \in Nat, NEW r, DOMAIN r = 1 .. n, \A i \in 1 .. n : r[i] \in Int, NEW k \in 0 .. n
  PROVE  Served(r, k) \subseteq 1 .. n /\ Cardinality(Served(r, k)) = k
<1>. DEFINE rank(i) == Cardinality(Ahead(r, i))
<1>1. IsFiniteSet(1 .. n) /\ Cardinality(1 .. n) = n
  BY FS_Interval
<1>2. ASSUME NEW i \in 1 .. n
      PROVE  /\ IsFiniteSet(Ahead(r, i)) /\ i \notin Ahead(r, i) /\ Ahead(r, i) \subseteq 1 .. n
             /\ rank(i) \in 0 .. n - 1
  <2>1. Ahead(r, i) \subseteq (1 .. n) \ {i}
    BY DEF Ahead
  <2>2. IsFiniteSet((1 .. n) \ {i}) /\ Cardinality((1 .. n) \ {i}) = n - 1
    BY <1>1, FS_RemoveElement
  <2>3. IsFiniteSet(Ahead(r, i)) /\ Cardinality(Ahead(r, i)) <= n - 1
    BY <2>1, <2>2, FS_Subset
  <2>4. Cardinality(Ahead(r, i)) \in Nat
    BY <2>3, FS_CardinalityType
  <2> QED
    BY <2>1, <2>3, <2>4
<1>3. ASSUME NEW i \in 1 .. n, NEW j \in 1 .. n, i \in Ahead(r, j) PROVE rank(i) < rank(j)
  <2>1. Ahead(r, i) \cup {i} \subseteq Ahead(r, j)
    BY <1>3 DEF Ahead
  <2>2. Cardinality(Ahead(r, i) \cup {i}) = rank(i) + 1
    BY <1>2, FS_AddElement
  <2>3. Cardinality(Ahead(r, i) \cup {i}) <= rank(j)
    BY <1>2, <2>1, FS_Subset
  <2> QED
    BY <1>2, <2>2, <2>3
<1>4. \A i, j \in 1 .. n : i # j => i \in Ahead(r, j) \/ j \in Ahead(r, i)
  BY DEF Ahead
<1>5. ASSUME NEW i \in 1 .. n, NEW j \in 1 .. n, i # j PROVE rank(i) # rank(j)
  <2>1. rank(i) \in Nat /\ rank(j) \in Nat
    BY <1>2
  <2>2. rank(i) < rank(j) \/ rank(j) < rank(i)
    BY <1>3, <1>4, <1>5
  <2>. HIDE DEF rank
  <2> QED
    BY <2>1, <2>2
<1>6. Served(r, k) = {i \in 1 .. n : rank(i) < k}
  BY DEF Served
<1>. DEFINE In == Served(r, k)
            Out == (1 .. n) \ In
            g == [i \in 1 .. n |-> rank(i)]
<1>7. In \subseteq 1 .. n /\ IsFiniteSet(In) /\ IsFiniteSet(Out) /\ Cardinality(Out) = n - Cardinality(In)
  <2>1. In \subseteq 1 .. n /\ (1 .. n) \cap In = In
    BY <1>6
  <2>2. IsFiniteSet(In)
    BY <1>1, <2>1, FS_Subset
  <2>3. PICK A : A = In
    OBVIOUS
  <2>4. IsFiniteSet((1 .. n) \ A) /\ Cardinality((1 .. n) \ A) = n - Cardinality((1 .. n) \cap A)
    BY <1>1, FS_Difference
  <2> QED
    BY <2>1, <2>2, <2>3, <2>4
<1>8. Cardinality(In) <= k
  <2>. DEFINE h == [i \in In |-> rank(i)]
  <2>1. h \in [In -> 0 .. k - 1]
    BY <1>2, <1>6
  <2>2. ASSUME NEW x \in In, NEW y \in In, x # y PROVE h[x] # h[y]
    BY <1>5, <1>7, <2>2
  <2>3. IsFiniteSet(0 .. k - 1) /\ Cardinality(0 .. k - 1) = k
    BY FS_Interval
  <2>. HIDE DEF h, In
  <2> QED
    BY <1>7, <2>1, <2>2, <2>3, NotMoreThan
<1>9. Cardinality(Out) <= n - k
  <2>. DEFINE h == [i \in Out |-> rank(i)]
  <2>1. h \in [Out -> k .. n - 1]
    <3>1. ASSUME NEW i \in Out PROVE rank(i) \in k .. n - 1
      <4>1. i \in 1 .. n /\ ~(rank(i) < k)
        BY <1>6
      <4>2. rank(i) \in 0 .. n - 1
        BY <1>2, <4>1
      <4>. HIDE DEF rank
      <4> QED
        BY <4>1, <4>2
    <3> QED
      BY <3>1
  <2>2. ASSUME NEW x \in Out, NEW y \in Out, x # y PROVE h[x] # h[y]
    BY <1>5, <2>2
  <2>3. IsFiniteSet(k .. n - 1) /\ Cardinality(k .. n - 1) = n - k
    BY FS_Interval
  <2>. HIDE DEF h, Out
  <2> QED
    BY <1>7, <2>1, <2>2, <2>3, NotMoreThan
<1>10. PICK a \in Nat : a = Cardinality(In)
  BY <1>7, FS_CardinalityType
<1> QED
  BY <1>7, <1>8, <1>9, <1>10

\* Division with a rest.
LEMMA DivFacts ==
  ASSUME NEW a \in Nat, NEW b \in Nat \ {0}
  PROVE  \E d \in Nat, m \in 0 .. b - 1 : d = a \div b /\ m = a % b /\ a = b * d + m
<1>1. a \div b \in Nat
  OBVIOUS
<1>2. a % b \in 0 .. b - 1
  OBVIOUS
<1>3. PICK d \in Nat, m \in 0 .. b - 1 : d = a \div b /\ m = a % b
  BY <1>1, <1>2
<1>4. a = b * d + m
  BY <1>3
<1> QED
  BY <1>3, <1>4

\* Sharing out evenly gives every contract to a tier.
LEMMA EvenlyFacts ==
  ASSUME NEW q \in Nat, NEW n \in Nat \ {0}
  PROVE  Evenly(q, n) \in [1 .. n -> 0 .. q] /\ Total(Evenly(q, n), 1 .. n) = q
<1>1. PICK b \in Nat, r \in 0 .. n - 1 : b = q \div n /\ r = q % n /\ q = n * b + r
  BY DivFacts
<1>. DEFINE F == [i \in 1 .. n |-> IF i \in 1 .. n THEN 1 ELSE 0]
            G == [i \in 1 .. n |-> IF i \in 1 .. r THEN 1 ELSE 0]
            H == Evenly(q, n)
<1>2. H = [i \in 1 .. n |-> b + (IF i <= r THEN 1 ELSE 0)]
  BY <1>1 DEF Evenly
<1>3. IsFiniteSet(1 .. n) /\ Cardinality(1 .. n) = n /\ Cardinality(1 .. r) = r
  BY FS_Interval
<1>4. Total(F, 1 .. n) = n
  <2>1. \A i \in 1 .. n : F[i] = IF i \in 1 .. n THEN 1 ELSE 0
    OBVIOUS
  <2>. HIDE DEF F
  <2>2. Total(F, 1 .. n) = Cardinality((1 .. n) \cap (1 .. n))
    BY <1>3, <2>1, TotalOnes
  <2>3. (1 .. n) \cap (1 .. n) = 1 .. n
    OBVIOUS
  <2> QED
    BY <1>3, <2>2, <2>3
<1>5. Total(G, 1 .. n) = r
  <2>1. \A i \in 1 .. n : G[i] = IF i \in 1 .. r THEN 1 ELSE 0
    OBVIOUS
  <2>. HIDE DEF G
  <2>2. Total(G, 1 .. n) = Cardinality((1 .. n) \cap (1 .. r))
    BY <1>3, <2>1, TotalOnes
  <2>3. (1 .. n) \cap (1 .. r) = 1 .. r
    OBVIOUS
  <2> QED
    BY <1>3, <2>2, <2>3
<1>6. \A i \in 1 .. n : F[i] \in Int /\ G[i] \in Int /\ H[i] \in Int /\ H[i] = b * F[i] + G[i]
  <2>1. ASSUME NEW i \in 1 .. n PROVE F[i] = 1 /\ G[i] = (IF i <= r THEN 1 ELSE 0)
                 /\ H[i] = b + (IF i <= r THEN 1 ELSE 0)
    BY <1>2
  <2>. HIDE DEF F, G, H
  <2> QED
    BY <2>1
<1>7. H \in [1 .. n -> 0 .. q]
  <2>1. ASSUME NEW i \in 1 .. n PROVE b + (IF i <= r THEN 1 ELSE 0) \in 0 .. q
    <3>1. b <= n * b
      <4>1. n * b = b + (n - 1) * b /\ (n - 1) * b \in Nat
        OBVIOUS
      <4> QED
        BY <4>1
    <3> QED
      BY <1>1, <3>1
  <2> QED
    BY <1>2, <2>1
<1>8. Total(H, 1 .. n) = b * n + r
  <2>. HIDE DEF F, G, H
  <2>1. Total(H, 1 .. n) = b * Total(F, 1 .. n) + Total(G, 1 .. n)
    BY <1>3, <1>6, TotalLinear
  <2> QED
    BY <1>4, <1>5, <2>1
<1>9. b * n + r = q
  BY <1>1
<1> QED
  BY <1>7, <1>8, <1>9

\* Shares by weight: with the largest remainders served, every contract has a
\* tier.
LEMMA RoundedFacts ==
  ASSUME NEW q \in Nat, NEW w \in Seq(Nat), w # << >>, Sum(w) # 0
  PROVE  Rounded(q, w) \in [1 .. Len(w) -> 0 .. q] /\ Total(Rounded(q, w), 1 .. Len(w)) = q
<1>1. PICK n \in Nat \ {0} : n = Len(w) /\ DOMAIN w = 1 .. n /\ \A i \in 1 .. n : w[i] \in Nat
  OBVIOUS
<1>2. IsFiniteSet(1 .. n) /\ Cardinality(1 .. n) = n
  <2>1. n \in Int /\ 1 \in Int /\ ~(1 > n) /\ n - 1 + 1 = n
    OBVIOUS
  <2> QED
    BY <2>1, FS_Interval
<1>3. PICK s \in Nat \ {0} : s = Sum(w) /\ s = Total(w, 1 .. n)
  BY <1>1, <1>2, SumIsTotal, TotalCovers
<1>. DEFINE F == Floors(q, w)
            R == Rests(q, w)
            Q == [i \in 1 .. n |-> w[i] * q]
            Z == [i \in 1 .. n |-> 0]
<1>4. ASSUME NEW i \in 1 .. n
      PROVE  F[i] \in Nat /\ R[i] \in 0 .. s - 1 /\ Q[i] \in Nat /\ Q[i] = s * F[i] + R[i] /\ Q[i] = q * w[i] + Z[i]
               /\ Z[i] \in Int
  <2>1. PICK v \in Nat : v = w[i] * q /\ v = q * w[i]
    <3>1. w[i] * q \in Nat /\ w[i] * q = q * w[i]
      BY <1>1
    <3> QED
      BY <3>1
  <2>2. F[i] = v \div s /\ R[i] = v % s /\ Q[i] = v /\ Z[i] = 0
    BY <1>1, <1>3, <2>1 DEF Floors, Rests
  <2>3. PICK d \in Nat, m \in 0 .. s - 1 : d = v \div s /\ m = v % s /\ v = s * d + m
    BY DivFacts
  <2>. HIDE DEF F, R, Q, Z
  <2>4. F[i] = d /\ R[i] = m /\ Q[i] = v /\ Z[i] = 0
    BY <2>2, <2>3
  <2>5. Q[i] = s * F[i] + R[i]
    BY <2>3, <2>4
  <2>6. Q[i] = q * w[i] + Z[i]
    BY <2>1, <2>4
  <2> QED
    BY <2>3, <2>4, <2>5, <2>6
<1>5. DOMAIN F = 1 .. n /\ DOMAIN R = 1 .. n
  BY <1>1 DEF Floors, Rests
<1>6. Rounded(q, w) = [i \in 1 .. n |-> F[i] + (IF i \in Served(R, q - Sum(F)) THEN 1 ELSE 0)]
  BY <1>1 DEF Rounded
<1>. HIDE DEF F, R, Q
<1>7. Total(Z, 1 .. n) = 0
  <2>1. \A i \in 1 .. n : Z[i] \in Int /\ Z[i] = IF i \in {} THEN 1 ELSE 0
    OBVIOUS
  <2>. HIDE DEF Z
  <2>2. Total(Z, 1 .. n) = Cardinality((1 .. n) \cap {})
    BY <1>2, <2>1, TotalOnes
  <2>3. (1 .. n) \cap {} = {}
    OBVIOUS
  <2> QED
    BY <2>2, <2>3, FS_EmptySet
<1>. HIDE DEF Z
<1>8. PICK f \in Nat, t \in Nat : f = Total(F, 1 .. n) /\ t = Total(R, 1 .. n) /\ \A i \in 1 .. n : F[i] <= f
  <2>1. \A i \in 1 .. n : F[i] \in Nat /\ R[i] \in Nat
    BY <1>4
  <2>2. Total(F, 1 .. n) \in Nat /\ \A i \in 1 .. n : F[i] <= Total(F, 1 .. n)
    BY <1>2, <2>1, TotalCovers
  <2>3. Total(R, 1 .. n) \in Nat
    BY <1>2, <2>1, TotalCovers
  <2> QED
    BY <2>2, <2>3
<1>9. s * f + t = q * s
  <2>1. \A i \in 1 .. n : F[i] \in Int /\ R[i] \in Int /\ Q[i] \in Int /\ Q[i] = s * F[i] + R[i]
    BY <1>4
  <2>2. Total(Q, 1 .. n) = s * f + t
    <3>1. s \in Int
      OBVIOUS
    <3>2. Total(Q, 1 .. n) = s * Total(F, 1 .. n) + Total(R, 1 .. n)
      BY <1>2, <2>1, <3>1, TotalLinear
    <3> QED
      BY <1>8, <3>2
  <2>3. \A i \in 1 .. n : w[i] \in Int /\ Z[i] \in Int /\ Q[i] \in Int /\ Q[i] = q * w[i] + Z[i]
    BY <1>1, <1>4
  <2>4. Total(Q, 1 .. n) = q * Total(w, 1 .. n) + Total(Z, 1 .. n)
    <3>1. q \in Int
      OBVIOUS
    <3>2. PICK W : W = w
      OBVIOUS
    <3>3. \A i \in 1 .. n : W[i] \in Int /\ Z[i] \in Int /\ Q[i] \in Int /\ Q[i] = q * W[i] + Z[i]
      BY <2>3, <3>2
    <3>4. Total(Q, 1 .. n) = q * Total(W, 1 .. n) + Total(Z, 1 .. n)
      BY <1>2, <3>1, <3>3, TotalLinear
    <3> QED
      BY <3>2, <3>4
  <2> QED
    BY <1>3, <1>7, <2>2, <2>4
<1>10. t <= (s - 1) * n
  <2>1. \A i \in 1 .. n : R[i] \in Int /\ R[i] <= s - 1
    BY <1>4
  <2>2. s - 1 \in Int
    OBVIOUS
  <2>3. Total(R, 1 .. n) <= (s - 1) * Cardinality(1 .. n)
    BY <1>2, <2>1, <2>2, TotalAtMost
  <2> QED
    BY <1>2, <1>8, <2>3
<1>11. q - f \in 0 .. n
  <2>1. PICK k \in Int : k = q - f
    OBVIOUS
  <2>2. s * k = t
    BY <1>9, <2>1
  <2>3. k >= 0
    <3>1. CASE k <= -1
      <4>1. s * k <= -1
        BY <3>1
      <4> QED
        BY <2>2, <4>1
    <3> QED
      BY <3>1
  <2>4. k <= n
    <3>1. CASE k >= n + 1
      <4>1. s * k >= s * (n + 1)
        BY <3>1
      <4>2. s * (n + 1) > (s - 1) * n
        BY <1>1
      <4> QED
        BY <1>10, <2>2, <4>1, <4>2
    <3> QED
      BY <3>1
  <2> QED
    BY <2>1, <2>3, <2>4
<1>12. PICK k \in 0 .. n : k = q - f /\ k = q - Sum(F)
  BY <1>5, <1>8, <1>11, SumIsTotal
<1>. DEFINE A == Served(R, k)
            G == [i \in 1 .. n |-> IF i \in A THEN 1 ELSE 0]
            H == Rounded(q, w)
<1>13. A \subseteq 1 .. n /\ Cardinality(A) = k
  <2>1. \A i \in 1 .. n : R[i] \in Int
    BY <1>4
  <2> QED
    BY <1>5, <2>1, ServedFacts
<1>14. \A i \in 1 .. n : F[i] \in Int /\ G[i] \in Int /\ H[i] \in Int /\ H[i] = 1 * F[i] + G[i]
         /\ G[i] = IF i \in A THEN 1 ELSE 0
  <2>1. ASSUME NEW i \in 1 .. n PROVE H[i] = F[i] + G[i] /\ G[i] \in Int /\ F[i] \in Int
                 /\ G[i] = IF i \in A THEN 1 ELSE 0
    BY <1>4, <1>6, <1>12, SMTT(40)
  <2>. HIDE DEF A, G, H
  <2> QED
    BY <2>1
<1>15. Total(G, 1 .. n) = k
  <2>. HIDE DEF A, G, H
  <2>1. Total(G, 1 .. n) = Cardinality((1 .. n) \cap A)
    BY <1>2, <1>14, TotalOnes
  <2>2. (1 .. n) \cap A = A
    BY <1>13
  <2> QED
    BY <1>13, <2>1, <2>2
<1>16. Total(H, 1 .. n) = q
  <2>. HIDE DEF A, G, H
  <2>1. \A i \in 1 .. n : F[i] \in Int /\ G[i] \in Int /\ H[i] \in Int /\ H[i] = 1 * F[i] + G[i]
    BY <1>14
  <2>2. Total(H, 1 .. n) = 1 * Total(F, 1 .. n) + Total(G, 1 .. n)
    BY <1>2, <2>1, TotalLinear
  <2> QED
    BY <1>8, <1>12, <1>15, <2>2
<1>17. ASSUME NEW i \in 1 .. n PROVE F[i] + (IF i \in A THEN 1 ELSE 0) \in 0 .. q
  <2>1. CASE k = 0
    <3>1. A = {}
      <4>1. IsFiniteSet(A)
        BY <1>2, <1>13, FS_Subset
      <4>. HIDE DEF A
      <4> QED
        BY <1>13, <2>1, <4>1, FS_EmptySet
    <3> QED
      BY <1>4, <1>8, <1>12, <2>1, <3>1
  <2>2. CASE k # 0
    <3>. HIDE DEF A
    <3>1. F[i] \in Nat /\ F[i] <= f
      BY <1>4, <1>8
    <3>2. k \in Nat /\ k = q - f /\ k >= 1
      BY <1>12, <2>2
    <3> QED
      BY <3>1, <3>2
  <2> QED
    BY <2>1, <2>2
<1> QED
  BY <1>1, <1>6, <1>12, <1>16, <1>17, ZenonT(40)

\* A sequence of two or more tiers has a largest one after the first.
LEMMA LargestFacts ==
  ASSUME NEW n \in Nat, n >= 2, NEW d \in Seq(Nat), Len(d) = n
  PROVE  Largest(d) \in 2 .. n
<1>1. \A i \in 2 .. n : d[i] \in Nat
  OBVIOUS
<1>2. PICK q \in Nat : q = Total(d, 1 .. n) /\ \A i \in 1 .. n : d[i] <= q
  <2>1. IsFiniteSet(1 .. n)
    BY FS_Interval
  <2>2. \A i \in 1 .. n : d[i] \in Nat
    OBVIOUS
  <2> QED
    BY <2>1, <2>2, TotalCovers
<1>. DEFINE Below == {q - d[i] : i \in 2 .. n}
<1>3. PICK low \in Below : \A m \in Below : low <= m
  <2>1. Below \subseteq Nat
    BY <1>1, <1>2
  <2>2. 2 \in 2 .. n
    OBVIOUS
  <2>3. Below # {}
    BY <2>2
  <2>. HIDE DEF Below
  <2> QED
    BY <2>1, <2>3, LeastNumber
<1>4. PICK k \in 2 .. n : low = q - d[k]
  BY <1>3
<1>5. ASSUME NEW j \in 2 .. n PROVE d[j] <= d[k]
  <2>1. q - d[j] \in Below
    OBVIOUS
  <2>. HIDE DEF Below
  <2>2. q - d[k] <= q - d[j]
    BY <1>3, <1>4, <2>1
  <2> QED
    BY <1>1, <1>2, <2>2
<1>. DEFINE Tops == {i \in 2 .. n : d[i] = d[k]}
<1>6. PICK t \in Tops : \A i \in Tops : t <= i
  <2>1. Tops \subseteq Nat /\ Tops # {}
    OBVIOUS
  <2>. HIDE DEF Tops
  <2> QED
    BY <2>1, LeastNumber
<1>7. \A j \in 2 .. n : d[j] < d[t] \/ (d[t] = d[j] /\ t <= j)
  BY <1>1, <1>5, <1>6
<1>8. t \in 2 .. Len(d) /\ \A j \in 2 .. Len(d) : d[j] < d[t] \/ (d[t] = d[j] /\ t <= j)
  BY <1>6, <1>7
<1>9. Largest(d) \in 2 .. Len(d)
  BY <1>8 DEF Largest
<1> QED
  BY <1>9

\* The same, for any two columns of numbers at once.
LEMMA TotalMoves ==
  ASSUME NEW S, IsFiniteSet(S)
  PROVE  \A F, G : \A x \in S :
           (\A y \in S : F[y] \in Int /\ G[y] \in Int) /\ (\A y \in S : y # x => G[y] = F[y])
             => Total(G, S) = Total(F, S) - F[x] + G[x]
BY TotalChanged

\* Serving the first tier moves a contract, no more.
LEMMA FirstServedFacts ==
  ASSUME NEW q \in Nat, NEW n \in Nat, n >= 2, NEW d \in [1 .. n -> 0 .. q], Total(d, 1 .. n) = q
  PROVE  FirstServed(d) \in [1 .. n -> 0 .. q] /\ Total(FirstServed(d), 1 .. n) = q
<1>1. d \in Seq(Nat) /\ Len(d) = n /\ 1 \in 1 .. n /\ IsFiniteSet(1 .. n)
  <2>1. IsFiniteSet(1 .. n)
    BY FS_Interval
  <2>2. d \in Seq(Nat) /\ Len(d) = n /\ 1 \in 1 .. n
    OBVIOUS
  <2> QED
    BY <2>1, <2>2
<1>2. PICK t \in 2 .. n : t = Largest(d)
  BY <1>1, LargestFacts
<1>3. CASE ~(d[1] = 0 /\ d[t] > 1)
  BY <1>2, <1>3 DEF FirstServed
<1>4. CASE d[1] = 0 /\ d[t] > 1
  <2>. DEFINE e == [d EXCEPT ![t] = @ - 1]
              g == [e EXCEPT ![1] = 1]
  <2>1. FirstServed(d) = g
    BY <1>2, <1>4 DEF FirstServed
  <2>2. t \in 1 .. n /\ t # 1 /\ d[t] \in 0 .. q /\ d[t] - 1 \in 0 .. q /\ 1 \in 0 .. q
    BY <1>4
  <2>3. e \in [1 .. n -> 0 .. q] /\ e[t] = d[t] - 1 /\ e[1] = 0 /\ \A y \in 1 .. n : y # t => e[y] = d[y]
    BY <1>1, <1>4, <2>2
  <2>. HIDE DEF e
  <2>4. g \in [1 .. n -> 0 .. q] /\ g[1] = 1 /\ \A y \in 1 .. n : y # 1 => g[y] = e[y]
    BY <1>1, <2>2, <2>3
  <2>. HIDE DEF g
  <2>6. Total(g, 1 .. n) = q
    <3>1. PICK S : S = 1 .. n
      OBVIOUS
    <3>2. IsFiniteSet(S) /\ t \in S /\ 1 \in S /\ Total(d, S) = q
      BY <1>1, <2>2, <3>1
    <3>3. \A y \in S : d[y] \in Int /\ e[y] \in Int /\ g[y] \in Int
      BY <2>3, <2>4, <3>1
    <3>4. \A y \in S : y # t => e[y] = d[y]
      BY <2>3, <3>1
    <3>5. \A y \in S : y # 1 => g[y] = e[y]
      BY <2>4, <3>1
    <3>6. \A F, G : \A x \in S :
            (\A y \in S : F[y] \in Int /\ G[y] \in Int) /\ (\A y \in S : y # x => G[y] = F[y])
              => Total(G, S) = Total(F, S) - F[x] + G[x]
      BY <3>2, TotalMoves
    <3>8. Total(e, S) = Total(d, S) - d[t] + e[t]
      BY <3>2, <3>3, <3>4, <3>6
    <3>9. Total(g, S) = Total(e, S) - e[1] + g[1]
      BY <3>2, <3>3, <3>5, <3>6
    <3>7. Total(g, S) = q
      BY <2>2, <2>3, <2>4, <3>2, <3>8, <3>9
    <3> QED
      BY <3>1, <3>7
  <2> QED
    BY <2>1, <2>4, <2>6
<1> QED
  BY <1>3, <1>4

\* distribute_contracts_across_tiers gives every contract to a tier.
LEMMA DistributeFacts ==
  ASSUME NEW q \in Nat, NEW w \in Seq(Nat), w # << >>
  PROVE  /\ Distribute(q, w) \in [1 .. Len(w) -> 0 .. q]
         /\ Total(Distribute(q, w), 1 .. Len(w)) = q
<1>1. PICK n \in Nat \ {0} : n = Len(w) /\ DOMAIN w = 1 .. n /\ \A i \in 1 .. n : w[i] \in Nat
  OBVIOUS
<1>2. IsFiniteSet(1 .. n)
  BY FS_Interval
<1>3. CASE n = 1
  <2>1. Distribute(q, w) = <<q>>
    BY <1>1, <1>3 DEF Distribute
  <2>. DEFINE d == <<q>>
  <2>2. d \in [1 .. n -> 0 .. q] /\ d[1] = q /\ 1 .. n = {1}
    BY <1>3
  <2>. HIDE DEF d
  <2>3. Total(d, {1}) = q
    <3>1. IsFiniteSet({1}) /\ \A y \in {1} : d[y] \in Int
      <4>1. IsFiniteSet({1})
        BY FS_Singleton
      <4>2. \A y \in {1} : d[y] \in Int
        BY <2>2
      <4> QED
        BY <4>1, <4>2
    <3>2. Total(d, {1}) = d[1] + Total(d, {1} \ {1})
      BY <3>1, TotalFacts
    <3>3. {1} \ {1} = {} /\ Total(d, {}) = 0
      BY FS_EmptySet, TotalFacts
    <3>4. Total(d, {1} \ {1}) = 0
      BY <3>3, Zenon
    <3> QED
      BY <2>2, <3>2, <3>4
  <2>4. Distribute(q, w) = d
    BY <2>1 DEF d
  <2> QED
    BY <1>1, <2>2, <2>3, <2>4
<1>4. CASE n # 1 /\ Sum(w) = 0
  <2>1. Distribute(q, w) = Evenly(q, n)
    BY <1>1, <1>4 DEF Distribute
  <2> QED
    BY <1>1, <2>1, EvenlyFacts
<1>5. CASE n # 1 /\ Sum(w) # 0 /\ q = 1
  <2>1. Sum(w) = Total(w, 1 .. n)
    BY <1>1, SumIsTotal
  <2>. DEFINE Fit(i) == w[i] > 0 /\ \A j \in 1 .. i - 1 : w[j] = 0
              first == CHOOSE i \in DOMAIN w : Fit(i)
              Some == {i \in 1 .. n : w[i] > 0}
  <2>2. Some # {}
    <3>1. CASE \A i \in 1 .. n : w[i] = 0
      <4>1. \A i \in 1 .. n : w[i] \in Int /\ w[i] <= 0
        BY <3>1
      <4>2. Total(w, 1 .. n) <= 0 * Cardinality(1 .. n)
        <5>1. 0 \in Int
          OBVIOUS
        <5> QED
          BY <1>2, <4>1, <5>1, TotalAtMost, Zenon
      <4>3. Total(w, 1 .. n) \in Nat /\ Cardinality(1 .. n) \in Nat
        BY <1>1, <1>2, TotalCovers, FS_CardinalityType
      <4> QED
        BY <1>5, <2>1, <4>2, <4>3
    <3> QED
      BY <1>1, <3>1
  <2>3. PICK i \in Some : \A j \in Some : i <= j
    <3>1. Some \subseteq Nat
      OBVIOUS
    <3>. HIDE DEF Some
    <3> QED
      BY <2>2, <3>1, LeastNumber
  <2>4. i \in DOMAIN w /\ Fit(i)
    BY <1>1, <2>3
  <2>5. first \in DOMAIN w
    <3>. HIDE DEF Fit
    <3> QED
      BY <2>4
  <2>. DEFINE d == [k \in 1 .. n |-> IF k = first THEN 1 ELSE 0]
  <2>6. Distribute(q, w) = d
    <3>1. Len(w) # 1 /\ Sum(w) # 0 /\ q = 1 /\ DOMAIN w = 1 .. n
      BY <1>1, <1>5
    <3> QED
      BY <3>1, Zenon DEF Distribute
  <2>. HIDE DEF first
  <2>7. d \in [1 .. n -> 0 .. q] /\ \A k \in 1 .. n : d[k] = IF k \in {first} THEN 1 ELSE 0
    BY <1>5
  <2>. HIDE DEF d
  <2>8. Total(d, 1 .. n) = Cardinality((1 .. n) \cap {first})
    BY <1>2, <2>7, TotalOnes
  <2>9. (1 .. n) \cap {first} = {first} /\ Cardinality({first}) = 1
    BY <1>1, <2>5, FS_Singleton, ZenonT(40)
  <2> QED
    BY <1>1, <1>5, <2>6, <2>7, <2>8, <2>9
<1>6. CASE n # 1 /\ Sum(w) # 0 /\ q # 1
  <2>1. Distribute(q, w) = FirstServed(Rounded(q, w))
    BY <1>1, <1>6 DEF Distribute
  <2>2. Rounded(q, w) \in [1 .. n -> 0 .. q] /\ Total(Rounded(q, w), 1 .. n) = q
    BY <1>1, <1>6, RoundedFacts
  <2>3. n \in Nat /\ n >= 2
    BY <1>6
  <2>4. FirstServed(Rounded(q, w)) \in [1 .. n -> 0 .. q] /\ Total(FirstServed(Rounded(q, w)), 1 .. n) = q
    BY <2>2, <2>3, FirstServedFacts
  <2> QED
    BY <1>1, <2>1, <2>4
<1> QED
  BY <1>3, <1>4, <1>5, <1>6

(* --- CloneTrades: the invariant of the clone trades ---------------------- *)
ClonePcs == {"idle", "next", "asked", "priced", "stopped", "tranche"}
CloneSelling == mon.pc \in {"stopped", "tranche"}

CloneMonitors == [pc : ClonePcs, todo : SUBSET Trades, trade : Trades \cup {"none"}, filled : BOOLEAN, px : Levels]
CloneOperators == [pc : {"idle", "closing", "clearing"}, trade : Trades \cup {"none"}]
CloneRequests == [pc : {"new", "placed", "registered", "done"}, sig : Trades \cup {"none"},
                  status : {"none", "OPEN", "WORKING"}]
CloneTypes ==
    /\ TypeOK
    /\ mon \in CloneMonitors /\ op \in CloneOperators /\ risk \in [of : CloneScenarios, left : Nat]

\* The engine's lock is held by the step that sells, and what it sells is open.
CloneLocks ==
    /\ lock = "monitor" <=> CloneSelling
    /\ lock = "operator" <=> op.pc # "idle"
    /\ CloneSelling => mon.trade \in active
    /\ op.pc = "closing" => op.trade \in active
    /\ mon.pc \notin {"idle", "next"} => mon.trade \in Trades /\ mem[mon.trade].status # "none"
    /\ \A t \in mon.todo : mem[t].status # "none"

\* What is open has contracts left, in memory and on file.
CloneOpen ==
    /\ active = {t \in Trades : mem[t].left > 0}
    /\ \A t \in Trades : /\ mem[t].left > 0 => mem[t].status \in {"OPEN", "WORKING"}
                         /\ disk[t].left > 0 => disk[t].status \in {"OPEN", "WORKING"}

\* Of a request that has not registered its trade nothing is known or sold.
CloneFresh ==
    \A t \in Trades :
        /\ req[t].pc = "new" => book[t].buy = "none"
        /\ req[t].pc = "placed" => req[t].status # "none"
        /\ req[t].pc \in {"new", "placed"} =>
              mem[t].status = "none" /\ disk[t].status = "none" /\ book[t].sold = 0 /\ book[t].selling = 0

\* The journal repeats the memory, except between its emptying and its refill.
Journalled(t) ==
    /\ t \in active <=> Alive(disk[t])
    /\ t \in active => /\ disk[t].left = mem[t].left /\ disk[t].tier = mem[t].tier
                       /\ disk[t].pt = mem[t].pt /\ disk[t].stop = mem[t].stop
CloneJournal == op.pc # "clearing" => \A t \in Trades : Journalled(t)

\* Contracts of a sale that the books do not show yet.
Pending(t) ==
    IF CloneSelling /\ t = mon.trade
      THEN IF mon.pc = "stopped" THEN mem[t].left ELSE Tranche(mem[t])
      ELSE IF op.pc = "closing" /\ t = op.trade THEN mem[t].left ELSE 0

Steady == risk.of \cap {"working", "crash"} = {}
Calm == risk.of \cap {"working", "refuse", "lost", "crash", "paper"} = {}

\* Without queued entries and crashes the contracts left are in the account
\* and not on sale; where nothing fails they are all there are.
CloneCounts ==
    /\ paper => "paper" \in risk.of
    /\ "working" \notin risk.of => \A t \in Trades :
          /\ req[t].pc = "placed" => book[t].buy = "filled" /\ req[t].status = "OPEN"
    /\ Steady => \A t \in Trades : mem[t].left - Pending(t) <= Bought(t) - OnSale(t)
    /\ Calm => \A t \in Trades :
          /\ book[t].buy # "working" /\ mem[t].status # "WORKING"
          /\ mem[t].status # "none" => Bought(t) - OnSale(t) = mem[t].left - Pending(t)

\* No sale rests but where it may, and then the account covers it.
CloneAccount ==
    "resting" \notin risk.of => (\A t \in Trades : book[t].selling = 0) /\ NeverOversold

\* The rest of a trade is on tiers that are still to come.
OnTiers(r) ==
    r.left = 0 \/ /\ r.dist = Distribute(Qty, Pcts(OwnLadder)) /\ r.pt # Never
                  /\ r.left <= Total(r.dist, r.tier .. Len(OwnLadder))
CloneLadders == "edit" \notin risk.of => \A t \in Trades : OnTiers(mem[t]) /\ OnTiers(disk[t])

CloneInv == /\ CloneTypes /\ CloneLocks /\ CloneOpen /\ CloneFresh
            /\ CloneJournal /\ CloneCounts /\ CloneAccount /\ CloneLadders

(* --- CloneTrades: trade records ------------------------------------------ *)
\* A function on 1 .. n is a sequence, of any larger set too.
LEMMA RowIsSeq ==
  ASSUME NEW n \in Nat, NEW S, NEW T, S \subseteq T, NEW f \in [1 .. n -> S]
  PROVE  f \in Seq(T) /\ Len(f) = n
<1>1. f \in [1 .. n -> T]
  OBVIOUS
<1> QED
  BY <1>1

\* The shares of a ladder.
LEMMA PctFacts ==
  ASSUME NEW l \in Seq([target : Int, stop : Int, pct : Nat]), l # << >>
  PROVE  Pcts(l) \in Seq(Nat) /\ Len(Pcts(l)) = Len(l) /\ Pcts(l) # << >> /\ Len(l) \in Nat \ {0}
<1>1. PICK n \in Nat \ {0} : n = Len(l) /\ DOMAIN l = 1 .. n
  BY LenProperties, EmptySeq
<1>2. \A i \in 1 .. n : l[i] \in [target : Int, stop : Int, pct : Nat]
  BY <1>1, ElementOfSeq
<1>3. \A i \in 1 .. n : l[i].pct \in Nat
  BY <1>2
<1>4. Pcts(l) = [i \in 1 .. n |-> l[i].pct]
  BY <1>1 DEF Pcts
<1>5. Pcts(l) \in [1 .. n -> Nat]
  BY <1>3, <1>4
<1> QED
  BY <1>1, <1>5

\* The ladders: shares for every tier, targets that are no placeholder.
LEMMA LadderFacts ==
  ASSUME NEW l \in {OwnLadder, NewLadder}
  PROVE  /\ l \in Seq([target : Int, stop : Int, pct : Nat]) /\ l # << >> /\ Len(l) \in Nat \ {0}
         /\ \A i \in 1 .. Len(l) : l[i].target \in Int /\ l[i].stop \in Int /\ l[i].target # Never
         /\ DOMAIN l = 1 .. Len(l) /\ Never \in Int /\ Qty \in Nat \ {0} /\ IsFiniteSet(Trades)
<1>1. l \in Seq([target : Int, stop : Int, pct : Nat]) /\ l # << >> /\ \A i \in DOMAIN l : l[i].target # Never
  BY LadderAssumption
<1>2. Len(l) \in Nat \ {0} /\ DOMAIN l = 1 .. Len(l)
  BY <1>1, LenProperties, EmptySeq
<1>3. \A i \in 1 .. Len(l) : l[i] \in [target : Int, stop : Int, pct : Nat]
  BY <1>1, ElementOfSeq
<1>4. \A i \in 1 .. Len(l) : l[i].target \in Int /\ l[i].stop \in Int
  BY <1>3
<1> QED
  BY <1>1, <1>2, <1>4, CloneAssumption

\* What is shared out by the shares w is a row of contracts.
LEMMA SharedOut ==
  ASSUME NEW q \in 0 .. Qty, NEW w \in Seq(Nat), w # << >>
  PROVE  Distribute(q, w) \in Seq(0 .. Qty) /\ Total(Distribute(q, w), 1 .. Len(w)) = q
<1>1. Qty \in Nat
  BY CloneAssumption
<1>2. PICK n \in Nat : n = Len(w)
  BY LenProperties
<1>3. q \in Nat /\ 0 .. q \subseteq 0 .. Qty
  BY <1>1
<1>4. Distribute(q, w) \in [1 .. Len(w) -> 0 .. q] /\ Total(Distribute(q, w), 1 .. Len(w)) = q
  BY <1>3, DistributeFacts
<1>5. Distribute(q, w) \in [1 .. n -> 0 .. q]
  BY <1>2, <1>4
<1>6. Distribute(q, w) \in Seq(0 .. Qty)
  BY <1>3, <1>5, RowIsSeq
<1> QED
  BY <1>4, <1>6

\* What is shared out over the tiers from i on.
LEMMA SharedFacts ==
  ASSUME NEW l \in {OwnLadder, NewLadder}, NEW q \in 0 .. Qty, NEW i \in 1 .. Len(l)
  PROVE  Distribute(q, Pcts(SubSeq(l, i, Len(l)))) \in Seq(0 .. Qty)
<1>1. PICK n \in Nat \ {0} : n = Len(l)
  BY LadderFacts
<1>2. PICK T : T = [target : Int, stop : Int, pct : Nat]
  OBVIOUS
<1>3. \A k \in i .. n : l[k] \in T
  <2>1. i .. n \subseteq 1 .. n
    BY <1>1
  <2>2. l \in Seq(T)
    BY <1>2, LadderFacts
  <2> QED
    BY <1>1, <2>1, <2>2, ElementOfSeq
<1>4. PICK s : s = SubSeq(l, i, n)
  OBVIOUS
<1>5. i \in Int /\ n \in Int /\ i <= n
  BY <1>1
<1>6. SubSeq(l, i, n) \in Seq(T) /\ Len(SubSeq(l, i, n)) = n - i + 1
  BY <1>3, <1>5, SubSeqProperties
<1>7. s \in Seq(T) /\ s # << >>
  <2>1. Len(s) # 0 /\ s \in Seq(T)
    BY <1>4, <1>5, <1>6
  <2>2. Len(<< >>) = 0
    OBVIOUS
  <2> QED
    BY <2>1, <2>2
<1>8. Pcts(s) \in Seq(Nat) /\ Pcts(s) # << >>
  BY <1>2, <1>7, PctFacts
<1>9. Distribute(q, Pcts(s)) \in Seq(0 .. Qty)
  BY <1>8, SharedOut
<1> QED
  BY <1>1, <1>4, <1>9

\* What is shared out over a whole ladder.
LEMMA WholeFacts ==
  ASSUME NEW l \in {OwnLadder, NewLadder}, NEW q \in 0 .. Qty
  PROVE  /\ Distribute(q, Pcts(l)) \in Seq(0 .. Qty)
         /\ Total(Distribute(q, Pcts(l)), 1 .. Len(l)) = q
<1>1. l \in Seq([target : Int, stop : Int, pct : Nat]) /\ l # << >>
  BY LadderFacts
<1>2. PICK w : w = Pcts(l)
  OBVIOUS
<1>3. w \in Seq(Nat) /\ Len(w) = Len(l) /\ w # << >>
  BY <1>1, <1>2, PctFacts
<1>4. Distribute(q, w) \in Seq(0 .. Qty) /\ Total(Distribute(q, w), 1 .. Len(w)) = q
  BY <1>3, SharedOut
<1> QED
  BY <1>2, <1>3, <1>4

\* A new trade is on its first tier with all its contracts.
LEMMA OpenedFacts ==
  ASSUME NEW s \in {"OPEN", "WORKING"}, NEW e \in BOOLEAN
  PROVE  /\ Opened(s, e) \in TradeRecord /\ Opened(s, e).status = s /\ Opened(s, e).left = Qty
         /\ OnTiers(Opened(s, e))
<1>1. OwnLadder \in {OwnLadder, NewLadder} /\ Qty \in 0 .. Qty /\ Qty \in Nat \ {0}
  BY CloneAssumption
<1>2. PICK d : d = Distribute(Qty, Pcts(OwnLadder))
  OBVIOUS
<1>3. d \in Seq(0 .. Qty) /\ Total(d, 1 .. Len(OwnLadder)) = Qty
  BY <1>1, <1>2, WholeFacts
<1>4. OwnLadder[1].target \in Int /\ OwnLadder[1].stop \in Int /\ OwnLadder[1].target # Never
  BY <1>1, LadderFacts
<1>5. 1 \in Nat \ {0} /\ FALSE \in BOOLEAN
  OBVIOUS
<1>6. Opened(s, e) \in TradeRecord
  BY <1>1, <1>2, <1>3, <1>4, <1>5, Zenon DEF Opened, TradeRecord
<1>7. OnTiers(Opened(s, e))
  BY <1>1, <1>2, <1>3, <1>4 DEF Opened, OnTiers
<1> QED
  BY <1>6, <1>7 DEF Opened

\* An edit changes the ladder of a trade, not what is left of it or where.
LEMMA EditedFacts ==
  ASSUME NEW r \in TradeRecord
  PROVE  /\ Edited(r, NewLadder) \in TradeRecord
         /\ Edited(r, NewLadder).status = r.status /\ Edited(r, NewLadder).left = r.left
         /\ Edited(r, NewLadder).tier = r.tier
<1>1. NewLadder \in {OwnLadder, NewLadder} /\ Qty \in Nat /\ Len(NewLadder) \in Nat \ {0}
  BY LadderFacts
<1>2. r.left \in 0 .. Qty /\ r.tier \in Nat \ {0} /\ r.dist \in Seq(0 .. Qty)
  BY DEF TradeRecord
<1>3. PICK i \in 1 .. Len(NewLadder) : i = Smaller(r.tier, Len(NewLadder))
  BY <1>1, <1>2 DEF Smaller
<1>4. PICK a, b : a = Distribute(r.left, Pcts(NewLadder))
             /\ b = Distribute(r.left, Pcts(SubSeq(NewLadder, i, Len(NewLadder))))
  OBVIOUS
<1>5. a \in Seq(0 .. Qty) /\ b \in Seq(0 .. Qty)
  BY <1>1, <1>2, <1>3, <1>4, SharedFacts, WholeFacts
<1>6. PICK c : c = SubSeq(r.dist, 1, Smaller(i - 1, Len(r.dist)))
  OBVIOUS
<1>7. c \in Seq(0 .. Qty)
  <2>1. PICK n \in Nat : n = Len(r.dist) /\ \A k \in 1 .. n : r.dist[k] \in 0 .. Qty
    BY <1>2, LenProperties, ElementOfSeq
  <2>2. PICK m \in 0 .. n : m = Smaller(i - 1, n)
    BY <1>3, <2>1 DEF Smaller
  <2>3. \A k \in 1 .. m : r.dist[k] \in 0 .. Qty
    BY <2>1, <2>2
  <2>4. 1 \in Int /\ m \in Int
    OBVIOUS
  <2>5. SubSeq(r.dist, 1, m) \in Seq(0 .. Qty)
    BY <2>3, <2>4, SubSeqProperties
  <2> QED
    BY <1>6, <2>1, <2>2, <2>5
<1>8. PICK d : d = IF r.left = Qty THEN a ELSE c \o b
  OBVIOUS
<1>9. d \in Seq(0 .. Qty)
  <2>1. c \o b \in Seq(0 .. Qty)
    BY <1>5, <1>7, ConcatProperties
  <2> QED
    BY <1>5, <1>8, <2>1
<1>10. PICK p \in Int, s \in Int : p = NewLadder[i].target /\ s = NewLadder[i].stop
  BY <1>1, <1>3, LadderFacts
<1>11. Edited(r, NewLadder) = [r EXCEPT !.dist = d, !.pt = p, !.stop = s]
  BY <1>3, <1>4, <1>6, <1>8, <1>10 DEF Edited
<1> QED
  BY <1>9, <1>10, <1>11 DEF TradeRecord

\* The statuses of a trade record.
CloneStatuses == {"none", "WORKING", "OPEN", "CLOSED", "CANCELLED"}

\* What may be sold of a trade at its target.
LEMMA TrancheFacts ==
  ASSUME NEW r \in TradeRecord
  PROVE  /\ Tranche(r) \in 0 .. r.left /\ (r.left > 0 => Tranche(r) > 0)
         /\ r.tier \in DOMAIN r.dist /\ Tranche(r) < r.left => Tranche(r) >= r.dist[r.tier]
         /\ r.left \in 0 .. Qty /\ Qty \in Nat
<1>1. Qty \in Nat
  BY CloneAssumption
<1>2. r.left \in 0 .. Qty /\ r.dist \in Seq(0 .. Qty)
  BY DEF TradeRecord
<1>3. \A i \in DOMAIN r.dist : r.dist[i] \in Nat
  <2>1. \A i \in 1 .. Len(r.dist) : r.dist[i] \in 0 .. Qty
    BY <1>2, ElementOfSeq
  <2>2. DOMAIN r.dist = 1 .. Len(r.dist)
    BY <1>2, LenProperties
  <2> QED
    BY <1>1, <2>1, <2>2
<1>4. PICK k : k = IF r.tier \in DOMAIN r.dist THEN r.dist[r.tier] ELSE 1
  OBVIOUS
<1>5. k \in Nat /\ (r.tier \in DOMAIN r.dist => k = r.dist[r.tier])
  BY <1>3, <1>4
<1>6. Tranche(r) = Smaller(r.left, Larger(1, k))
  BY <1>4 DEF Tranche
<1>7. Larger(1, k) \in Nat \ {0} /\ Larger(1, k) >= k
  BY <1>5 DEF Larger
<1>8. PICK m \in Nat \ {0} : m = Larger(1, k) /\ m >= k
  BY <1>7
<1>9. PICK n \in Nat : n = r.left
  BY <1>1, <1>2
<1>10. Tranche(r) = IF n < m THEN n ELSE m
  BY <1>6, <1>8, <1>9 DEF Smaller
<1>11. Tranche(r) \in 0 .. n /\ (n > 0 => Tranche(r) > 0) /\ (Tranche(r) < n => Tranche(r) >= k)
  BY <1>5, <1>8, <1>9, <1>10
<1> QED
  BY <1>1, <1>2, <1>5, <1>9, <1>11

\* A trade that is over.
LEMMA OverFacts ==
  ASSUME NEW r \in TradeRecord, NEW s \in CloneStatuses
  PROVE  /\ Over(r, s) \in TradeRecord /\ Over(r, s).left = 0 /\ Over(r, s).status = s
         /\ OnTiers(Over(r, s))
<1>1. 0 \in 0 .. Qty
  BY CloneAssumption
<1> QED
  BY <1>1 DEF Over, TradeRecord, CloneStatuses, OnTiers

\* A trade whose entry is confirmed.
LEMMA ReconciledFacts ==
  ASSUME NEW r \in TradeRecord
  PROVE  /\ Reconciled(r) \in TradeRecord /\ Reconciled(r).status = "OPEN"
         /\ Reconciled(r).left = r.left /\ Reconciled(r).tier = r.tier /\ Reconciled(r).stop = r.stop
         /\ r.exact => Reconciled(r).pt = r.pt
         /\ OnTiers(r) => OnTiers(Reconciled(r))
<1>1. PICK p \in Int : p = NewLadder[1].target /\ p # Never
  <2>1. 1 \in 1 .. Len(NewLadder)
    BY LadderFacts
  <2> QED
    BY <2>1, LadderFacts
<1>2. PICK q \in Int : q = (IF r.exact THEN r.pt ELSE p)
  BY <1>1 DEF TradeRecord
<1>3. "OPEN" \in {"none", "WORKING", "OPEN", "CLOSED", "CANCELLED"} /\ TRUE \in BOOLEAN
  OBVIOUS
<1>. DEFINE a == [r EXCEPT !.status = "OPEN"]
            b == [a EXCEPT !.pt = q]
            c == [b EXCEPT !.seen = TRUE]
            d == [c EXCEPT !.exact = TRUE]
<1>4. r.pt \in Int
  BY DEF TradeRecord
<1>5. Reconciled(r) = d
  BY <1>1, <1>2 DEF Reconciled, TradeRecord
<1>6. a \in TradeRecord /\ a.status = "OPEN" /\ a.left = r.left /\ a.tier = r.tier /\ a.stop = r.stop
        /\ a.dist = r.dist
  BY <1>3 DEF TradeRecord
<1>. HIDE DEF a
<1>7. b \in TradeRecord /\ b.status = "OPEN" /\ b.left = r.left /\ b.tier = r.tier /\ b.stop = r.stop /\ b.pt = q
        /\ b.dist = r.dist
  BY <1>6 DEF TradeRecord
<1>. HIDE DEF b
<1>8. c \in TradeRecord /\ c.status = "OPEN" /\ c.left = r.left /\ c.tier = r.tier /\ c.stop = r.stop /\ c.pt = q
        /\ c.dist = r.dist
  BY <1>3, <1>7, Zenon DEF TradeRecord
<1>. HIDE DEF c
<1>9. d \in TradeRecord /\ d.status = "OPEN" /\ d.left = r.left /\ d.tier = r.tier /\ d.stop = r.stop /\ d.pt = q
        /\ d.dist = r.dist
  BY <1>3, <1>8, Zenon DEF TradeRecord
<1>. HIDE DEF d
<1>10. r.exact => q = r.pt
  BY <1>2
<1>11. OnTiers(r) => OnTiers(d)
  BY <1>1, <1>2, <1>9 DEF OnTiers
<1> QED
  BY <1>5, <1>9, <1>10, <1>11

\* The contracts of the tiers of the own ladder.
LEMMA OwnRow ==
  /\ Distribute(Qty, Pcts(OwnLadder)) \in Seq(0 .. Qty)
  /\ Len(Distribute(Qty, Pcts(OwnLadder))) = Len(OwnLadder)
  /\ Total(Distribute(Qty, Pcts(OwnLadder)), 1 .. Len(OwnLadder)) = Qty
<1>1. OwnLadder \in {OwnLadder, NewLadder} /\ Qty \in 0 .. Qty /\ Qty \in Nat
  BY CloneAssumption
<1>2. OwnLadder \in Seq([target : Int, stop : Int, pct : Nat]) /\ OwnLadder # << >>
  BY LadderFacts
<1>3. PICK w : w = Pcts(OwnLadder)
  OBVIOUS
<1>4. w \in Seq(Nat) /\ Len(w) = Len(OwnLadder) /\ w # << >> /\ Len(OwnLadder) \in Nat
  BY <1>2, <1>3, PctFacts
<1>5. Distribute(Qty, w) \in [1 .. Len(w) -> 0 .. Qty]
  BY <1>1, <1>4, DistributeFacts
<1>6. PICK d : d = Distribute(Qty, w)
  OBVIOUS
<1>7. PICK m \in Nat : m = Len(w)
  BY <1>4
<1>8. d \in [1 .. m -> 0 .. Qty]
  BY <1>5, <1>6, <1>7
<1>9. Len(d) = m
  BY <1>8
<1> QED
  BY <1>1, <1>3, <1>4, <1>6, <1>7, <1>9, WholeFacts

\* The tiers still to come.
LEMMA TiersToCome ==
  ASSUME NEW n \in Nat, NEW d \in Seq(0 .. Qty), Len(d) = n, NEW i \in Nat \ {0}
  PROVE  /\ i > n => Total(d, i .. n) = 0
         /\ i \in 1 .. n => Total(d, i .. n) = d[i] + Total(d, i + 1 .. n) /\ d[i] \in Nat
         /\ Total(d, i .. n) \in Int /\ Total(d, i + 1 .. n) \in Int
<1>1. Qty \in Nat
  BY CloneAssumption
<1>2. \A k \in 1 .. n : d[k] \in Nat /\ d[k] \in Int
  <2>1. \A k \in 1 .. n : d[k] \in 0 .. Qty
    BY ElementOfSeq
  <2> QED
    BY <1>1, <2>1
<1>3. IsFiniteSet(i .. n) /\ IsFiniteSet(i + 1 .. n)
  BY FS_Interval
<1>4. PICK S, T : S = i .. n /\ T = i + 1 .. n
  OBVIOUS
<1>5. (\A k \in S : d[k] \in Int) /\ (\A k \in T : d[k] \in Int)
  BY <1>2, <1>4
<1>10. IsFiniteSet(S) /\ IsFiniteSet(T)
  BY <1>3, <1>4
<1>6. Total(d, S) \in Int /\ (S = {} => Total(d, S) = 0) /\ \A x \in S : Total(d, S) = d[x] + Total(d, S \ {x})
  BY <1>5, <1>10, TotalFacts
<1>7. Total(d, T) \in Int
  BY <1>5, <1>10, TotalFacts
<1>8. i > n => S = {}
  BY <1>4
<1>9. i \in 1 .. n => i \in S /\ S \ {i} = T
  BY <1>4
<1> QED
  BY <1>2, <1>4, <1>6, <1>7, <1>8, <1>9

\* The sale of a tier: fewer contracts, on the tiers still to come.
LEMMA NextTierFacts ==
  ASSUME NEW r \in TradeRecord, r.left > 0
  PROVE  /\ OnNextTier(r) \in TradeRecord
         /\ OnNextTier(r).left = r.left - Tranche(r)
         /\ OnNextTier(r).left > 0 => OnNextTier(r).status = r.status
         /\ OnNextTier(r).status \in {r.status, "CLOSED"}
         /\ OnTiers(r) => OnTiers(OnNextTier(r))
<1>1. /\ Tranche(r) \in 0 .. r.left /\ Tranche(r) > 0 /\ r.left \in 0 .. Qty /\ Qty \in Nat
      /\ r.tier \in DOMAIN r.dist /\ Tranche(r) < r.left => Tranche(r) >= r.dist[r.tier]
  BY TrancheFacts
<1>2. PICK k \in 1 .. r.left : k = Tranche(r)
  BY <1>1
<1>3. PICK n \in 0 .. Qty : n = r.left - k
  BY <1>1, <1>2
<1>4. r.tier \in Nat \ {0} /\ r.tier + 1 \in Nat \ {0} /\ r.stop \in Int /\ r.dist \in Seq(0 .. Qty) /\ Never \in Int
  BY CloneAssumption DEF TradeRecord
<1>5. PICK j \in Nat \ {0} : j = r.tier + 1
  BY <1>4
<1>. DEFINE sold == [r EXCEPT !.left = n]
<1>6. Sold(r) = sold /\ sold \in TradeRecord /\ sold.left = n /\ sold.status = r.status /\ sold.dist = r.dist
  BY <1>2, <1>3 DEF Sold, TradeRecord
<1>. HIDE DEF sold
<1>7. OnNextTier(r) = IF n <= 0 THEN [sold EXCEPT !.status = "CLOSED"]
        ELSE IF j \notin DOMAIN OwnLadder THEN [sold EXCEPT !.tier = j, !.pt = Never]
        ELSE [sold EXCEPT !.tier = j, !.pt = OwnLadder[j].target, !.stop = RatchetedStop(r, j)]
  BY <1>5, <1>6 DEF OnNextTier
<1>8. CASE n <= 0
  <2>1. OnNextTier(r) = [sold EXCEPT !.status = "CLOSED"] /\ n = 0
    BY <1>7, <1>8
  <2>2. OnNextTier(r) \in TradeRecord /\ OnNextTier(r).left = n /\ OnNextTier(r).status = "CLOSED"
    BY <1>6, <2>1 DEF TradeRecord
  <2>3. OnTiers(OnNextTier(r))
    BY <2>1, <2>2 DEF OnTiers
  <2> QED
    BY <1>2, <1>3, <2>1, <2>2, <2>3
<1>9. CASE n > 0 /\ j \notin DOMAIN OwnLadder
  <2>1. OnNextTier(r) = [sold EXCEPT !.tier = j, !.pt = Never]
    BY <1>7, <1>9
  <2>2. OnNextTier(r) \in TradeRecord /\ OnNextTier(r).left = n /\ OnNextTier(r).status = r.status
    BY <1>4, <1>6, <2>1 DEF TradeRecord
  <2>3. ~OnTiers(r)
    <3> SUFFICES ASSUME OnTiers(r) PROVE FALSE
      OBVIOUS
    <3>1. PICK m \in Nat \ {0} : m = Len(OwnLadder) /\ DOMAIN OwnLadder = 1 .. m
      BY LadderFacts, Zenon
    <3>2. r.dist = Distribute(Qty, Pcts(OwnLadder)) /\ r.left <= Total(r.dist, r.tier .. m)
      BY <3>1 DEF OnTiers
    <3>3. Len(r.dist) = m
      BY <3>1, <3>2, OwnRow
    <3>4. m <= r.tier
      BY <1>4, <1>5, <1>9, <3>1
    <3>5. CASE m = r.tier
      <4>3. r.tier \in 1 .. m /\ j > m
        BY <1>4, <1>5, <3>5
      <4>4. Total(r.dist, r.tier .. m) = r.dist[r.tier] + Total(r.dist, j .. m) /\ r.dist[r.tier] \in Nat
        BY <1>4, <1>5, <3>3, <4>3, TiersToCome
      <4>5. Total(r.dist, j .. m) = 0
        BY <1>4, <3>3, <4>3, TiersToCome
      <4>1. Total(r.dist, r.tier .. m) = r.dist[r.tier] /\ r.dist[r.tier] \in Nat
        BY <4>4, <4>5
      <4>2. r.tier \in DOMAIN r.dist
        BY <1>4, <3>3, <3>5, LenProperties
      <4> QED
        BY <1>1, <1>2, <1>3, <1>9, <3>2, <4>1, <4>2
    <3>6. CASE m < r.tier
      <4>1. Total(r.dist, r.tier .. m) = 0
        BY <1>4, <3>3, <3>6, TiersToCome, Zenon
      <4> QED
        BY <1>1, <3>2, <4>1
    <3> QED
      BY <1>4, <3>4, <3>5, <3>6
  <2> QED
    BY <1>2, <1>3, <2>2, <2>3
<1>10. CASE n > 0 /\ j \in DOMAIN OwnLadder
  <2>1. PICK m \in Nat \ {0} : m = Len(OwnLadder) /\ DOMAIN OwnLadder = 1 .. m
    BY LadderFacts, Zenon
  <2>2. j \in 1 .. m
    BY <1>10, <2>1
  <2>3. PICK p \in Int, s \in Int : p = OwnLadder[j].target /\ p # Never /\ s = RatchetedStop(r, j)
    <3>1. OwnLadder[j].target \in Int /\ OwnLadder[j].target # Never /\ OwnLadder[j].stop \in Int
      BY <2>1, <2>2, LadderFacts
    <3>2. RatchetedStop(r, j) \in Int
      BY <1>4, <3>1 DEF RatchetedStop, Larger
    <3> QED
      BY <3>1, <3>2
  <2>4. OnNextTier(r) = [sold EXCEPT !.tier = j, !.pt = p, !.stop = s]
    BY <1>7, <1>10, <2>3
  <2>5. /\ OnNextTier(r) \in TradeRecord /\ OnNextTier(r).left = n /\ OnNextTier(r).status = r.status
        /\ OnNextTier(r).dist = r.dist /\ OnNextTier(r).tier = j /\ OnNextTier(r).pt = p
    BY <1>4, <1>6, <2>4, ZenonT(60) DEF TradeRecord
  <2>6. OnTiers(r) => OnTiers(OnNextTier(r))
    <3> SUFFICES ASSUME OnTiers(r) PROVE n <= Total(r.dist, j .. m) /\ r.dist = Distribute(Qty, Pcts(OwnLadder))
      BY <2>1, <2>3, <2>5 DEF OnTiers
    <3>2. r.dist = Distribute(Qty, Pcts(OwnLadder)) /\ r.left <= Total(r.dist, r.tier .. m)
      BY <1>1, <2>1 DEF OnTiers
    <3>3. Len(r.dist) = m
      BY <2>1, <3>2, OwnRow
    <3>4. r.tier \in 1 .. m
      BY <1>4, <1>5, <2>2
    <3>5. /\ Total(r.dist, r.tier .. m) = r.dist[r.tier] + Total(r.dist, j .. m)
          /\ r.dist[r.tier] \in Nat /\ Total(r.dist, j .. m) \in Int
      BY <1>4, <1>5, <3>3, <3>4, TiersToCome
    <3>6. r.tier \in DOMAIN r.dist
      BY <1>4, <3>3, <3>4, LenProperties
    <3> QED
      BY <1>1, <1>2, <1>3, <1>10, <3>2, <3>5, <3>6
  <2> QED
    BY <1>2, <1>3, <2>5, <2>6
<1> QED
  BY <1>3, <1>8, <1>9, <1>10

(* --- CloneTrades: the account -------------------------------------------- *)
\* What is held is counted in whole contracts.
LEMMA HeldFacts ==
  ASSUME TypeOK
  PROVE  /\ Held \in [Trades -> Int] /\ IsFiniteSet(Trades) /\ Qty \in Nat \ {0}
         /\ \A t \in Trades : /\ Held[t] = Bought(t) - book[t].sold /\ Bought(t) \in Nat /\ OnSale(t) \in Nat
                              /\ book[t].sold \in Nat /\ book[t].selling \in Nat
                              /\ Position(t) = Total(Held, SameOption(t)) /\ Position(t) \in Int
                              /\ SameOption(t) \subseteq Trades /\ IsFiniteSet(SameOption(t)) /\ t \in SameOption(t)
<1>1. Qty \in Nat \ {0} /\ IsFiniteSet(Trades)
  BY CloneAssumption
<1>2. \A t \in Trades : book[t].sold \in Nat /\ book[t].selling \in Nat
  BY DEF TypeOK
<1>3. \A t \in Trades : Bought(t) \in Nat /\ OnSale(t) \in Nat
  BY <1>1, <1>2 DEF Bought, OnSale
<1>4. \A t \in Trades : Held[t] = Bought(t) - book[t].sold
  BY DEF Held
<1>5. \A t \in Trades : Bought(t) - book[t].sold \in Int
  BY <1>2, <1>3
<1>6. Held \in [Trades -> Int]
  BY <1>5 DEF Held
<1>7. ASSUME NEW t \in Trades
      PROVE  SameOption(t) \subseteq Trades /\ IsFiniteSet(SameOption(t)) /\ t \in SameOption(t)
  <2>1. SameOption(t) \subseteq Trades /\ t \in SameOption(t)
    BY DEF SameOption
  <2> QED
    BY <1>1, <2>1, FS_Subset
<1>8. ASSUME NEW t \in Trades
      PROVE  Position(t) = Total(Held, SameOption(t)) /\ Position(t) \in Int
  <2>1. Position(t) = Total(Held, SameOption(t))
    BY DEF Position
  <2>2. PICK S, F : S = SameOption(t) /\ F = Held
    OBVIOUS
  <2>3. IsFiniteSet(S)
    BY <1>7, <2>2
  <2>4. \A x \in S : F[x] \in Int
    BY <1>6, <1>7, <2>2
  <2>5. Total(F, S) \in Int
    BY <2>3, <2>4, TotalFacts
  <2> QED
    BY <2>1, <2>2, <2>5
<1> QED
  BY <1>1, <1>2, <1>3, <1>4, <1>6, <1>7, <1>8

\* The same after a step.
LEMMA HeldNext ==
  ASSUME TypeOK'
  PROVE  /\ Held' \in [Trades -> Int]
         /\ \A t \in Trades : SameOption(t)' \subseteq Trades /\ IsFiniteSet(SameOption(t)')
<1>1. Qty \in Nat \ {0} /\ IsFiniteSet(Trades)
  BY CloneAssumption
<1>2. \A t \in Trades : book'[t].sold \in Nat
  BY DEF TypeOK
<1>3. \A t \in Trades : Bought(t)' - book'[t].sold \in Int
  BY <1>1, <1>2 DEF Bought
<1>4. Held' \in [Trades -> Int]
  BY <1>3 DEF Held
<1>5. ASSUME NEW t \in Trades PROVE SameOption(t)' \subseteq Trades /\ IsFiniteSet(SameOption(t)')
  <2>1. SameOption(t)' \subseteq Trades
    BY DEF SameOption
  <2> QED
    BY <1>1, <2>1, FS_Subset
<1> QED
  BY <1>4, <1>5

\* With one term changed, a total over any finite set of numbers.
LEMMA GroupMoves ==
  ASSUME NEW S, IsFiniteSet(S), NEW x
  PROVE  \A F, G :
           (\A y \in S : F[y] \in Int /\ G[y] \in Int) /\ (\A y \in S : y # x => G[y] = F[y])
             => /\ Total(G, S) \in Int /\ Total(F, S) \in Int
                /\ x \in S => Total(G, S) = Total(F, S) - F[x] + G[x]
                /\ x \notin S => Total(G, S) = Total(F, S)
<1> SUFFICES ASSUME NEW F, NEW G, \A y \in S : F[y] \in Int /\ G[y] \in Int, \A y \in S : y # x => G[y] = F[y]
             PROVE  /\ Total(G, S) \in Int /\ Total(F, S) \in Int
                    /\ x \in S => Total(G, S) = Total(F, S) - F[x] + G[x]
                    /\ x \notin S => Total(G, S) = Total(F, S)
  OBVIOUS
<1>1. Total(G, S) \in Int /\ Total(F, S) \in Int
  <2>1. (\A y \in S : F[y] \in Int) /\ (\A y \in S : G[y] \in Int)
    OBVIOUS
  <2> QED
    BY <2>1, TotalFacts
<1>2. CASE x \in S
  <2>1. \A A, B : \A z \in S :
          (\A y \in S : A[y] \in Int /\ B[y] \in Int) /\ (\A y \in S : y # z => B[y] = A[y])
            => Total(B, S) = Total(A, S) - A[z] + B[z]
    BY TotalMoves
  <2> QED
    BY <1>1, <1>2, <2>1
<1>3. CASE x \notin S
  <2>1. \A y \in S : F[y] \in Int /\ G[y] = F[y]
    BY <1>3
  <2>2. Total(F, S) = Total(G, S)
    BY <2>1, TotalSame
  <2> QED
    BY <1>1, <1>3, <2>2
<1> QED
  BY <1>2, <1>3

\* A sale that the position covers leaves no option short.
LEMMA SaleKeeps ==
  ASSUME TypeOK, TypeOK', NeverOversold, NEW t \in Trades, NEW q \in Nat, Position(t) >= q,
         \A u \in Trades : req'[u].sig = req[u].sig,
         Held'[t] = Held[t] - q, \A u \in Trades : u # t => Held'[u] = Held[u]
  PROVE  NeverOversold'
<1> SUFFICES ASSUME NEW u \in Trades PROVE Position(u)' >= 0
  BY DEF NeverOversold
<1>1. PICK S, F, G : S = SameOption(u) /\ F = Held /\ G = Held'
  OBVIOUS
<1>2. SameOption(u)' = S
  BY <1>1 DEF SameOption
<1>3. /\ F \in [Trades -> Int] /\ S \subseteq Trades /\ IsFiniteSet(S)
      /\ Position(u) = Total(F, S) /\ Position(u) >= 0 /\ Position(u) \in Int
  BY <1>1, HeldFacts DEF NeverOversold
<1>4. G \in [Trades -> Int] /\ Position(u)' = Total(G, S)
  <2>1. Position(u)' = Total(Held', SameOption(u)')
    BY DEF Position
  <2>2. Held' \in [Trades -> Int]
    BY HeldNext
  <2> QED
    BY <1>1, <1>2, <2>1, <2>2
<1>5. \A y \in S : F[y] \in Int /\ G[y] \in Int
  BY <1>3, <1>4
<1>6. \A y \in S : y # t => G[y] = F[y]
  BY <1>1, <1>3
<1>7. /\ Total(G, S) \in Int /\ Total(F, S) \in Int
      /\ t \in S => Total(G, S) = Total(F, S) - F[t] + G[t]
      /\ t \notin S => Total(G, S) = Total(F, S)
  <2>1. IsFiniteSet(S)
    BY <1>3
  <2>2. \A A, B :
          (\A y \in S : A[y] \in Int /\ B[y] \in Int) /\ (\A y \in S : y # t => B[y] = A[y])
            => /\ Total(B, S) \in Int /\ Total(A, S) \in Int
               /\ t \in S => Total(B, S) = Total(A, S) - A[t] + B[t]
               /\ t \notin S => Total(B, S) = Total(A, S)
    BY <2>1, GroupMoves
  <2> QED
    BY <1>5, <1>6, <2>2, Zenon
<1>8. CASE t \in S
  <2>1. SameOption(t) = S
    BY <1>1, <1>8 DEF SameOption
  <2>2. Total(F, S) >= q
    BY <1>1, <2>1, HeldFacts
  <2>3. F[t] \in Int /\ G[t] = F[t] - q
    BY <1>1, <1>3
  <2> QED
    BY <1>4, <1>7, <1>8, <2>2, <2>3
<1>9. CASE t \notin S
  BY <1>3, <1>4, <1>7, <1>9
<1> QED
  BY <1>8, <1>9

\* Neither does a purchase.
LEMMA PurchaseKeeps ==
  ASSUME TypeOK, TypeOK', NeverOversold, NEW t \in Trades,
         \A u \in Trades : req'[u].sig = req[u].sig,
         Held'[t] >= Held[t], \A u \in Trades : u # t => Held'[u] = Held[u]
  PROVE  NeverOversold'
<1> SUFFICES ASSUME NEW u \in Trades PROVE Position(u)' >= 0
  BY DEF NeverOversold
<1>1. PICK S, F, G : S = SameOption(u) /\ F = Held /\ G = Held'
  OBVIOUS
<1>2. SameOption(u)' = S
  BY <1>1 DEF SameOption
<1>3. /\ F \in [Trades -> Int] /\ S \subseteq Trades /\ IsFiniteSet(S)
      /\ Position(u) = Total(F, S) /\ Position(u) >= 0 /\ Position(u) \in Int
  BY <1>1, HeldFacts DEF NeverOversold
<1>4. G \in [Trades -> Int] /\ Position(u)' = Total(G, S)
  <2>1. Position(u)' = Total(Held', SameOption(u)')
    BY DEF Position
  <2>2. Held' \in [Trades -> Int]
    BY HeldNext
  <2> QED
    BY <1>1, <1>2, <2>1, <2>2
<1>5. \A y \in S : F[y] \in Int /\ G[y] \in Int
  BY <1>3, <1>4
<1>6. \A y \in S : y # t => G[y] = F[y]
  BY <1>1, <1>3
<1>7. /\ Total(G, S) \in Int /\ Total(F, S) \in Int
      /\ t \in S => Total(G, S) = Total(F, S) - F[t] + G[t]
      /\ t \notin S => Total(G, S) = Total(F, S)
  <2>1. IsFiniteSet(S)
    BY <1>3
  <2>2. \A A, B :
          (\A y \in S : A[y] \in Int /\ B[y] \in Int) /\ (\A y \in S : y # t => B[y] = A[y])
            => /\ Total(B, S) \in Int /\ Total(A, S) \in Int
               /\ t \in S => Total(B, S) = Total(A, S) - A[t] + B[t]
               /\ t \notin S => Total(B, S) = Total(A, S)
    BY <2>1, GroupMoves
  <2> QED
    BY <1>5, <1>6, <2>2, Zenon
<1>8. F[t] \in Int /\ G[t] \in Int /\ G[t] >= F[t]
  BY <1>1, <1>3, <1>4
<1> QED
  BY <1>3, <1>4, <1>7, <1>8

\* Nor a request that comes to an option with what it bought.
LEMMA ArrivalKeeps ==
  ASSUME TypeOK, TypeOK', NeverOversold, NEW t \in Trades,
         \A u \in Trades : u # t => req'[u].sig = req[u].sig,
         Held[t] = 0, Held'[t] \in Nat, \A u \in Trades : u # t => Held'[u] = Held[u]
  PROVE  NeverOversold'
<1> SUFFICES ASSUME NEW u \in Trades PROVE Position(u)' >= 0
  BY DEF NeverOversold
<1>1. PICK S, T, F, G : S = SameOption(u)' /\ T = S \ {t} /\ F = Held /\ G = Held'
  OBVIOUS
<1>2. F \in [Trades -> Int]
  BY <1>1, HeldFacts
<1>3. G \in [Trades -> Int] /\ S \subseteq Trades /\ IsFiniteSet(S) /\ Position(u)' = Total(G, S)
  <2>1. Position(u)' = Total(Held', SameOption(u)')
    BY DEF Position
  <2>2. Held' \in [Trades -> Int] /\ IsFiniteSet(SameOption(u)') /\ SameOption(u)' \subseteq Trades
    BY HeldNext
  <2> QED
    BY <1>1, <2>1, <2>2
<1>4. IsFiniteSet(T) /\ T \subseteq Trades
  BY <1>1, <1>3, FS_Subset
<1>5. \A y \in T : F[y] \in Int /\ G[y] = F[y]
  BY <1>1, <1>2, <1>4
<1>6. Total(F, T) = Total(G, T)
  BY <1>4, <1>5, TotalSame
<1>7. Total(F, T) \in Int /\ Total(F, T) >= 0
  <2>1. CASE T = {}
    <3>1. Total(F, T) = 0
      BY <1>4, <1>5, <2>1, TotalFacts
    <3> QED
      BY <3>1
  <2>2. CASE T # {}
    <3>1. PICK v \in T : TRUE
      BY <2>2
    <3>2. PICK V : V = SameOption(v)
      OBVIOUS
    <3>3. v # t /\ v \in Trades /\ T = V \ {t}
      BY <1>1, <1>4, <3>1, <3>2 DEF SameOption
    <3>4. Total(F, V) \in Int /\ Total(F, V) >= 0 /\ IsFiniteSet(V) /\ V \subseteq Trades
      BY <1>1, <3>2, <3>3, HeldFacts DEF NeverOversold
    <3>5. \A y \in V : F[y] \in Int
      BY <1>2, <3>4
    <3>6. \A y \in V : Total(F, V) = F[y] + Total(F, V \ {y})
      BY <3>4, <3>5, TotalFacts
    <3>7. Total(F, T) \in Int
      BY <1>4, <1>5, TotalFacts
    <3>8. CASE t \in V
      BY <1>1, <3>3, <3>4, <3>6, <3>7, <3>8
    <3>9. CASE t \notin V
      BY <3>3, <3>4, <3>9
    <3> QED
      BY <3>8, <3>9
  <2> QED
    BY <2>1, <2>2
<1>8. \A y \in S : G[y] \in Int
  BY <1>3
<1>9. \A y \in S : Total(G, S) = G[y] + Total(G, S \ {y})
  BY <1>3, <1>8, TotalFacts
<1>10. CASE t \in S
  <2>1. Total(G, S) = G[t] + Total(G, T) /\ G[t] \in Nat
    BY <1>1, <1>9, <1>10
  <2> QED
    BY <1>3, <1>6, <1>7, <2>1
<1>11. CASE t \notin S
  BY <1>1, <1>3, <1>6, <1>7, <1>11
<1> QED
  BY <1>10, <1>11

\* Where no trade has more on sale than it bought, the account covers each.
LEMMA CoverFacts ==
  ASSUME TypeOK, \A u \in Trades : Held[u] >= 0
  PROVE  NeverOversold /\ \A t \in Trades : Position(t) >= Held[t]
<1> SUFFICES ASSUME NEW t \in Trades PROVE Position(t) >= 0 /\ Position(t) >= Held[t]
  BY DEF NeverOversold
<1>1. PICK S, F : S = SameOption(t) /\ F = Held
  OBVIOUS
<1>2. F \in [Trades -> Int] /\ S \subseteq Trades /\ IsFiniteSet(S) /\ t \in S /\ Position(t) = Total(F, S)
  BY <1>1, HeldFacts
<1>3. \A y \in S : F[y] \in Nat
  BY <1>1, <1>2
<1>4. Total(F, S) \in Nat /\ \A x \in S : F[x] <= Total(F, S)
  BY <1>2, <1>3, TotalCovers
<1> QED
  BY <1>1, <1>2, <1>3, <1>4

(* --- CloneTrades: steps -------------------------------------------------- *)
\* A fault is one of the scenario's.
LEMMA CloneFaultFacts ==
  ASSUME CloneTypes
  PROVE  /\ \A f : CloneFault(f) => f \in risk.of /\ risk'.of = risk.of /\ risk' \in [of : CloneScenarios, left : Nat]
         /\ Usual => risk'.of = risk.of /\ risk' \in [of : CloneScenarios, left : Nat]
BY DEF CloneFault, Usual, CloneTypes

\* The account of orders that do not change.
LEMMA AccountSame ==
  ASSUME CloneAccount, book' = book, \A u \in Trades : req'[u].sig = req[u].sig, risk'.of = risk.of
  PROVE  CloneAccount'
<1>1. Held' = Held
  BY DEF Held, Bought
<1>2. ASSUME NEW u \in Trades PROVE Position(u)' = Position(u)
  <2>1. SameOption(u)' = SameOption(u)
    BY DEF SameOption
  <2> QED
    BY <1>1, <2>1 DEF Position
<1>3. NeverOversold => NeverOversold'
  BY <1>2 DEF NeverOversold
<1> QED
  BY <1>3 DEF CloneAccount

\* The counts of trades and orders that do not change.
LEMMA CountsSame ==
  ASSUME CloneCounts, book' = book, risk'.of = risk.of, paper' => paper,
         \A u \in Trades : /\ mem'[u].left = mem[u].left /\ mem'[u].status = mem[u].status
                           /\ Pending(u)' = Pending(u)
                           /\ req'[u].pc = "placed" => req[u] = req'[u]
  PROVE  CloneCounts'
<1>1. \A u \in Trades : Bought(u)' = Bought(u) /\ OnSale(u)' = OnSale(u)
  BY DEF Bought, OnSale
<1> QED
  BY <1>1 DEF CloneCounts, Steady, Calm

\* What is on its way out of the books is part of what they show.
LEMMA PendingFacts ==
  ASSUME CloneTypes
  PROVE  \A u \in Trades : /\ mem[u] \in TradeRecord /\ mem[u].left \in 0 .. Qty /\ Qty \in Nat
                            /\ Pending(u) \in 0 .. mem[u].left
<1>1. Qty \in Nat
  BY CloneAssumption
<1>2. \A u \in Trades : mem[u] \in TradeRecord
  BY DEF CloneTypes, TypeOK
<1>3. \A u \in Trades : mem[u].left \in 0 .. Qty
  BY <1>2 DEF TradeRecord
<1>4. \A u \in Trades : Tranche(mem[u]) \in 0 .. mem[u].left
  BY <1>2, TrancheFacts
<1> QED
  BY <1>1, <1>2, <1>3, <1>4 DEF Pending

\* A queued entry fills.
LEMMA FillBuyKeeps ==
  ASSUME CloneInv, NEW t \in Trades, FillBuy(t)
  PROVE  CloneInv'
<1>0. /\ CloneTypes /\ CloneLocks /\ CloneOpen /\ CloneFresh /\ CloneJournal /\ CloneCounts /\ CloneAccount
      /\ CloneLadders /\ TypeOK
  BY DEF CloneInv, CloneTypes
<1>1. book[t].buy = "working" /\ book' = [book EXCEPT ![t].buy = "filled"]
      /\ UNCHANGED <<mem, active, disk, req, signal, mon, op, lock, price, moves, paper, risk>>
  BY DEF FillBuy
<1>2. book \in [Trades -> [buy : {"none", "working", "filled", "cancelled"}, sold : Nat, selling : Nat]]
  BY <1>0 DEF TypeOK
<1>3. /\ book' \in [Trades -> [buy : {"none", "working", "filled", "cancelled"}, sold : Nat, selling : Nat]]
      /\ \A u \in Trades : book'[u].sold = book[u].sold /\ book'[u].selling = book[u].selling
      /\ book'[t].buy = "filled" /\ \A u \in Trades : u # t => book'[u] = book[u]
  BY <1>1, <1>2
<1>4. TypeOK' /\ CloneTypes'
  BY <1>0, <1>1, <1>3 DEF TypeOK, CloneTypes
<1>5. CloneLocks'
  BY <1>0, <1>1 DEF CloneLocks, CloneSelling
<1>6. CloneOpen'
  BY <1>0, <1>1 DEF CloneOpen
<1>7. CloneFresh'
  BY <1>0, <1>1, <1>3 DEF CloneFresh
<1>8. CloneJournal'
  BY <1>0, <1>1 DEF CloneJournal, Journalled
<1>9. \A u \in Trades : Bought(u)' >= Bought(u) /\ Bought(u)' \in Int /\ Bought(u) \in Int
        /\ (u # t => Bought(u)' = Bought(u))
                        /\ OnSale(u)' = OnSale(u) /\ OnSale(u) \in Int /\ Pending(u)' = Pending(u)
  <2>1. Qty \in Nat
    BY CloneAssumption
  <2>2. \A u \in Trades : Bought(u)' >= Bought(u) /\ Bought(u)' \in Int /\ Bought(u) \in Int
          /\ (u # t => Bought(u)' = Bought(u))
    BY <1>1, <1>3, <2>1 DEF Bought
  <2>3. \A u \in Trades : OnSale(u)' = OnSale(u) /\ OnSale(u) \in Int
    BY <1>2, <1>3 DEF OnSale
  <2>4. \A u \in Trades : Pending(u)' = Pending(u)
    BY <1>1 DEF Pending, CloneSelling
  <2> QED
    BY <2>2, <2>3, <2>4
<1>10. CloneCounts'
  <2>1. \A u \in Trades : mem[u].left \in Int /\ Pending(u) \in Int
    BY <1>0, PendingFacts
  <2> QED
    BY <1>0, <1>1, <1>3, <1>9, <2>1 DEF CloneCounts, Steady, Calm
<1>11. CloneAccount'
  <2>1. \A u \in Trades : Held'[u] = Bought(u)' - book'[u].sold /\ Held[u] = Bought(u) - book[u].sold
          /\ book[u].sold \in Int
    BY <1>2 DEF Held
  <2>2. Held'[t] >= Held[t] /\ \A u \in Trades : u # t => Held'[u] = Held[u]
    BY <1>3, <1>9, <2>1
  <2>3. NeverOversold => NeverOversold'
    BY <1>0, <1>1, <1>4, <2>2, PurchaseKeeps
  <2> QED
    BY <1>0, <1>1, <1>3, <2>3 DEF CloneAccount
<1>12. CloneLadders'
  BY <1>0, <1>1 DEF CloneLadders, OnTiers
<1> QED
  BY <1>4, <1>5, <1>6, <1>7, <1>8, <1>10, <1>11, <1>12 DEF CloneInv

\* A resting sale fills.
LEMMA FillSellKeeps ==
  ASSUME CloneInv, NEW t \in Trades, FillSell(t)
  PROVE  CloneInv'
<1>0. /\ CloneTypes /\ CloneLocks /\ CloneOpen /\ CloneFresh /\ CloneJournal /\ CloneCounts /\ CloneAccount
      /\ CloneLadders /\ TypeOK
  BY DEF CloneInv, CloneTypes
<1>1. book[t].selling > 0 /\ book' = [book EXCEPT ![t].sold = @ + book[t].selling, ![t].selling = 0]
      /\ UNCHANGED <<mem, active, disk, req, signal, mon, op, lock, price, moves, paper, risk>>
  BY DEF FillSell
<1>2. book \in [Trades -> [buy : {"none", "working", "filled", "cancelled"}, sold : Nat, selling : Nat]]
  BY <1>0 DEF TypeOK
<1>3. /\ book' \in [Trades -> [buy : {"none", "working", "filled", "cancelled"}, sold : Nat, selling : Nat]]
      /\ book'[t].sold = book[t].sold + book[t].selling /\ book'[t].selling = 0 /\ book'[t].buy = book[t].buy
      /\ \A u \in Trades : u # t => book'[u] = book[u]
  <2>1. PICK n \in Nat : n = book[t].sold + book[t].selling
    BY <1>2
  <2>. DEFINE b == [book EXCEPT ![t].sold = n]
  <2>2. b \in [Trades -> [buy : {"none", "working", "filled", "cancelled"}, sold : Nat, selling : Nat]]
        /\ b[t].sold = n /\ b[t].buy = book[t].buy /\ \A u \in Trades : u # t => b[u] = book[u]
    BY <1>2
  <2>3. book' = [b EXCEPT ![t].selling = 0]
    BY <1>1, <1>2, <2>1
  <2>. HIDE DEF b
  <2> QED
    BY <2>1, <2>2, <2>3
<1>4. TypeOK' /\ CloneTypes'
  BY <1>0, <1>1, <1>3 DEF TypeOK, CloneTypes
<1>5. CloneLocks'
  BY <1>0, <1>1 DEF CloneLocks, CloneSelling
<1>6. CloneOpen'
  BY <1>0, <1>1 DEF CloneOpen
<1>7. CloneFresh'
  BY <1>0, <1>1, <1>2, <1>3 DEF CloneFresh
<1>8. CloneJournal'
  BY <1>0, <1>1 DEF CloneJournal, Journalled
<1>9. \A u \in Trades : /\ Bought(u)' = Bought(u) /\ Bought(u) \in Int
                        /\ OnSale(u)' = OnSale(u) /\ OnSale(u) \in Int /\ Pending(u)' = Pending(u)
  <2>2. \A u \in Trades : Bought(u)' = Bought(u) /\ Bought(u) \in Int
    <3>1. Qty \in Int
      BY CloneAssumption
    <3> QED
      BY <1>1, <1>3, <3>1 DEF Bought
  <2>3. \A u \in Trades : OnSale(u)' = OnSale(u) /\ OnSale(u) \in Int
    BY <1>2, <1>3 DEF OnSale
  <2>4. \A u \in Trades : Pending(u)' = Pending(u)
    BY <1>1 DEF Pending, CloneSelling
  <2> QED
    BY <2>2, <2>3, <2>4
<1>10. CloneCounts'
  <2>1. \A u \in Trades : book'[u].buy = book[u].buy
    BY <1>3
  <2> QED
    BY <1>0, <1>1, <1>9, <2>1 DEF CloneCounts, Steady, Calm
<1>11. CloneAccount'
  BY <1>0, <1>1 DEF CloneAccount
<1>12. CloneLadders'
  BY <1>0, <1>1 DEF CloneLadders, OnTiers
<1> QED
  BY <1>4, <1>5, <1>6, <1>7, <1>8, <1>10, <1>11, <1>12 DEF CloneInv

\* The market moves.
LEMMA MoveKeeps ==
  ASSUME CloneInv, NEW p \in Levels, Move(p)
  PROVE  CloneInv'
<1>0. /\ CloneTypes /\ CloneLocks /\ CloneOpen /\ CloneFresh /\ CloneJournal /\ CloneCounts /\ CloneAccount
      /\ CloneLadders /\ TypeOK
  BY DEF CloneInv, CloneTypes
<1>1. price' = p /\ moves < MaxMoves /\ moves' = moves + 1 /\ MaxMoves \in Nat
      /\ UNCHANGED <<mem, active, disk, req, signal, book, mon, op, lock, paper, risk>>
  BY CloneAssumption DEF Move
<1>4. CloneTypes'
  BY <1>0, <1>1 DEF TypeOK, CloneTypes
<1>5. CloneLocks'
  BY <1>0, <1>1 DEF CloneLocks, CloneSelling
<1>6. CloneOpen'
  BY <1>0, <1>1 DEF CloneOpen
<1>7. CloneFresh'
  BY <1>0, <1>1 DEF CloneFresh
<1>8. CloneJournal'
  BY <1>0, <1>1 DEF CloneJournal, Journalled
<1>10. CloneCounts'
  <2>1. \A u \in Trades : Pending(u)' = Pending(u)
    BY <1>1 DEF Pending, CloneSelling
  <2> QED
    BY <1>0, <1>1, <2>1, CountsSame
<1>11. CloneAccount'
  BY <1>0, <1>1, AccountSame
<1>12. CloneLadders'
  BY <1>0, <1>1 DEF CloneLadders, OnTiers
<1> QED
  BY <1>4, <1>5, <1>6, <1>7, <1>8, <1>10, <1>11, <1>12 DEF CloneInv

\* What sending an entry order does to the book and the request.
BuyDoes(t, b, r) ==
    /\ book' = [book EXCEPT ![t].buy = b] /\ req' = [req EXCEPT ![t] = r]
    /\ b \in {"none", "working", "filled"} /\ r \in CloneRequests /\ r.pc \in {"placed", "done"}
    /\ r.pc = "placed" => r.status # "none"
    /\ "working" \notin risk.of /\ r.pc = "placed" => b = "filled" /\ r.status = "OPEN"
    /\ b = "working" => risk.of \cap {"working", "lost"} # {}
    /\ risk'.of = risk.of /\ risk' \in [of : CloneScenarios, left : Nat]
    /\ signal' \in [Trades -> {"none", "held", "rejected", "taken", "dismissed"}]

\* Sending an entry order does that, whatever the broker answers.
LEMMA BuyFacts ==
  ASSUME CloneInv, NEW t \in Trades, NEW s \in Trades, Buy(t, s)
  PROVE  \E b, r : BuyDoes(t, b, r)
<1>0. /\ CloneTypes /\ TypeOK /\ book[t].buy = "none"
      /\ signal \in [Trades -> {"none", "held", "rejected", "taken", "dismissed"}]
      /\ book \in [Trades -> [buy : {"none", "working", "filled", "cancelled"}, sold : Nat, selling : Nat]]
      /\ req \in [Trades -> CloneRequests]
  BY DEF Buy, CloneInv, CloneFresh, CloneTypes, TypeOK, CloneRequests
<1>1. CASE /\ book' = [book EXCEPT ![t].buy = "filled"]
           /\ req' = [req EXCEPT ![t] = [pc |-> "placed", sig |-> s, status |-> "OPEN"]]
           /\ Usual /\ UNCHANGED signal
  <2>1. PICK r : r = [pc |-> "placed", sig |-> s, status |-> "OPEN"]
    OBVIOUS
  <2>2. r \in CloneRequests /\ r.pc = "placed" /\ r.status = "OPEN"
    BY <2>1 DEF CloneRequests
  <2>3. BuyDoes(t, "filled", r)
    BY <1>0, <1>1, <2>1, <2>2, CloneFaultFacts DEF BuyDoes
  <2> QED
    BY <2>3
<1>2. ASSUME CloneFault("working"), book' = [book EXCEPT ![t].buy = "working"], UNCHANGED signal,
             NEW q \in {"WORKING", "OPEN"}, req' = [req EXCEPT ![t] = [pc |-> "placed", sig |-> s, status |-> q]]
      PROVE  \E b, r : BuyDoes(t, b, r)
  <2>1. PICK r : r = [pc |-> "placed", sig |-> s, status |-> q]
    OBVIOUS
  <2>2. r \in CloneRequests /\ r.pc = "placed" /\ r.status # "none"
    BY <2>1 DEF CloneRequests
  <2>3. BuyDoes(t, "working", r)
    BY <1>0, <1>2, <2>1, <2>2, CloneFaultFacts DEF BuyDoes
  <2> QED
    BY <2>3
<1>3. ASSUME NEW b \in {"none", "working"}, book' = [book EXCEPT ![t].buy = b],
             b = "working" => "lost" \in risk.of, risk'.of = risk.of, risk' \in [of : CloneScenarios, left : Nat],
             req' = [req EXCEPT ![t].pc = "done"],
             signal' = IF s = t THEN [signal EXCEPT ![s] = "rejected"] ELSE signal
      PROVE  \E c, r : BuyDoes(t, c, r)
  <2>1. PICK r : r = [req[t] EXCEPT !.pc = "done"]
    OBVIOUS
  <2>2. r \in CloneRequests /\ r.pc = "done" /\ req' = [req EXCEPT ![t] = r]
    BY <1>0, <1>3, <2>1 DEF CloneRequests
  <2>3. signal' \in [Trades -> {"none", "held", "rejected", "taken", "dismissed"}]
    BY <1>0, <1>3
  <2>4. BuyDoes(t, b, r)
    BY <1>3, <2>2, <2>3 DEF BuyDoes
  <2> QED
    BY <2>4
<1>4. CASE /\ \/ CloneFault("refuse") /\ UNCHANGED book
              \/ CloneFault("lost") /\ book' = [book EXCEPT ![t].buy = "working"]
           /\ req' = [req EXCEPT ![t].pc = "done"]
           /\ signal' = IF s = t THEN [signal EXCEPT ![s] = "rejected"] ELSE signal
  <2>1. risk'.of = risk.of /\ risk' \in [of : CloneScenarios, left : Nat]
    BY <1>0, <1>4, CloneFaultFacts
  <2>2. CASE UNCHANGED book
    <3>1. book' = [book EXCEPT ![t].buy = "none"]
      BY <1>0, <2>2
    <3> QED
      BY <1>3, <1>4, <2>1, <3>1
  <2>3. CASE CloneFault("lost") /\ book' = [book EXCEPT ![t].buy = "working"]
    <3>1. "lost" \in risk.of
      BY <1>0, <2>3, CloneFaultFacts
    <3> QED
      BY <1>3, <1>4, <2>1, <2>3, <3>1
  <2> QED
    BY <1>4, <2>2, <2>3
<1> QED
  BY <1>1, <1>2, <1>4 DEF Buy

\* An entry order changes one request and one order.
LEMMA BuyDoesKeeps ==
  ASSUME CloneInv, NEW t \in Trades, NEW b, NEW r, BuyDoes(t, b, r), req[t].pc = "new",
         UNCHANGED <<mem, active, disk, mon, op, lock, price, moves, paper>>
  PROVE  CloneInv'
<1>0. /\ CloneTypes /\ CloneLocks /\ CloneOpen /\ CloneFresh /\ CloneJournal /\ CloneCounts /\ CloneAccount
      /\ CloneLadders /\ TypeOK
  BY DEF CloneInv, CloneTypes
<1>1. book[t].buy = "none" /\ book[t].sold = 0 /\ book[t].selling = 0 /\ mem[t].status = "none"
        /\ disk[t].status = "none"
  BY <1>0 DEF CloneFresh
<1>2. /\ book \in [Trades -> [buy : {"none", "working", "filled", "cancelled"}, sold : Nat, selling : Nat]]
      /\ req \in [Trades -> CloneRequests]
  BY <1>0 DEF TypeOK, CloneRequests
<1>3. /\ book' \in [Trades -> [buy : {"none", "working", "filled", "cancelled"}, sold : Nat, selling : Nat]]
      /\ \A u \in Trades : book'[u].sold = book[u].sold /\ book'[u].selling = book[u].selling
      /\ book'[t].buy = b /\ \A u \in Trades : u # t => book'[u] = book[u]
      /\ req' \in [Trades -> CloneRequests] /\ req'[t] = r /\ \A u \in Trades : u # t => req'[u] = req[u]
  BY <1>2 DEF BuyDoes
<1>4. TypeOK' /\ CloneTypes'
  <2>1. risk' \in [of : CloneScenarios, left : Nat]
          /\ signal' \in [Trades -> {"none", "held", "rejected", "taken", "dismissed"}]
    BY DEF BuyDoes
  <2> QED
    BY <1>0, <1>3, <2>1 DEF TypeOK, CloneTypes, CloneRequests
<1>5. CloneLocks'
  BY <1>0 DEF CloneLocks, CloneSelling
<1>6. CloneOpen'
  BY <1>0 DEF CloneOpen
<1>7. CloneFresh'
  BY <1>0, <1>1, <1>3 DEF CloneFresh, BuyDoes
<1>8. CloneJournal'
  BY <1>0 DEF CloneJournal, Journalled
<1>9. \A u \in Trades : /\ Bought(u)' >= Bought(u) /\ Bought(u)' \in Int /\ Bought(u) \in Int
                             /\ (u # t => Bought(u)' = Bought(u))
                        /\ OnSale(u)' = OnSale(u) /\ OnSale(u) \in Int /\ Pending(u)' = Pending(u)
  <2>1. Qty \in Nat
    BY CloneAssumption
  <2>2. \A u \in Trades : Bought(u)' >= Bought(u) /\ Bought(u)' \in Int /\ Bought(u) \in Int
          /\ (u # t => Bought(u)' = Bought(u))
    BY <1>1, <1>3, <2>1 DEF Bought
  <2>3. \A u \in Trades : OnSale(u)' = OnSale(u) /\ OnSale(u) \in Int
    BY <1>2, <1>3 DEF OnSale
  <2>4. \A u \in Trades : Pending(u)' = Pending(u)
    BY DEF Pending, CloneSelling
  <2> QED
    BY <2>2, <2>3, <2>4
<1>10. CloneCounts'
  <2>1. \A u \in Trades : mem[u].left \in Int /\ Pending(u) \in Int
    BY <1>0, PendingFacts
  <2>2. risk'.of = risk.of
    BY DEF BuyDoes
  <2>3. "working" \notin risk.of => \A u \in Trades : req'[u].pc = "placed" => book'[u].buy = "filled"
          /\ req'[u].status = "OPEN"
    BY <1>0, <1>3 DEF CloneCounts, BuyDoes
  <2>4. Steady => \A u \in Trades : mem[u].left - Pending(u) <= Bought(u)' - OnSale(u)'
    BY <1>0, <1>9, <2>1 DEF CloneCounts
  <2>5. Calm => \A u \in Trades :
          /\ book'[u].buy # "working" /\ mem[u].status # "WORKING"
          /\ mem[u].status # "none" => Bought(u)' - OnSale(u)' = mem[u].left - Pending(u)
    BY <1>0, <1>1, <1>3, <1>9 DEF CloneCounts, Calm, BuyDoes
  <2> QED
    BY <1>0, <1>9, <2>2, <2>3, <2>4, <2>5 DEF CloneCounts, Steady, Calm
<1>11. CloneAccount'
  <2>1. \A u \in Trades : Held'[u] = Bought(u)' - book'[u].sold /\ Held[u] = Bought(u) - book[u].sold
          /\ book[u].sold \in Int
    BY <1>2 DEF Held
  <2>2. /\ \A u \in Trades : u # t => Held'[u] = Held[u]
        /\ Held[t] = 0 /\ Held'[t] \in Nat
    <3>1. \A u \in Trades : u # t => Held'[u] = Held[u]
      BY <1>3, <1>9, <2>1
    <3>2. Bought(t) = 0 /\ Bought(t)' \in Nat
      BY <1>1, <1>9 DEF Bought
    <3> QED
      BY <1>1, <1>3, <2>1, <3>1, <3>2
  <2>3. \A u \in Trades : u # t => req'[u].sig = req[u].sig
    BY <1>3
  <2>4. NeverOversold => NeverOversold'
    BY <1>0, <1>4, <2>2, <2>3, ArrivalKeeps
  <2> QED
    BY <1>0, <1>3, <2>4 DEF CloneAccount, BuyDoes
<1>12. CloneLadders'
  BY <1>0 DEF CloneLadders, OnTiers, BuyDoes
<1> QED
  BY <1>4, <1>5, <1>6, <1>7, <1>8, <1>10, <1>11, <1>12 DEF CloneInv

\* A request sends an order for its alert, or holds the alert.
LEMMA WebhookKeeps ==
  ASSUME CloneInv, NEW t \in Trades, Webhook(t)
  PROVE  CloneInv'
<1>0. CloneTypes /\ TypeOK
  BY DEF CloneInv, CloneTypes
<1>1. UNCHANGED <<mem, active, disk, mon, op, lock, price, moves, paper>> /\ req[t].pc = "new"
  BY DEF Webhook, Buy
<1>2. CASE Buy(t, t)
  <2>1. PICK b, r : BuyDoes(t, b, r)
    BY <1>2, BuyFacts
  <2> QED
    BY <1>1, <2>1, BuyDoesKeeps
<1>3. CASE /\ req' = [req EXCEPT ![t].pc = "done"] /\ signal' = [signal EXCEPT ![t] = "held"]
           /\ Usual /\ UNCHANGED book
  <2>1. book \in [Trades -> [buy : {"none", "working", "filled", "cancelled"}, sold : Nat, selling : Nat]]
    BY <1>0 DEF TypeOK
  <2>2. req[t] \in CloneRequests /\ req \in [Trades -> CloneRequests]
    BY <1>0 DEF TypeOK, CloneRequests
  <2>3. PICK r : r = [req[t] EXCEPT !.pc = "done"]
    OBVIOUS
  <2>4. r \in CloneRequests /\ r.pc = "done" /\ req' = [req EXCEPT ![t] = r]
    BY <1>3, <2>2, <2>3 DEF CloneRequests
  <2>5. book' = [book EXCEPT ![t].buy = "none"]
    <3>1. book[t].buy = "none"
      BY <1>1 DEF CloneInv, CloneFresh
    <3> QED
      BY <1>3, <2>1, <3>1
  <2>6. signal' \in [Trades -> {"none", "held", "rejected", "taken", "dismissed"}]
    BY <1>0, <1>3 DEF TypeOK
  <2>7. BuyDoes(t, "none", r)
    BY <1>0, <1>3, <2>4, <2>5, <2>6 DEF BuyDoes, Usual, CloneTypes
  <2> QED
    BY <1>1, <2>7, BuyDoesKeeps
<1> QED
  BY <1>2, <1>3 DEF Webhook

\* A request takes an alert by hand.
LEMMA TakeKeeps ==
  ASSUME CloneInv, NEW t \in Trades, NEW s \in Trades, Take(t, s)
  PROVE  CloneInv'
<1>1. UNCHANGED <<mem, active, disk, mon, op, lock, price, moves, paper>> /\ req[t].pc = "new" /\ Buy(t, s)
  BY DEF Take, Buy
<1>2. PICK b, r : BuyDoes(t, b, r)
  BY <1>1, BuyFacts
<1> QED
  BY <1>1, <1>2, BuyDoesKeeps

\* A trade enters memory and journal.
LEMMA RegisterKeeps ==
  ASSUME CloneInv, NEW t \in Trades, Register(t)
  PROVE  CloneInv'
<1>0. /\ CloneTypes /\ CloneLocks /\ CloneOpen /\ CloneFresh /\ CloneJournal /\ CloneCounts /\ CloneAccount
      /\ CloneLadders /\ TypeOK /\ lock = "free"
  BY DEF CloneInv, CloneTypes, Register, Free
<1>1. PICK e \in BOOLEAN : mem' = [mem EXCEPT ![t] = Opened(req[t].status, e)]
  BY DEF Register
<1>2. /\ req[t].pc = "placed" /\ disk' = [disk EXCEPT ![t] = mem'[t]] /\ active' = active \cup {t}
      /\ req' = [req EXCEPT ![t].pc = "registered"]
      /\ UNCHANGED <<signal, book, mon, op, lock, price, moves, paper, risk>>
  BY DEF Register
<1>3. /\ mem \in [Trades -> TradeRecord] /\ disk \in [Trades -> TradeRecord] /\ req \in [Trades -> CloneRequests]
      /\ Qty \in Nat \ {0}
  BY <1>0, CloneAssumption DEF TypeOK, CloneRequests
<1>4. /\ req[t].status \in {"OPEN", "WORKING"} /\ mem[t].status = "none" /\ disk[t].status = "none"
      /\ book[t].sold = 0 /\ book[t].selling = 0
  BY <1>0, <1>2, <1>3 DEF CloneFresh, CloneRequests
<1>5. PICK r \in TradeRecord : /\ r = Opened(req[t].status, e) /\ r.status = req[t].status /\ r.left = Qty
                                    /\ OnTiers(r)
  BY <1>4, OpenedFacts
<1>6. /\ mem' \in [Trades -> TradeRecord] /\ mem'[t] = r /\ \A u \in Trades : u # t => mem'[u] = mem[u]
      /\ disk' \in [Trades -> TradeRecord] /\ disk'[t] = r /\ \A u \in Trades : u # t => disk'[u] = disk[u]
  BY <1>1, <1>2, <1>3, <1>5
<1>7. /\ req' \in [Trades -> CloneRequests] /\ \A u \in Trades : u # t => req'[u] = req[u]
      /\ req'[t].pc = "registered" /\ \A u \in Trades : req'[u].sig = req[u].sig
  BY <1>2, <1>3 DEF CloneRequests
<1>8. CloneTypes'
  BY <1>0, <1>2, <1>6, <1>7 DEF TypeOK, CloneTypes, CloneRequests
<1>9. ~CloneSelling /\ op.pc = "idle"
  BY <1>0 DEF CloneLocks, CloneTypes, CloneOperators
<1>10. CloneLocks'
  <2>1. \A u \in Trades : mem[u].status # "none" => mem'[u].status # "none"
    BY <1>4, <1>6
  <2>2. mon.todo \subseteq Trades
    BY <1>0 DEF TypeOK
  <2> QED
    BY <1>0, <1>2, <2>1, <2>2 DEF CloneLocks, CloneSelling
<1>11. CloneOpen'
  BY <1>0, <1>2, <1>3, <1>4, <1>5, <1>6 DEF CloneOpen
<1>12. CloneFresh'
  BY <1>0, <1>2, <1>6, <1>7 DEF CloneFresh
<1>13. CloneJournal'
  <2>1. Journalled(t)'
    BY <1>2, <1>3, <1>4, <1>5, <1>6 DEF Journalled, Alive
  <2>2. ASSUME NEW u \in Trades, u # t PROVE Journalled(u)'
    BY <1>0, <1>2, <1>6, <1>9, <2>2 DEF CloneJournal, Journalled, Alive
  <2> QED
    BY <2>1, <2>2 DEF CloneJournal
<1>14. CloneCounts'
  <2>1. \A u \in Trades : Bought(u)' = Bought(u) /\ OnSale(u)' = OnSale(u)
    BY <1>2 DEF Bought, OnSale
  <2>2. \A u \in Trades : Pending(u) = 0 /\ Pending(u)' = 0
    BY <1>2, <1>9 DEF Pending, CloneSelling
  <2>3. OnSale(t) = 0 /\ ("working" \notin risk.of => Bought(t) = Qty /\ req[t].status = "OPEN")
    BY <1>0, <1>2, <1>4 DEF CloneCounts, OnSale, Bought
  <2>4. ASSUME NEW u \in Trades, u # t
        PROVE  /\ "working" \notin risk.of
                    => (req'[u].pc = "placed" => book[u].buy = "filled" /\ req'[u].status = "OPEN")
               /\ Steady => mem'[u].left - Pending(u)' <= Bought(u)' - OnSale(u)'
               /\ Calm => /\ book[u].buy # "working" /\ mem'[u].status # "WORKING"
                          /\ mem'[u].status # "none" => Bought(u)' - OnSale(u)' = mem'[u].left - Pending(u)'
    BY <1>0, <1>6, <1>7, <2>1, <2>2, <2>4 DEF CloneCounts
  <2>5. /\ Steady => mem'[t].left - Pending(t)' <= Bought(t)' - OnSale(t)'
        /\ Calm => /\ book[t].buy # "working" /\ mem'[t].status # "WORKING"
                   /\ mem'[t].status # "none" => Bought(t)' - OnSale(t)' = mem'[t].left - Pending(t)'
    BY <1>0, <1>3, <1>5, <1>6, <2>1, <2>2, <2>3 DEF CloneCounts, Steady, Calm
  <2> QED
    BY <1>0, <1>2, <1>7, <2>4, <2>5 DEF CloneCounts, Steady, Calm
<1>15. CloneAccount'
  BY <1>0, <1>2, <1>7, AccountSame
<1>16. CloneLadders'
  BY <1>0, <1>2, <1>5, <1>6 DEF CloneLadders
<1> QED
  BY <1>8, <1>10, <1>11, <1>12, <1>13, <1>14, <1>15, <1>16 DEF CloneInv

\* Alerts change, and a request that has registered its trade ends.
LEMMA SignalKeeps ==
  ASSUME CloneInv, UNCHANGED <<mem, active, disk, book, mon, op, lock, price, moves, paper, risk>>,
         NEW t \in Trades, req' = req \/ (req[t].pc = "registered" /\ req' = [req EXCEPT ![t].pc = "done"]),
         NEW s, NEW q \in {"taken", "dismissed"}, signal' = [signal EXCEPT ![s] = q]
  PROVE  CloneInv'
<1>0. /\ CloneTypes /\ CloneLocks /\ CloneOpen /\ CloneFresh /\ CloneJournal /\ CloneCounts /\ CloneAccount
      /\ CloneLadders /\ TypeOK
  BY DEF CloneInv, CloneTypes
<1>1. req \in [Trades -> CloneRequests]
  BY <1>0 DEF TypeOK, CloneRequests
<1>2. /\ req' \in [Trades -> CloneRequests]
      /\ \A u \in Trades : /\ req'[u].sig = req[u].sig /\ req'[u].status = req[u].status
                           /\ req'[u].pc \in {"new", "placed"} => req'[u] = req[u]
  BY <1>1 DEF CloneRequests
<1>3. signal' \in [Trades -> {"none", "held", "rejected", "taken", "dismissed"}]
  BY <1>0 DEF TypeOK
<1>4. CloneTypes'
  BY <1>0, <1>2, <1>3 DEF TypeOK, CloneTypes, CloneRequests
<1>5. CloneLocks'
  BY <1>0 DEF CloneLocks, CloneSelling
<1>6. CloneOpen'
  BY <1>0 DEF CloneOpen
<1>7. CloneFresh'
  BY <1>0, <1>2 DEF CloneFresh
<1>8. CloneJournal'
  BY <1>0 DEF CloneJournal, Journalled
<1>10. CloneCounts'
  <2>1. \A u \in Trades : Pending(u)' = Pending(u)
    BY DEF Pending, CloneSelling
  <2> QED
    BY <1>0, <1>2, <2>1, CountsSame
<1>11. CloneAccount'
  BY <1>0, <1>2, AccountSame
<1>12. CloneLadders'
  BY <1>0 DEF CloneLadders, OnTiers
<1> QED
  BY <1>4, <1>5, <1>6, <1>7, <1>8, <1>10, <1>11, <1>12 DEF CloneInv

\* Steps of the monitor that look only.
LEMMA LookingKeeps ==
  ASSUME CloneInv, UNCHANGED <<mem, active, disk, req, signal, book, op, lock, price, moves, paper>>,
         ~CloneSelling, mon' \in CloneMonitors, mon'.pc \notin {"stopped", "tranche"},
         risk'.of = risk.of, risk' \in [of : CloneScenarios, left : Nat],
         \A u \in mon'.todo : mem[u].status # "none",
         mon'.pc \notin {"idle", "next"} => mon'.trade \in Trades /\ mem[mon'.trade].status # "none"
  PROVE  CloneInv'
<1>0. /\ CloneTypes /\ CloneLocks /\ CloneOpen /\ CloneFresh /\ CloneJournal /\ CloneCounts /\ CloneAccount
      /\ CloneLadders /\ TypeOK
  BY DEF CloneInv, CloneTypes
<1>4. CloneTypes'
  BY <1>0 DEF TypeOK, CloneTypes, CloneMonitors, ClonePcs
<1>5. CloneLocks'
  BY <1>0 DEF CloneLocks, CloneSelling
<1>6. CloneOpen'
  BY <1>0 DEF CloneOpen
<1>7. CloneFresh'
  BY <1>0 DEF CloneFresh
<1>8. CloneJournal'
  BY <1>0 DEF CloneJournal, Journalled
<1>10. CloneCounts'
  <2>1. \A u \in Trades : Pending(u)' = Pending(u)
    BY DEF Pending, CloneSelling
  <2> QED
    BY <1>0, <2>1, CountsSame
<1>11. CloneAccount'
  BY <1>0, AccountSame
<1>12. CloneLadders'
  BY <1>0 DEF CloneLadders, OnTiers
<1> QED
  BY <1>4, <1>5, <1>6, <1>7, <1>8, <1>10, <1>11, <1>12 DEF CloneInv

\* The monitor's state between two trades.
LEMMA ToNextFacts ==
  ASSUME NEW m \in CloneMonitors
  PROVE  /\ ToNext(m) \in CloneMonitors /\ ToNext(m).pc \in {"idle", "next"} /\ ToNext(m).todo = m.todo
<1>1. 0 \in Levels /\ FALSE \in BOOLEAN
  BY CloneAssumption
<1>2. PICK p \in ClonePcs : p = (IF m.todo = {} THEN "idle" ELSE "next") /\ p \in {"idle", "next"}
  BY DEF ClonePcs
<1>. DEFINE a == [m EXCEPT !.pc = p]
            b == [a EXCEPT !.trade = "none"]
            c == [b EXCEPT !.filled = FALSE]
            d == [c EXCEPT !.px = 0]
<1>3. ToNext(m) = d
  BY <1>2 DEF ToNext, CloneMonitors
<1>4. a \in CloneMonitors /\ a.pc = p /\ a.todo = m.todo
  BY DEF CloneMonitors
<1>. HIDE DEF a
<1>5. b \in CloneMonitors /\ b.pc = p /\ b.todo = m.todo
  BY <1>4 DEF CloneMonitors
<1>. HIDE DEF b
<1>6. c \in CloneMonitors /\ c.pc = p /\ c.todo = m.todo
  BY <1>1, <1>5, Zenon DEF CloneMonitors
<1>. HIDE DEF c
<1>7. d \in CloneMonitors /\ d.pc = p /\ d.todo = m.todo
  BY <1>1, <1>6 DEF CloneMonitors
<1>. HIDE DEF d
<1> QED
  BY <1>2, <1>3, <1>7

\* The monitor takes its list.
LEMMA LookKeeps ==
  ASSUME CloneInv, Look
  PROVE  CloneInv'
<1>0. CloneTypes /\ CloneLocks /\ CloneOpen /\ TypeOK /\ mon \in CloneMonitors
  BY DEF CloneInv, CloneTypes
<1>1. /\ mon.pc = "idle" /\ mon' = IF active = {} THEN mon ELSE [mon EXCEPT !.pc = "next", !.todo = active]
      /\ UNCHANGED <<mem, active, disk, req, signal, book, op, lock, price, moves, paper, risk>>
  BY DEF Look
<1>2. active \subseteq Trades /\ \A u \in active : mem[u].status # "none"
  BY <1>0 DEF CloneOpen, TypeOK
<1>3. /\ mon' \in CloneMonitors /\ mon'.pc \in {"idle", "next"} /\ \A u \in mon'.todo : mem[u].status # "none"
  <2>1. CASE active = {}
    BY <1>0, <1>1, <2>1 DEF CloneLocks
  <2>2. CASE active # {}
    BY <1>0, <1>1, <1>2, <2>2 DEF CloneMonitors, ClonePcs
  <2> QED
    BY <2>1, <2>2
<1>4. ~CloneSelling /\ risk'.of = risk.of /\ risk' \in [of : CloneScenarios, left : Nat]
  BY <1>0, <1>1 DEF CloneSelling, CloneTypes
<1> QED
  BY <1>1, <1>3, <1>4, LookingKeeps

\* The monitor asks for a trade's entry.
LEMMA AskEntryKeeps ==
  ASSUME CloneInv, NEW t \in Trades, AskEntry(t)
  PROVE  CloneInv'
<1>0. CloneTypes /\ CloneLocks /\ TypeOK /\ mon \in CloneMonitors
  BY DEF CloneInv, CloneTypes
<1>1. PICK f \in BOOLEAN : f = (Asks(t) /\ book[t].buy = "filled")
  OBVIOUS
<1>2. /\ mon.pc = "next" /\ t \in mon.todo
      /\ mon' = [mon EXCEPT !.pc = "asked", !.todo = @ \ {t}, !.trade = t, !.filled = f]
      /\ UNCHANGED <<mem, active, disk, req, signal, book, op, lock, price, moves, paper, risk>>
  BY <1>1 DEF AskEntry
<1>. DEFINE a == [mon EXCEPT !.pc = "asked"]
            b == [a EXCEPT !.todo = @ \ {t}]
            c == [b EXCEPT !.trade = t]
            d == [c EXCEPT !.filled = f]
<1>3. mon' = d
  BY <1>0, <1>2 DEF CloneMonitors
<1>4. a \in CloneMonitors /\ a.pc = "asked" /\ a.todo = mon.todo
  BY <1>0 DEF CloneMonitors, ClonePcs
<1>. HIDE DEF a
<1>5. b \in CloneMonitors /\ b.pc = "asked" /\ b.todo \subseteq mon.todo
  BY <1>4 DEF CloneMonitors
<1>. HIDE DEF b
<1>6. c \in CloneMonitors /\ c.pc = "asked" /\ c.todo \subseteq mon.todo /\ c.trade = t
  BY <1>5 DEF CloneMonitors
<1>. HIDE DEF c
<1>7. d \in CloneMonitors /\ d.pc = "asked" /\ d.todo \subseteq mon.todo /\ d.trade = t
  BY <1>6 DEF CloneMonitors
<1>. HIDE DEF d
<1>8. \A u \in mon'.todo : mem[u].status # "none"
  BY <1>0, <1>3, <1>7 DEF CloneLocks
<1>9. mem[t].status # "none"
  BY <1>0, <1>2 DEF CloneLocks
<1>10. ~CloneSelling /\ risk'.of = risk.of /\ risk' \in [of : CloneScenarios, left : Nat]
  BY <1>0, <1>2 DEF CloneSelling, CloneTypes
<1>11. mon' \in CloneMonitors /\ mon'.pc = "asked" /\ mon'.trade = t
  BY <1>3, <1>7
<1> QED
  BY <1>2, <1>8, <1>9, <1>10, <1>11, LookingKeeps

\* The reconciliation of an entry and the quote.
LEMMA PriceKeeps ==
  ASSUME CloneInv, Price
  PROVE  CloneInv'
<1>0. /\ CloneTypes /\ CloneLocks /\ CloneOpen /\ CloneFresh /\ CloneJournal /\ CloneCounts /\ CloneAccount
      /\ CloneLadders /\ TypeOK /\ mon \in CloneMonitors
  BY DEF CloneInv, CloneTypes
<1>1. /\ mon.pc = "asked" /\ UNCHANGED <<active, req, signal, book, op, lock, price, moves, paper>>
      /\ \/ mon' = [mon EXCEPT !.pc = "priced", !.px = price] /\ Usual
         \/ mon' = ToNext(mon) /\ CloneFault("noquote")
  BY DEF Price
<1>2. PICK t \in Trades : t = mon.trade /\ mem[t].status # "none"
  BY <1>0, <1>1 DEF CloneLocks
<1>3. PICK f \in BOOLEAN : f = mon.filled
  BY <1>0 DEF CloneMonitors
<1>4. PICK r : r = IF f THEN Reconciled(mem[t]) ELSE mem[t]
  OBVIOUS
<1>5. mem' = [mem EXCEPT ![t] = r] /\ disk' = IF f /\ ~mem[t].exact THEN [disk EXCEPT ![t] = r] ELSE disk
  BY <1>2, <1>3, <1>4 DEF Price
<1>6. mem \in [Trades -> TradeRecord] /\ disk \in [Trades -> TradeRecord]
  BY <1>0 DEF TypeOK
<1>7. /\ r \in TradeRecord /\ r.left = mem[t].left /\ r.tier = mem[t].tier /\ r.stop = mem[t].stop
      /\ (f => r.status = "OPEN") /\ (~f => r = mem[t]) /\ (mem[t].exact => r.pt = mem[t].pt)
      /\ (OnTiers(mem[t]) => OnTiers(r)) /\ r.status # "none"
  <2>1. mem[t] \in TradeRecord
    BY <1>6
  <2> QED
    BY <1>2, <1>4, <2>1, ReconciledFacts
<1>8. /\ mem' \in [Trades -> TradeRecord] /\ mem'[t] = r /\ \A u \in Trades : u # t => mem'[u] = mem[u]
      /\ disk' \in [Trades -> TradeRecord] /\ \A u \in Trades : u # t => disk'[u] = disk[u]
      /\ IF f /\ ~mem[t].exact THEN disk'[t] = r ELSE disk'[t] = disk[t]
  BY <1>5, <1>6, <1>7
<1>9. /\ mon' \in CloneMonitors /\ mon'.pc \in {"idle", "next", "priced"} /\ mon'.todo = mon.todo
      /\ (mon'.pc = "priced" => mon'.trade = t)
      /\ risk'.of = risk.of /\ risk' \in [of : CloneScenarios, left : Nat]
  <2>1. CASE mon' = [mon EXCEPT !.pc = "priced", !.px = price] /\ Usual
    <3>1. price \in Levels
      BY <1>0 DEF TypeOK
    <3> QED
      BY <1>0, <1>2, <2>1, <3>1, CloneFaultFacts DEF CloneMonitors, ClonePcs
  <2>2. CASE mon' = ToNext(mon) /\ CloneFault("noquote")
    BY <1>0, <2>2, ToNextFacts, CloneFaultFacts
  <2> QED
    BY <1>1, <2>1, <2>2
<1>10. ~CloneSelling /\ ~CloneSelling'
  BY <1>1, <1>9 DEF CloneSelling
<1>11. \A u \in Trades : mem'[u].left = mem[u].left /\ (mem[u].status # "none" => mem'[u].status # "none")
                         /\ (mem'[u].status = mem[u].status \/ mem'[u].status = "OPEN")
                         /\ (mem[u].status = "none" => mem'[u] = mem[u])
  BY <1>2, <1>7, <1>8
<1>12. CloneTypes'
  BY <1>0, <1>1, <1>8, <1>9 DEF TypeOK, CloneTypes, CloneMonitors, ClonePcs
<1>13. CloneLocks'
  <2>1. mon.todo \subseteq Trades
    BY <1>0 DEF TypeOK
  <2> QED
    BY <1>0, <1>1, <1>2, <1>9, <1>10, <1>11, <2>1 DEF CloneLocks
<1>14. CloneOpen'
  <2>1. active' = {u \in Trades : mem'[u].left > 0}
    BY <1>0, <1>1, <1>11 DEF CloneOpen
  <2>2. ASSUME NEW u \in Trades
        PROVE  /\ mem'[u].left > 0 => mem'[u].status \in {"OPEN", "WORKING"}
               /\ disk'[u].left > 0 => disk'[u].status \in {"OPEN", "WORKING"}
    BY <1>0, <1>7, <1>8, <1>11 DEF CloneOpen
  <2> QED
    BY <2>1, <2>2 DEF CloneOpen
<1>15. CloneFresh'
  BY <1>0, <1>1, <1>2, <1>8, <1>11 DEF CloneFresh
<1>16. CloneJournal'
  <2> SUFFICES ASSUME op.pc # "clearing", NEW u \in Trades PROVE Journalled(u)'
    BY <1>1 DEF CloneJournal
  <2>1. Journalled(u)
    BY <1>0 DEF CloneJournal
  <2>2. CASE u # t
    BY <1>1, <1>8, <2>1, <2>2 DEF Journalled, Alive
  <2>3. CASE u = t /\ f /\ ~mem[t].exact
    <3>1. disk'[t] = r /\ mem'[t] = r /\ (t \in active <=> mem[t].left > 0)
      BY <1>0, <1>8, <2>3 DEF CloneOpen
    <3>2. Alive(r) <=> mem[t].left > 0
      BY <1>7, <2>3 DEF Alive
    <3> QED
      BY <1>1, <2>3, <3>1, <3>2 DEF Journalled
  <2>4. CASE u = t /\ ~(f /\ ~mem[t].exact)
    <3>1. disk'[t] = disk[t] /\ mem'[t] = r /\ r.pt = mem[t].pt
      BY <1>7, <1>8, <2>4
    <3> QED
      BY <1>1, <1>7, <2>1, <2>4, <3>1 DEF Journalled
  <2> QED
    BY <2>2, <2>3, <2>4
<1>17. CloneCounts'
  <2>1. \A u \in Trades : Bought(u)' = Bought(u) /\ OnSale(u)' = OnSale(u)
    BY <1>1 DEF Bought, OnSale
  <2>2. \A u \in Trades : Pending(u)' = Pending(u)
    BY <1>1, <1>10, <1>11 DEF Pending
  <2> QED
    BY <1>0, <1>1, <1>9, <1>11, <2>1, <2>2 DEF CloneCounts, Steady, Calm
<1>18. CloneAccount'
  BY <1>0, <1>1, <1>9, AccountSame
<1>19. CloneLadders'
  BY <1>0, <1>7, <1>8, <1>9 DEF CloneLadders
<1> QED
  BY <1>12, <1>13, <1>14, <1>15, <1>16, <1>17, <1>18, <1>19 DEF CloneInv

\* The orders.
CloneBooks == [Trades -> [buy : {"none", "working", "filled", "cancelled"}, sold : Nat, selling : Nat]]

\* What sending a sale does to the book.
LEMMA SellDoes ==
  ASSUME CloneTypes, NEW t \in Trades, NEW q \in Nat, NEW limit, Sell(t, q, limit)
  PROVE  /\ book' \in CloneBooks /\ \A u \in Trades : book'[u].buy = book[u].buy /\ (u # t => book'[u] = book[u])
         /\ risk'.of = risk.of /\ risk' \in [of : CloneScenarios, left : Nat]
         /\ \/ book' = book /\ (paper \/ ~Covers(t, q) \/ "refuse" \in risk.of)
            \/ Covers(t, q) /\ book'[t].sold = book[t].sold + q /\ book'[t].selling = book[t].selling
            \/ "resting" \in risk.of /\ book'[t].sold = book[t].sold /\ book'[t].selling = book[t].selling + q
<1>1. book \in CloneBooks
  BY DEF CloneTypes, TypeOK, CloneBooks
<1>2. CASE (paper \/ ~Covers(t, q)) /\ UNCHANGED book /\ Usual
  BY <1>1, <1>2, CloneFaultFacts
<1>3. CASE ~paper /\ Covers(t, q) /\ book' = [book EXCEPT ![t].sold = @ + q] /\ Usual
  BY <1>1, <1>3, CloneFaultFacts DEF CloneBooks
<1>4. CASE limit /\ "resting" \in risk.of /\ book' = [book EXCEPT ![t].selling = @ + q] /\ Usual
  BY <1>1, <1>4, CloneFaultFacts DEF CloneBooks
<1>5. CASE UNCHANGED book /\ CloneFault("refuse")
  BY <1>1, <1>5, CloneFaultFacts
<1> QED
  BY <1>2, <1>3, <1>4, <1>5 DEF Sell

\* The sale of q contracts of t: afterwards as many fewer are free to sell, and
\* nothing fails where nothing may.
LEMMA SellFacts ==
  ASSUME CloneInv, TypeOK', lock = "free", NEW t \in Trades, NEW q \in 1 .. mem[t].left, NEW limit, Sell(t, q, limit),
         UNCHANGED <<mem, req, paper>>
  PROVE  /\ Steady => \A u \in Trades : mem[u].left - (IF u = t THEN q ELSE 0) <= Bought(u)' - OnSale(u)'
         /\ Calm => \A u \in Trades : mem[u].status # "none" =>
               Bought(u)' - OnSale(u)' = mem[u].left - (IF u = t THEN q ELSE 0)
         /\ CloneAccount'
<1>0. /\ CloneTypes /\ CloneLocks /\ CloneOpen /\ CloneCounts /\ CloneAccount /\ TypeOK
  BY DEF CloneInv, CloneTypes
<1>1. \A u \in Trades : mem[u].left \in Int /\ mem[u].left >= 0 /\ mem[u].left \in Nat
  BY <1>0, PendingFacts
<1>2. q \in Nat /\ q > 0 /\ mem[t].left > 0 /\ q <= mem[t].left
  BY <1>1
<1>3. \A u \in Trades : Pending(u) = 0
  BY <1>0 DEF CloneLocks, Pending
<1>4. \A u \in Trades : /\ Held[u] = Bought(u) - book[u].sold /\ Bought(u) \in Int
                             /\ OnSale(u) = book[u].sold + book[u].selling
                        /\ book[u].sold \in Nat /\ book[u].selling \in Nat /\ Position(u) \in Int
  BY <1>0, HeldFacts DEF OnSale
<1>5. /\ book' \in CloneBooks /\ \A u \in Trades : book'[u].buy = book[u].buy /\ (u # t => book'[u] = book[u])
      /\ risk'.of = risk.of
      /\ \/ book' = book /\ (paper \/ ~Covers(t, q) \/ "refuse" \in risk.of)
         \/ Covers(t, q) /\ book'[t].sold = book[t].sold + q /\ book'[t].selling = book[t].selling
         \/ "resting" \in risk.of /\ book'[t].sold = book[t].sold /\ book'[t].selling = book[t].selling + q
  BY <1>0, <1>2, SellDoes
<1>6. \A u \in Trades : /\ Bought(u)' = Bought(u) /\ OnSale(u)' = book'[u].sold + book'[u].selling
                        /\ Held'[u] = Bought(u) - book'[u].sold
  BY <1>5 DEF Bought, OnSale, Held
<1>7. Steady => \A u \in Trades : mem[u].left <= Bought(u) - OnSale(u)
  BY <1>0, <1>1, <1>3 DEF CloneCounts
<1>8. Calm => Covers(t, q)
  <2> SUFFICES ASSUME Calm PROVE Position(t) >= q
    BY DEF Covers
  <2>1. Steady
    BY DEF Calm, Steady
  <2>2. \A u \in Trades : Held[u] >= mem[u].left /\ Held[u] >= 0
    BY <1>1, <1>4, <1>7, <2>1
  <2>3. Position(t) >= Held[t]
    BY <1>0, <2>2, CoverFacts
  <2> QED
    BY <1>1, <1>2, <1>4, <2>2, <2>3
<1>9. Calm => ~(paper \/ ~Covers(t, q) \/ "refuse" \in risk.of)
  BY <1>0, <1>8 DEF CloneCounts, Calm
<1>10. Steady => \A u \in Trades : mem[u].left - (IF u = t THEN q ELSE 0) <= Bought(u)' - OnSale(u)'
  <2> SUFFICES ASSUME Steady, NEW u \in Trades PROVE mem[u].left - (IF u = t THEN q ELSE 0) <= Bought(u)' - OnSale(u)'
    OBVIOUS
  <2>1. CASE u # t
    BY <1>1, <1>4, <1>5, <1>6, <1>7, <2>1
  <2>2. CASE u = t
    BY <1>1, <1>2, <1>4, <1>5, <1>6, <1>7, <2>2
  <2> QED
    BY <2>1, <2>2
<1>11. Calm => \A u \in Trades : mem[u].status # "none" =>
               Bought(u)' - OnSale(u)' = mem[u].left - (IF u = t THEN q ELSE 0)
  <2> SUFFICES ASSUME Calm, NEW u \in Trades, mem[u].status # "none"
               PROVE  Bought(u)' - OnSale(u)' = mem[u].left - (IF u = t THEN q ELSE 0)
    OBVIOUS
  <2>0. Bought(u) - OnSale(u) = mem[u].left
    BY <1>0, <1>1, <1>3 DEF CloneCounts
  <2>1. CASE u # t
    BY <1>1, <1>4, <1>5, <1>6, <2>0, <2>1
  <2>2. CASE u = t
    BY <1>1, <1>2, <1>4, <1>5, <1>6, <1>9, <2>0, <2>2
  <2> QED
    BY <2>1, <2>2
<1>12. CloneAccount'
  <2> SUFFICES ASSUME "resting" \notin risk.of PROVE (\A u \in Trades : book'[u].selling = 0) /\ NeverOversold'
    BY <1>5 DEF CloneAccount
  <2>1. (\A u \in Trades : book[u].selling = 0) /\ NeverOversold
    BY <1>0 DEF CloneAccount
  <2>2. CASE book' = book
    BY <1>0, <1>5, <2>1, <2>2, AccountSame DEF CloneAccount
  <2>3. CASE Covers(t, q) /\ book'[t].sold = book[t].sold + q /\ book'[t].selling = book[t].selling
    <3>1. Position(t) >= q
      BY <2>3 DEF Covers
    <3>2. Held'[t] = Held[t] - q /\ \A u \in Trades : u # t => Held'[u] = Held[u]
      BY <1>2, <1>4, <1>5, <1>6, <2>3
    <3>3. \A u \in Trades : req'[u].sig = req[u].sig
      OBVIOUS
    <3>4. NeverOversold'
      BY <1>0, <1>2, <2>1, <3>1, <3>2, <3>3, SaleKeeps
    <3> QED
      BY <1>5, <2>1, <2>3, <3>4
  <2> QED
    BY <1>5, <2>2, <2>3
<1> QED
  BY <1>10, <1>11, <1>12

\* A sale under the lock, by the monitor or for the operator.
LEMMA SaleStepKeeps ==
  ASSUME CloneInv, lock = "free", NEW t \in Trades, NEW q \in 1 .. mem[t].left, NEW limit, Sell(t, q, limit),
         UNCHANGED <<mem, active, disk, req, signal, price, moves, paper>>,
         mon' \in CloneMonitors, op' \in CloneOperators,
         \/ /\ lock' = "monitor" /\ op' = op /\ mon'.trade = t /\ mon'.todo = mon.todo
            /\ mon'.pc \in {"stopped", "tranche"} /\ q = IF mon'.pc = "stopped" THEN mem[t].left ELSE Tranche(mem[t])
         \/ lock' = "operator" /\ mon' = mon /\ op'.pc = "closing" /\ op'.trade = t /\ q = mem[t].left
  PROVE  CloneInv'
<1>0. /\ CloneTypes /\ CloneLocks /\ CloneOpen /\ CloneFresh /\ CloneJournal /\ CloneCounts /\ CloneAccount
      /\ CloneLadders /\ TypeOK
  BY DEF CloneInv, CloneTypes
<1>1. q \in Nat /\ mem[t].left > 0 /\ mem[t].left \in Nat
  BY <1>0, PendingFacts
<1>2. /\ book' \in CloneBooks /\ \A u \in Trades : book'[u].buy = book[u].buy /\ (u # t => book'[u] = book[u])
      /\ risk'.of = risk.of /\ risk' \in [of : CloneScenarios, left : Nat]
  BY <1>0, <1>1, SellDoes
<1>3. TypeOK' /\ CloneTypes'
  BY <1>0, <1>2 DEF TypeOK, CloneTypes, CloneMonitors, ClonePcs, CloneOperators, CloneBooks
<1>4. ~CloneSelling /\ op.pc = "idle" /\ t \in active /\ mem[t].status \in {"OPEN", "WORKING"}
  BY <1>0, <1>1 DEF CloneLocks, CloneOpen, CloneTypes, CloneOperators
<1>5. CloneLocks'
  BY <1>0, <1>4 DEF CloneLocks, CloneSelling
<1>6. CloneOpen'
  BY <1>0 DEF CloneOpen
<1>7. CloneFresh'
  BY <1>0, <1>2, <1>4 DEF CloneFresh
<1>8. CloneJournal'
  BY <1>0, <1>4 DEF CloneJournal, Journalled
<1>9. /\ Steady => \A u \in Trades : mem[u].left - (IF u = t THEN q ELSE 0) <= Bought(u)' - OnSale(u)'
      /\ Calm => \A u \in Trades : mem[u].status # "none" =>
            Bought(u)' - OnSale(u)' = mem[u].left - (IF u = t THEN q ELSE 0)
      /\ CloneAccount'
  BY <1>3, SellFacts
<1>10. \A u \in Trades : Pending(u)' = IF u = t THEN q ELSE 0
  <2>1. CASE lock' = "monitor"
    <3>1. CloneSelling' /\ mon'.trade = t /\ op'.pc = "idle"
            /\ q = IF mon'.pc = "stopped" THEN mem[t].left ELSE Tranche(mem[t])
      BY <1>4, <2>1 DEF CloneSelling
    <3> QED
      BY <3>1 DEF Pending
  <2>2. CASE lock' = "operator"
    <3>1. ~CloneSelling' /\ op'.pc = "closing" /\ op'.trade = t /\ q = mem[t].left
      BY <1>4, <2>2 DEF CloneSelling
    <3> QED
      BY <3>1 DEF Pending
  <2> QED
    BY <2>1, <2>2
<1>11. CloneCounts'
  BY <1>0, <1>2, <1>9, <1>10 DEF CloneCounts, Steady, Calm
<1>12. CloneLadders'
  BY <1>0, <1>2 DEF CloneLadders, OnTiers
<1> QED
  BY <1>3, <1>5, <1>6, <1>7, <1>8, <1>9, <1>11, <1>12 DEF CloneInv

\* The monitor looks at a quoted trade.
LEMMA CheckKeeps ==
  ASSUME CloneInv, Check
  PROVE  CloneInv'
<1>0. CloneTypes /\ CloneLocks /\ mon \in CloneMonitors /\ op \in CloneOperators
  BY DEF CloneInv, CloneTypes
<1>1. /\ mon.pc = "priced" /\ lock = "free"
      /\ UNCHANGED <<mem, active, disk, req, signal, op, price, moves, paper>>
  BY DEF Check, Free
<1>2. PICK t \in Trades : t = mon.trade
  BY <1>0, <1>1 DEF CloneLocks
<1>3. mem[t] \in TradeRecord /\ mem[t].left \in Nat
  BY <1>0, PendingFacts
<1>4. Tranche(mem[t]) \in 0 .. mem[t].left /\ (mem[t].left > 0 => Tranche(mem[t]) > 0)
  BY <1>3, TrancheFacts
<1>5. CASE mem[t].left > 0 /\ Sell(t, mem[t].left, FALSE) /\ mon' = [mon EXCEPT !.pc = "stopped"] /\ lock' = "monitor"
  <2>1. mem[t].left \in 1 .. mem[t].left
    BY <1>3, <1>5
  <2>2. mon' \in CloneMonitors /\ mon'.pc = "stopped" /\ mon'.trade = t /\ mon'.todo = mon.todo
    BY <1>0, <1>2, <1>5 DEF CloneMonitors, ClonePcs
  <2>3. PICK q \in 1 .. mem[t].left : q = mem[t].left
    BY <2>1
  <2>4. /\ lock' = "monitor" /\ op' = op /\ mon'.trade = t /\ mon'.todo = mon.todo
        /\ mon'.pc \in {"stopped", "tranche"} /\ q = IF mon'.pc = "stopped" THEN mem[t].left ELSE Tranche(mem[t])
    BY <1>1, <1>5, <2>2, <2>3
  <2>5. PICK limit : limit = FALSE
    OBVIOUS
  <2>6. Sell(t, q, limit)
    BY <1>5, <2>3, <2>5
  <2>7. op' \in CloneOperators
    BY <1>0, <1>1
  <2> QED
    BY <1>1, <2>2, <2>4, <2>6, <2>7, SaleStepKeeps
<1>6. CASE mem[t].left > 0 /\ Sell(t, Tranche(mem[t]), TRUE) /\ mon' = [mon EXCEPT !.pc = "tranche"]
             /\ lock' = "monitor"
  <2>1. Tranche(mem[t]) \in 1 .. mem[t].left
    BY <1>3, <1>4, <1>6
  <2>2. mon' \in CloneMonitors /\ mon'.pc = "tranche" /\ mon'.trade = t /\ mon'.todo = mon.todo
    BY <1>0, <1>2, <1>6 DEF CloneMonitors, ClonePcs
  <2>3. PICK q \in 1 .. mem[t].left : q = Tranche(mem[t])
    BY <2>1
  <2>4. /\ lock' = "monitor" /\ op' = op /\ mon'.trade = t /\ mon'.todo = mon.todo
        /\ mon'.pc \in {"stopped", "tranche"} /\ q = IF mon'.pc = "stopped" THEN mem[t].left ELSE Tranche(mem[t])
    BY <1>1, <1>6, <2>2, <2>3
  <2>5. PICK limit : limit = TRUE
    OBVIOUS
  <2>6. Sell(t, q, limit)
    BY <1>6, <2>3, <2>5
  <2>7. op' \in CloneOperators
    BY <1>0, <1>1
  <2> QED
    BY <1>1, <2>2, <2>4, <2>6, <2>7, SaleStepKeeps
<1>7. CASE mon' = ToNext(mon) /\ UNCHANGED <<book, lock, risk>>
  <2>1. mon' \in CloneMonitors /\ mon'.pc \in {"idle", "next"} /\ mon'.todo = mon.todo
    BY <1>0, <1>7, ToNextFacts
  <2>2. ~CloneSelling /\ \A u \in mon'.todo : mem[u].status # "none"
    BY <1>0, <1>1, <2>1 DEF CloneSelling, CloneLocks
  <2>3. risk'.of = risk.of /\ risk' \in [of : CloneScenarios, left : Nat]
    BY <1>0, <1>7 DEF CloneTypes
  <2> QED
    BY <1>1, <1>7, <2>1, <2>2, <2>3, LookingKeeps
<1> QED
  BY <1>2, <1>5, <1>6, <1>7 DEF Check, TargetReached

\* The operator sells a trade.
LEMMA FlattenKeeps ==
  ASSUME CloneInv, NEW t \in Trades, Flatten(t)
  PROVE  CloneInv'
<1>0. CloneTypes /\ CloneLocks /\ CloneOpen /\ mon \in CloneMonitors
  BY DEF CloneInv, CloneTypes
<1>1. /\ lock = "free" /\ t \in active /\ Sell(t, mem[t].left, FALSE)
      /\ op' = [pc |-> "closing", trade |-> t] /\ lock' = "operator"
      /\ UNCHANGED <<mem, active, disk, req, signal, mon, price, moves, paper>>
  BY DEF Flatten, Free
<1>2. mem[t].left \in 1 .. mem[t].left
  <2>1. mem[t].left \in Nat /\ mem[t].left > 0
    BY <1>0, <1>1, PendingFacts DEF CloneOpen
  <2> QED
    BY <2>1
<1>3. op' \in CloneOperators /\ op'.pc = "closing" /\ op'.trade = t /\ mon' \in CloneMonitors
  BY <1>0, <1>1 DEF CloneOperators
<1> QED
  BY <1>1, <1>2, <1>3, SaleStepKeeps

\* An open trade gets a new state, in memory and in the journal.
LEMMA SaveKeeps ==
  ASSUME CloneInv, NEW t \in active, NEW r \in TradeRecord, Save(t, r),
         UNCHANGED <<req, signal, price, moves, paper>>,
         r.status # "none", r.left > 0 => r.status = mem[t].status, OnTiers(mem[t]) => OnTiers(r),
         "WORKING" = r.status => mem[t].status = "WORKING",
         r.left <= mem[t].left - Pending(t), Calm => r.left = mem[t].left - Pending(t),
         mon' \in CloneMonitors, mon'.todo = mon.todo, mon'.pc \notin {"idle", "next"} => mon'.trade = mon.trade
           /\ mon.pc = mon'.pc,
         op' \in CloneOperators, op.pc # "clearing", op'.pc \in {"idle", op.pc}, op'.pc # "idle" => op' = op
           /\ op.trade # t,
         lock' = "monitor" <=> CloneSelling', lock' = "operator" <=> op'.pc # "idle",
         lock' \in {"free", "monitor", "operator"}, ~CloneSelling', op'.pc # "closing",
         \A u \in Trades \ {t} : Pending(u) = 0,
         book' \in CloneBooks,
         \A u \in Trades : /\ book'[u].sold = book[u].sold /\ book'[u].selling = book[u].selling
                           /\ book'[u].buy = book[u].buy \/ (book[u].buy = "working" /\ book'[u].buy = "cancelled"),
         risk'.of = risk.of, risk' \in [of : CloneScenarios, left : Nat]
  PROVE  CloneInv'
<1>0. /\ CloneTypes /\ CloneLocks /\ CloneOpen /\ CloneFresh /\ CloneJournal /\ CloneCounts /\ CloneAccount
      /\ CloneLadders /\ TypeOK /\ active \subseteq Trades /\ t \in Trades
  BY DEF CloneInv, CloneTypes, TypeOK
<1>1. /\ mem' = [mem EXCEPT ![t] = r] /\ disk' = [disk EXCEPT ![t] = r]
      /\ active' = IF r.left = 0 THEN active \ {t} ELSE active
  BY DEF Save
<1>2. mem \in [Trades -> TradeRecord] /\ disk \in [Trades -> TradeRecord] /\ mem[t].left > 0
      /\ mem[t].status \in {"OPEN", "WORKING"} /\ r.left \in Nat
  <2>1. r.left \in 0 .. Qty /\ Qty \in Nat
    BY CloneAssumption DEF TradeRecord
  <2>2. mem \in [Trades -> TradeRecord] /\ disk \in [Trades -> TradeRecord]
    BY <1>0 DEF TypeOK
  <2>3. mem[t].left > 0 /\ mem[t].status \in {"OPEN", "WORKING"}
    BY <1>0 DEF CloneOpen
  <2> QED
    BY <2>1, <2>2, <2>3
<1>3. /\ mem' \in [Trades -> TradeRecord] /\ mem'[t] = r /\ \A u \in Trades : u # t => mem'[u] = mem[u]
      /\ disk' \in [Trades -> TradeRecord] /\ disk'[t] = r /\ \A u \in Trades : u # t => disk'[u] = disk[u]
  BY <1>0, <1>1, <1>2
<1>4. TypeOK' /\ CloneTypes'
  BY <1>0, <1>1, <1>3 DEF TypeOK, CloneTypes, CloneMonitors, ClonePcs, CloneOperators, CloneBooks
<1>5. CloneLocks'
  <2>1. \A u \in Trades : mem[u].status # "none" => mem'[u].status # "none"
    BY <1>3
  <2>2. mon.todo \subseteq Trades
    BY <1>0 DEF TypeOK
  <2> QED
    BY <1>0, <2>1, <2>2 DEF CloneLocks
<1>6. CloneOpen'
  <2>1. active' = {u \in Trades : mem'[u].left > 0}
    BY <1>0, <1>1, <1>2, <1>3 DEF CloneOpen
  <2>2. ASSUME NEW u \in Trades
        PROVE  /\ mem'[u].left > 0 => mem'[u].status \in {"OPEN", "WORKING"}
               /\ disk'[u].left > 0 => disk'[u].status \in {"OPEN", "WORKING"}
    BY <1>0, <1>2, <1>3 DEF CloneOpen
  <2> QED
    BY <2>1, <2>2 DEF CloneOpen
<1>7. req[t].pc \notin {"new", "placed"}
  BY <1>0, <1>2 DEF CloneFresh
<1>8. CloneFresh'
  <2>1. ASSUME NEW u \in Trades, req[u].pc = "new" PROVE book'[u].buy = "none"
    BY <1>0, <2>1 DEF CloneFresh
  <2> QED
    BY <1>0, <1>3, <1>7, <2>1 DEF CloneFresh
<1>9. CloneJournal'
  <2> SUFFICES ASSUME NEW u \in Trades PROVE Journalled(u)'
    BY DEF CloneJournal
  <2>1. Journalled(u)
    BY <1>0 DEF CloneJournal
  <2>2. CASE u # t
    BY <1>1, <1>3, <2>1, <2>2 DEF Journalled, Alive
  <2>3. CASE u = t
    BY <1>1, <1>2, <1>3, <2>3 DEF Journalled, Alive
  <2> QED
    BY <2>2, <2>3
<1>10. \A u \in Trades : /\ Bought(u)' = Bought(u) /\ OnSale(u)' = OnSale(u) /\ Bought(u) \in Int /\ OnSale(u) \in Int
  <2>1. \A u \in Trades : Bought(u)' = Bought(u) /\ OnSale(u)' = OnSale(u)
    BY DEF Bought, OnSale
  <2> QED
    BY <1>0, <2>1, HeldFacts
<1>11. \A u \in Trades : Pending(u)' = 0
  BY DEF Pending
<1>12. CloneCounts'
  <2>1. \A u \in Trades : mem[u].left \in Int /\ Pending(u) \in Int
    BY <1>0, PendingFacts
  <2>2. "working" \notin risk.of => \A u \in Trades : req[u].pc = "placed" => book'[u].buy = "filled"
          /\ req[u].status = "OPEN"
    BY <1>0 DEF CloneCounts
  <2>3. Steady => \A u \in Trades : mem'[u].left <= Bought(u)' - OnSale(u)'
    <3> SUFFICES ASSUME Steady, NEW u \in Trades PROVE mem'[u].left <= Bought(u) - OnSale(u)
      BY <1>10
    <3>1. mem[u].left - Pending(u) <= Bought(u) - OnSale(u)
      BY <1>0 DEF CloneCounts
    <3>2. CASE u = t
      BY <1>2, <1>3, <1>10, <2>1, <3>1, <3>2
    <3>3. CASE u # t
      BY <1>3, <1>10, <2>1, <3>1, <3>3
    <3> QED
      BY <3>2, <3>3
  <2>4. Calm => \A u \in Trades :
          /\ book'[u].buy # "working" /\ mem'[u].status # "WORKING"
          /\ mem'[u].status # "none" => Bought(u)' - OnSale(u)' = mem'[u].left
    <3> SUFFICES ASSUME Calm, NEW u \in Trades
                 PROVE  /\ book'[u].buy # "working" /\ mem'[u].status # "WORKING"
                        /\ mem'[u].status # "none" => Bought(u) - OnSale(u) = mem'[u].left
      BY <1>10
    <3>1. /\ book[u].buy # "working" /\ mem[u].status # "WORKING"
          /\ mem[u].status # "none" => Bought(u) - OnSale(u) = mem[u].left - Pending(u)
      BY <1>0 DEF CloneCounts
    <3>2. CASE u = t
      BY <1>2, <1>3, <1>10, <2>1, <3>1, <3>2
    <3>3. CASE u # t
      BY <1>3, <1>10, <2>1, <3>1, <3>3
    <3> QED
      BY <3>2, <3>3
  <2>5. \A u \in Trades : mem'[u].left \in Int /\ mem'[u].left - Pending(u)' = mem'[u].left
    <3>1. \A u \in Trades : mem'[u].left \in Int
      BY <1>2, <1>3, <2>1
    <3> QED
      BY <1>11, <3>1
  <2> QED
    BY <1>0, <2>2, <2>3, <2>4, <2>5 DEF CloneCounts, Steady, Calm
<1>13. CloneAccount'
  <2>1. Held' = Held
    BY <1>10 DEF Held
  <2>2. ASSUME NEW u \in Trades PROVE Position(u)' = Position(u)
    <3>1. SameOption(u)' = SameOption(u)
      BY DEF SameOption
    <3> QED
      BY <2>1, <3>1 DEF Position
  <2>3. NeverOversold => NeverOversold'
    BY <2>2 DEF NeverOversold
  <2> QED
    BY <1>0, <2>3 DEF CloneAccount
<1>14. CloneLadders'
  BY <1>0, <1>3 DEF CloneLadders
<1> QED
  BY <1>4, <1>5, <1>6, <1>8, <1>9, <1>12, <1>13, <1>14 DEF CloneInv

\* The monitor books its sale.
LEMMA BookSaleKeeps ==
  ASSUME CloneInv, BookSale
  PROVE  CloneInv'
<1>0. CloneTypes /\ CloneLocks /\ CloneOpen /\ TypeOK /\ mon \in CloneMonitors /\ op \in CloneOperators
  BY DEF CloneInv, CloneTypes
<1>1. /\ CloneSelling /\ mon' = ToNext(mon) /\ lock' = "free"
      /\ UNCHANGED <<req, signal, book, op, price, moves, paper, risk>>
  BY DEF BookSale, CloneSelling
<1>2. PICK t \in active : t = mon.trade
  BY <1>0, <1>1 DEF CloneLocks
<1>3. t \in Trades /\ mem[t] \in TradeRecord /\ mem[t].left > 0 /\ mem[t].left \in Nat /\ mem[t].status # "none"
  BY <1>0, <1>2, PendingFacts DEF CloneOpen
<1>4. PICK r : r = IF mon.pc = "stopped" THEN Over(mem[t], "CLOSED") ELSE OnNextTier(mem[t])
  OBVIOUS
<1>5. Save(t, r)
  BY <1>2, <1>4 DEF BookSale
<1>6. op.pc = "idle" /\ lock = "monitor"
  BY <1>0, <1>1 DEF CloneLocks, CloneOperators
<1>7. Pending(t) = IF mon.pc = "stopped" THEN mem[t].left ELSE Tranche(mem[t])
  BY <1>1, <1>2 DEF Pending
<1>8. /\ r \in TradeRecord /\ r.status # "none" /\ (r.left > 0 => r.status = mem[t].status)
      /\ (OnTiers(mem[t]) => OnTiers(r)) /\ ("WORKING" = r.status => mem[t].status = "WORKING")
      /\ r.left = mem[t].left - Pending(t)
  <2>1. CASE mon.pc = "stopped"
    <3>1. "CLOSED" \in CloneStatuses
      BY DEF CloneStatuses
    <3>2. r \in TradeRecord /\ r.left = 0 /\ r.status = "CLOSED" /\ OnTiers(r)
      BY <1>3, <1>4, <2>1, <3>1, OverFacts
    <3> QED
      BY <1>3, <1>7, <2>1, <3>2
  <2>2. CASE mon.pc # "stopped"
    <3>1. /\ r \in TradeRecord /\ r.left = mem[t].left - Tranche(mem[t])
          /\ (r.left > 0 => r.status = mem[t].status) /\ r.status \in {mem[t].status, "CLOSED"}
          /\ (OnTiers(mem[t]) => OnTiers(r))
      BY <1>3, <1>4, <2>2, NextTierFacts
    <3> QED
      BY <1>3, <1>7, <2>2, <3>1
  <2> QED
    BY <2>1, <2>2
<1>9. /\ mon' \in CloneMonitors /\ mon'.todo = mon.todo /\ mon'.pc \in {"idle", "next"} /\ ~CloneSelling'
  BY <1>0, <1>1, ToNextFacts DEF CloneSelling
<1>10. \A u \in Trades \ {t} : Pending(u) = 0
  BY <1>1, <1>2, <1>6 DEF Pending
<1>11. book' \in CloneBooks /\ risk'.of = risk.of /\ risk' \in [of : CloneScenarios, left : Nat]
         /\ op' \in CloneOperators
  BY <1>0, <1>1 DEF CloneTypes, TypeOK, CloneBooks
<1>12. r.left <= mem[t].left - Pending(t)
  <2>1. r.left \in Int
    BY <1>8 DEF TradeRecord
  <2> QED
    BY <1>8, <2>1
<1>13. UNCHANGED <<req, signal, price, moves, paper>> /\ op' = op /\ book' = book /\ lock' = "free" /\ op'.pc = "idle"
  BY <1>1, <1>6
<1> QED
  BY <1>5, <1>6, <1>8, <1>9, <1>10, <1>11, <1>12, <1>13, SaveKeeps

\* The operator's sale is booked.
LEMMA BookFlattenKeeps ==
  ASSUME CloneInv, BookFlatten
  PROVE  CloneInv'
<1>0. CloneTypes /\ CloneLocks /\ CloneOpen /\ TypeOK /\ mon \in CloneMonitors /\ op \in CloneOperators
  BY DEF CloneInv, CloneTypes
<1>1. /\ op.pc = "closing" /\ op' = [pc |-> "idle", trade |-> "none"] /\ lock' = "free"
      /\ UNCHANGED <<req, signal, book, mon, price, moves, paper, risk>>
  BY DEF BookFlatten
<1>2. PICK t \in active : t = op.trade
  BY <1>0, <1>1 DEF CloneLocks
<1>3. t \in Trades /\ mem[t] \in TradeRecord /\ mem[t].left > 0 /\ mem[t].left \in Nat /\ mem[t].status # "none"
  BY <1>0, <1>2, PendingFacts DEF CloneOpen
<1>4. PICK r : r = Over(mem[t], "CLOSED")
  OBVIOUS
<1>5. Save(t, r)
  BY <1>2, <1>4 DEF BookFlatten
<1>6. ~CloneSelling /\ lock = "operator"
  BY <1>0, <1>1 DEF CloneLocks
<1>7. Pending(t) = mem[t].left
  BY <1>1, <1>2, <1>6 DEF Pending
<1>8. /\ r \in TradeRecord /\ r.left = 0 /\ r.status = "CLOSED" /\ OnTiers(r)
  <2>1. "CLOSED" \in CloneStatuses
    BY DEF CloneStatuses
  <2> QED
    BY <1>3, <1>4, <2>1, OverFacts
<1>9. r.status # "none" /\ (r.left > 0 => r.status = mem[t].status) /\ (OnTiers(mem[t]) => OnTiers(r))
      /\ ("WORKING" = r.status => mem[t].status = "WORKING")
      /\ r.left = mem[t].left - Pending(t) /\ r.left <= mem[t].left - Pending(t)
  BY <1>3, <1>7, <1>8
<1>10. \A u \in Trades \ {t} : Pending(u) = 0
  BY <1>1, <1>2, <1>6 DEF Pending
<1>11. book' \in CloneBooks /\ risk'.of = risk.of /\ risk' \in [of : CloneScenarios, left : Nat]
         /\ op' \in CloneOperators
       /\ op'.pc = "idle" /\ mon' \in CloneMonitors /\ ~CloneSelling'
  BY <1>0, <1>1, <1>6 DEF CloneTypes, TypeOK, CloneBooks, CloneOperators, CloneSelling
<1>12. UNCHANGED <<req, signal, price, moves, paper>> /\ mon' = mon /\ book' = book /\ lock' = "free"
  BY <1>1
<1>13. lock' = "monitor" <=> CloneSelling'
  BY <1>11, <1>12
<1>14. lock' = "operator" <=> op'.pc # "idle"
  BY <1>11, <1>12
<1> QED
  BY <1>1, <1>5, <1>8, <1>9, <1>10, <1>11, <1>12, <1>13, <1>14, SaveKeeps

\* A queued entry is cancelled.
LEMMA CancelWorkingKeeps ==
  ASSUME CloneInv, NEW t \in Trades, CancelWorking(t)
  PROVE  CloneInv'
<1>0. CloneTypes /\ CloneLocks /\ CloneOpen /\ CloneCounts /\ TypeOK /\ mon \in CloneMonitors /\ op \in CloneOperators
  BY DEF CloneInv, CloneTypes
<1>1. /\ lock = "free" /\ op.pc = "idle" /\ t \in active /\ mem[t].status = "WORKING"
      /\ UNCHANGED <<req, signal, mon, op, lock, price, moves, paper>>
  BY DEF CancelWorking, Free
<1>2. mem[t] \in TradeRecord /\ mem[t].left \in Nat
  BY <1>0, PendingFacts
<1>3. PICK r : r = Over(mem[t], "CANCELLED")
  OBVIOUS
<1>4. Save(t, r)
  BY <1>3 DEF CancelWorking
<1>5. ~CloneSelling /\ ~CloneSelling' /\ \A u \in Trades : Pending(u) = 0
  BY <1>0, <1>1 DEF CloneLocks, CloneSelling, Pending
<1>6. /\ r \in TradeRecord /\ r.left = 0 /\ r.status = "CANCELLED" /\ OnTiers(r)
  <2>1. "CANCELLED" \in CloneStatuses
    BY DEF CloneStatuses
  <2> QED
    BY <1>2, <1>3, <2>1, OverFacts
<1>7. ~Calm
  BY <1>0, <1>1 DEF CloneCounts
<1>8. r.status # "none" /\ (r.left > 0 => r.status = mem[t].status) /\ (OnTiers(mem[t]) => OnTiers(r))
      /\ ("WORKING" = r.status => mem[t].status = "WORKING")
      /\ (Calm => r.left = mem[t].left - Pending(t)) /\ r.left <= mem[t].left - Pending(t)
  BY <1>1, <1>2, <1>5, <1>6, <1>7
<1>9. book \in CloneBooks
  BY <1>0 DEF TypeOK, CloneBooks
<1>10. /\ book' \in CloneBooks
       /\ \A u \in Trades : /\ book'[u].sold = book[u].sold /\ book'[u].selling = book[u].selling
                            /\ book'[u].buy = book[u].buy \/ (book[u].buy = "working" /\ book'[u].buy = "cancelled")
       /\ risk'.of = risk.of /\ risk' \in [of : CloneScenarios, left : Nat]
  <2>1. CASE UNCHANGED book /\ (Usual \/ CloneFault("refuse"))
    BY <1>0, <1>9, <2>1, CloneFaultFacts
  <2>2. CASE Usual /\ book' = IF book[t].buy = "working" THEN [book EXCEPT ![t].buy = "cancelled"] ELSE book
    BY <1>0, <1>9, <2>2, CloneFaultFacts DEF CloneBooks
  <2> QED
    BY <2>1, <2>2 DEF CancelWorking
<1>11. lock' \in {"free", "monitor", "operator"} /\ op' \in CloneOperators /\ mon' \in CloneMonitors /\ op' = op
         /\ mon' = mon
       /\ op'.pc = "idle" /\ lock' = "free"
  BY <1>0, <1>1
<1>12. lock' = "monitor" <=> CloneSelling'
  BY <1>5, <1>11
<1>13. lock' = "operator" <=> op'.pc # "idle"
  BY <1>11
<1>14. UNCHANGED <<req, signal, price, moves, paper>>
  BY <1>1
<1> QED
  BY <1>1, <1>4, <1>5, <1>6, <1>8, <1>10, <1>11, <1>12, <1>13, <1>14, SaveKeeps

\* The operator edits ladders.
LEMMA EditLadderKeeps ==
  ASSUME CloneInv, EditLadder
  PROVE  CloneInv'
<1>0. /\ CloneTypes /\ CloneLocks /\ CloneOpen /\ CloneFresh /\ CloneJournal /\ CloneCounts /\ CloneAccount
      /\ CloneLadders /\ TypeOK
  BY DEF CloneInv, CloneTypes
<1>1. /\ lock = "free" /\ "edit" \in risk.of /\ risk'.of = risk.of /\ risk' \in [of : CloneScenarios, left : Nat]
      /\ disk' = [t \in Trades |-> IF mem'[t] # mem[t] THEN mem'[t] ELSE disk[t]]
      /\ UNCHANGED <<active, req, signal, book, mon, op, lock, price, moves, paper>>
  BY <1>0, CloneFaultFacts DEF EditLadder, Free
<1>2. PICK chosen : /\ chosen \subseteq active
                    /\ mem' = [t \in Trades |-> IF t \in chosen THEN Edited(mem[t], NewLadder) ELSE mem[t]]
  BY DEF EditLadder
<1>3. mem \in [Trades -> TradeRecord] /\ disk \in [Trades -> TradeRecord]
  BY <1>0 DEF TypeOK
<1>4. \A u \in Trades : LET e == Edited(mem[u], NewLadder)
                        IN  /\ e \in TradeRecord /\ e.status = mem[u].status /\ e.left = mem[u].left
                                 /\ e.tier = mem[u].tier
  BY <1>3, EditedFacts
<1>5. \A u \in Trades : /\ mem'[u] \in TradeRecord /\ mem'[u].status = mem[u].status /\ mem'[u].left = mem[u].left
                        /\ mem'[u].tier = mem[u].tier /\ (u \notin active => mem'[u] = mem[u])
  BY <1>2, <1>3, <1>4
<1>6. /\ mem' \in [Trades -> TradeRecord] /\ disk' \in [Trades -> TradeRecord]
      /\ \A u \in Trades : disk'[u] = IF mem'[u] # mem[u] THEN mem'[u] ELSE disk[u]
  BY <1>1, <1>2, <1>3, <1>5
<1>7. CloneTypes'
  BY <1>0, <1>1, <1>6 DEF TypeOK, CloneTypes, CloneMonitors, ClonePcs, CloneOperators
<1>8. CloneLocks'
  <2>1. mon.todo \subseteq Trades
    BY <1>0 DEF TypeOK
  <2> QED
    BY <1>0, <1>1, <1>5, <2>1 DEF CloneLocks, CloneSelling
<1>9. CloneOpen'
  <2>1. active' = {u \in Trades : mem'[u].left > 0}
    BY <1>0, <1>1, <1>5 DEF CloneOpen
  <2>2. ASSUME NEW u \in Trades
        PROVE  /\ mem'[u].left > 0 => mem'[u].status \in {"OPEN", "WORKING"}
               /\ disk'[u].left > 0 => disk'[u].status \in {"OPEN", "WORKING"}
    BY <1>0, <1>5, <1>6 DEF CloneOpen
  <2> QED
    BY <2>1, <2>2 DEF CloneOpen
<1>10. CloneFresh'
  <2>1. \A u \in active : mem[u].status # "none"
    BY <1>0 DEF CloneOpen
  <2>2. \A u \in Trades : mem[u].status = "none" => mem'[u] = mem[u] /\ disk'[u] = disk[u]
    BY <1>5, <1>6, <2>1
  <2> QED
    BY <1>0, <1>1, <1>5, <2>2 DEF CloneFresh
<1>11. op.pc = "idle" /\ ~CloneSelling
  BY <1>0, <1>1 DEF CloneLocks, CloneTypes, CloneOperators
<1>12. CloneJournal'
  <2> SUFFICES ASSUME NEW u \in Trades PROVE Journalled(u)'
    BY DEF CloneJournal
  <2>1. Journalled(u) /\ (u \in active <=> mem[u].left > 0)
          /\ (mem[u].left > 0 => mem[u].status \in {"OPEN", "WORKING"})
    BY <1>0, <1>11 DEF CloneJournal, CloneOpen
  <2>2. CASE mem'[u] = mem[u]
    BY <1>1, <1>6, <2>1, <2>2 DEF Journalled, Alive
  <2>3. CASE mem'[u] # mem[u]
    BY <1>1, <1>5, <1>6, <2>1, <2>3 DEF Journalled, Alive
  <2> QED
    BY <2>2, <2>3
<1>13. CloneCounts'
  <2>1. \A u \in Trades : Pending(u)' = Pending(u)
    BY <1>1, <1>11 DEF Pending, CloneSelling
  <2> QED
    BY <1>0, <1>1, <1>5, <2>1, CountsSame
<1>14. CloneAccount'
  BY <1>0, <1>1, AccountSame
<1>15. CloneLadders'
  BY <1>1 DEF CloneLadders
<1> QED
  BY <1>7, <1>8, <1>9, <1>10, <1>12, <1>13, <1>14, <1>15 DEF CloneInv

\* The record of no trade.
LEMMA AbsentFacts == Absent \in TradeRecord /\ Absent.status = "none" /\ Absent.left = 0 /\ OnTiers(Absent)
<1>1. TRUE \in BOOLEAN /\ FALSE \in BOOLEAN
  OBVIOUS
<1>2. 0 \in 0 .. Qty /\ << >> \in Seq(0 .. Qty) /\ 1 \in Nat \ {0} /\ 0 \in Int
  BY CloneAssumption
<1>3. "none" \in {"none", "WORKING", "OPEN", "CLOSED", "CANCELLED"}
  OBVIOUS
<1>4. Absent \in TradeRecord
  BY <1>1, <1>2, <1>3, Zenon DEF Absent, TradeRecord
<1>5. Absent.status = "none" /\ Absent.left = 0
  BY DEF Absent
<1> QED
  BY <1>4, <1>5 DEF OnTiers

\* The journals are emptied.
LEMMA TruncateKeeps ==
  ASSUME CloneInv, Truncate
  PROVE  CloneInv'
<1>0. /\ CloneTypes /\ CloneLocks /\ CloneOpen /\ CloneFresh /\ CloneJournal /\ CloneCounts /\ CloneAccount
      /\ CloneLadders /\ TypeOK
  BY DEF CloneInv, CloneTypes
<1>1. /\ lock = "free" /\ op.pc = "idle" /\ risk'.of = risk.of /\ risk' \in [of : CloneScenarios, left : Nat]
      /\ signal' = [s \in Trades |-> "none"] /\ disk' = [t \in Trades |-> Absent]
      /\ op' = [pc |-> "clearing", trade |-> "none"] /\ lock' = "operator"
      /\ UNCHANGED <<mem, active, req, book, mon, price, moves, paper>>
  BY <1>0, CloneFaultFacts DEF Truncate, Free
<1>2. \A t \in Trades : disk'[t] \in TradeRecord /\ disk'[t].status = "none" /\ disk'[t].left = 0 /\ OnTiers(disk'[t])
  BY <1>1, AbsentFacts
<1>3. disk' \in [Trades -> TradeRecord] /\ op' \in CloneOperators /\ op'.pc = "clearing"
  BY <1>1, <1>2 DEF CloneOperators
<1>4. CloneTypes'
  BY <1>0, <1>1, <1>3 DEF TypeOK, CloneTypes, CloneOperators
<1>5. ~CloneSelling
  BY <1>0, <1>1 DEF CloneLocks
<1>6. CloneLocks'
  BY <1>0, <1>1, <1>3, <1>5 DEF CloneLocks, CloneSelling
<1>7. CloneOpen'
  BY <1>0, <1>1, <1>2 DEF CloneOpen
<1>8. CloneFresh'
  BY <1>0, <1>1, <1>2 DEF CloneFresh
<1>9. CloneJournal'
  BY <1>3 DEF CloneJournal
<1>10. CloneCounts'
  <2>1. \A u \in Trades : Pending(u)' = Pending(u)
    BY <1>1, <1>3, <1>5 DEF Pending, CloneSelling
  <2> QED
    BY <1>0, <1>1, <2>1, CountsSame
<1>11. CloneAccount'
  BY <1>0, <1>1, AccountSame
<1>12. CloneLadders'
  BY <1>0, <1>1, <1>2 DEF CloneLadders
<1> QED
  BY <1>4, <1>6, <1>7, <1>8, <1>9, <1>10, <1>11, <1>12 DEF CloneInv

\* The journal gets the open trades back.
LEMMA ClearHistoryKeeps ==
  ASSUME CloneInv, ClearHistory
  PROVE  CloneInv'
<1>0. /\ CloneTypes /\ CloneLocks /\ CloneOpen /\ CloneFresh /\ CloneJournal /\ CloneCounts /\ CloneAccount
      /\ CloneLadders /\ TypeOK
  BY DEF CloneInv, CloneTypes
<1>1. /\ op.pc = "clearing" /\ disk' = [t \in Trades |-> IF t \in active THEN mem[t] ELSE Absent]
      /\ op' = [pc |-> "idle", trade |-> "none"] /\ lock' = "free"
      /\ UNCHANGED <<mem, active, req, signal, book, mon, price, moves, paper, risk>>
  BY DEF ClearHistory, Rewrite
<1>2. \A t \in Trades : disk'[t] = IF t \in active THEN mem[t] ELSE Absent
  BY <1>1
<1>3. disk' \in [Trades -> TradeRecord]
  BY <1>0, <1>1, AbsentFacts DEF TypeOK
<1>4. op' \in CloneOperators /\ op'.pc = "idle"
  BY <1>1 DEF CloneOperators
<1>5. CloneTypes'
  BY <1>0, <1>1, <1>3, <1>4 DEF TypeOK, CloneTypes, CloneOperators
<1>6. ~CloneSelling
  BY <1>0, <1>1 DEF CloneLocks
<1>7. CloneLocks'
  BY <1>0, <1>1, <1>4, <1>6 DEF CloneLocks, CloneSelling
<1>8. \A t \in Trades : t \in active <=> mem[t].left > 0
  BY <1>0 DEF CloneOpen
<1>9. CloneOpen'
  <2>1. ASSUME NEW t \in Trades
        PROVE  /\ mem'[t].left > 0 => mem'[t].status \in {"OPEN", "WORKING"}
               /\ disk'[t].left > 0 => disk'[t].status \in {"OPEN", "WORKING"}
    BY <1>0, <1>1, <1>2, AbsentFacts DEF CloneOpen
  <2> QED
    BY <1>0, <1>1, <2>1 DEF CloneOpen
<1>10. CloneFresh'
  <2>1. \A t \in Trades : mem[t].status = "none" => disk'[t].status = "none"
    BY <1>2, AbsentFacts
  <2> QED
    BY <1>0, <1>1, <2>1 DEF CloneFresh
<1>11. CloneJournal'
  <2> SUFFICES ASSUME NEW t \in Trades PROVE Journalled(t)'
    BY DEF CloneJournal
  <2>1. CASE t \in active
    BY <1>0, <1>1, <1>2, <1>8, <2>1 DEF CloneOpen, Journalled, Alive
  <2>2. CASE t \notin active
    BY <1>1, <1>2, <2>2, AbsentFacts DEF Journalled, Alive
  <2> QED
    BY <2>1, <2>2
<1>12. CloneCounts'
  <2>1. \A u \in Trades : Pending(u)' = Pending(u)
    BY <1>1, <1>4, <1>6 DEF Pending, CloneSelling
  <2> QED
    BY <1>0, <1>1, <2>1, CountsSame
<1>13. CloneAccount'
  BY <1>0, <1>1, AccountSame
<1>14. CloneLadders'
  BY <1>0, <1>1, <1>2, AbsentFacts DEF CloneLadders
<1> QED
  BY <1>5, <1>7, <1>9, <1>10, <1>11, <1>12, <1>13, <1>14 DEF CloneInv

\* The operator sets the paper flag.
LEMMA TogglePaperKeeps ==
  ASSUME CloneInv, TogglePaper
  PROVE  CloneInv'
<1>0. /\ CloneTypes /\ CloneLocks /\ CloneOpen /\ CloneFresh /\ CloneJournal /\ CloneCounts /\ CloneAccount
      /\ CloneLadders /\ TypeOK
  BY DEF CloneInv, CloneTypes
<1>1. /\ "paper" \in risk.of /\ risk'.of = risk.of /\ risk' \in [of : CloneScenarios, left : Nat] /\ paper' = ~paper
      /\ UNCHANGED <<mem, active, disk, req, signal, book, mon, op, lock, price, moves>>
  BY <1>0, CloneFaultFacts DEF TogglePaper
<1>2. paper' \in BOOLEAN
  BY <1>1
<1>3. CloneTypes'
  BY <1>0, <1>1, <1>2 DEF TypeOK, CloneTypes
<1>4. CloneLocks'
  BY <1>0, <1>1 DEF CloneLocks, CloneSelling
<1>5. CloneOpen'
  BY <1>0, <1>1 DEF CloneOpen
<1>6. CloneFresh'
  BY <1>0, <1>1 DEF CloneFresh
<1>7. CloneJournal'
  BY <1>0, <1>1 DEF CloneJournal, Journalled
<1>8. CloneCounts'
  <2>1. \A u \in Trades : Pending(u)' = Pending(u) /\ Bought(u)' = Bought(u) /\ OnSale(u)' = OnSale(u)
    BY <1>1 DEF Pending, CloneSelling, Bought, OnSale
  <2>2. Steady' = Steady /\ ~Calm'
    BY <1>1 DEF Steady, Calm
  <2> QED
    BY <1>0, <1>1, <2>1, <2>2 DEF CloneCounts
<1>9. CloneAccount'
  BY <1>0, <1>1, AccountSame
<1>10. CloneLadders'
  BY <1>0, <1>1 DEF CloneLadders
<1> QED
  BY <1>3, <1>4, <1>5, <1>6, <1>7, <1>8, <1>9, <1>10 DEF CloneInv

\* A new process takes the trades from the journal.
LEMMA RestartKeeps ==
  ASSUME CloneInv, Restart
  PROVE  CloneInv'
<1>0. /\ CloneTypes /\ CloneLocks /\ CloneOpen /\ CloneFresh /\ CloneJournal /\ CloneCounts /\ CloneAccount
      /\ CloneLadders /\ TypeOK
  BY DEF CloneInv, CloneTypes
<1>1. /\ "crash" \in risk.of /\ risk'.of = risk.of /\ risk' \in [of : CloneScenarios, left : Nat]
      /\ mem' = [t \in Trades |-> [disk[t] EXCEPT !.seen = FALSE]]
      /\ active' = {t \in Trades : Alive(disk[t])}
      /\ req' = [t \in Trades |-> IF req[t].pc = "new" THEN req[t] ELSE [req[t] EXCEPT !.pc = "done"]]
      /\ mon' = Idle /\ op' = [pc |-> "idle", trade |-> "none"] /\ lock' = "free"
      /\ UNCHANGED <<disk, signal, book, price, moves, paper>>
  BY <1>0, CloneFaultFacts DEF Restart
<1>2. disk \in [Trades -> TradeRecord] /\ req \in [Trades -> CloneRequests]
  BY <1>0 DEF TypeOK, CloneRequests
<1>3. PICK no \in BOOLEAN : no = FALSE
  OBVIOUS
<1>4. mem' = [t \in Trades |-> [disk[t] EXCEPT !.seen = no]]
  BY <1>1, <1>3
<1>5. \A t \in Trades : /\ mem'[t] \in TradeRecord /\ mem'[t].status = disk[t].status /\ mem'[t].left = disk[t].left
                        /\ mem'[t].tier = disk[t].tier /\ mem'[t].pt = disk[t].pt /\ mem'[t].stop = disk[t].stop
                        /\ mem'[t].dist = disk[t].dist
  BY <1>2, <1>4 DEF TradeRecord
<1>6. mem' \in [Trades -> TradeRecord]
  BY <1>4, <1>5
<1>7. \A t \in Trades : /\ req'[t] \in CloneRequests /\ req'[t].sig = req[t].sig
                        /\ req'[t].pc \in {"new", "done"} /\ (req'[t].pc = "new" => req[t].pc = "new")
  BY <1>1, <1>2 DEF CloneRequests
<1>8. req' \in [Trades -> CloneRequests]
  BY <1>1, <1>7
<1>9. mon' \in CloneMonitors /\ mon'.pc = "idle" /\ mon'.todo = {}
  <2>1. FALSE \in BOOLEAN /\ 0 \in Levels /\ "idle" \in ClonePcs /\ {} \in SUBSET Trades
          /\ "none" \in Trades \cup {"none"}
    BY CloneAssumption DEF ClonePcs
  <2>2. Idle \in CloneMonitors
    BY <2>1, Zenon DEF Idle, CloneMonitors
  <2>3. Idle.pc = "idle" /\ Idle.todo = {}
    BY DEF Idle
  <2> QED
    BY <1>1, <2>2, <2>3
<1>10. op' \in CloneOperators /\ op'.pc = "idle"
  BY <1>1 DEF CloneOperators
<1>11. active' \subseteq Trades
  BY <1>1
<1>12. CloneTypes'
  <2>1. TypeOK'
    BY <1>0, <1>1, <1>6, <1>8, <1>9, <1>10, <1>11 DEF TypeOK, CloneRequests
  <2> QED
    BY <1>1, <1>9, <1>10, <2>1 DEF CloneTypes
<1>13. CloneLocks'
  BY <1>1, <1>9, <1>10 DEF CloneLocks, CloneSelling
<1>14. \A t \in Trades : /\ disk[t].left > 0 => disk[t].status \in {"OPEN", "WORKING"}
                         /\ Alive(disk[t]) <=> disk[t].left > 0
  BY <1>0 DEF CloneOpen, Alive
<1>15. CloneOpen'
  <2>1. active' = {t \in Trades : mem'[t].left > 0}
    BY <1>1, <1>5, <1>14
  <2> QED
    BY <1>1, <1>5, <1>14, <2>1 DEF CloneOpen
<1>16. CloneFresh'
  BY <1>0, <1>1, <1>5, <1>7 DEF CloneFresh
<1>17. CloneJournal'
  <2>1. \A t \in Trades : t \in active' <=> Alive(disk'[t])
    BY <1>1
  <2> QED
    BY <1>1, <1>5, <2>1 DEF CloneJournal, Journalled
<1>18. CloneCounts'
  <2>1. ~Steady' /\ ~Calm'
    BY <1>1 DEF Steady, Calm
  <2>2. paper' => "paper" \in risk'.of
    BY <1>0, <1>1 DEF CloneCounts
  <2> QED
    BY <1>7, <2>1, <2>2 DEF CloneCounts
<1>19. CloneAccount'
  BY <1>0, <1>1, <1>7, AccountSame
<1>20. CloneLadders'
  BY <1>0, <1>1, <1>5 DEF CloneLadders, OnTiers
<1> QED
  BY <1>12, <1>13, <1>15, <1>16, <1>17, <1>18, <1>19, <1>20 DEF CloneInv

\* The engine starts with nothing.
LEMMA CloneStart == Init => CloneInv
<1> SUFFICES ASSUME Init PROVE CloneInv
  OBVIOUS
<1>1. /\ mem = [t \in Trades |-> Absent] /\ disk = mem /\ active = {}
      /\ req = [t \in Trades |-> NoRequest] /\ signal = [t \in Trades |-> "none"]
      /\ book = [t \in Trades |-> [buy |-> "none", sold |-> 0, selling |-> 0]]
      /\ mon = Idle /\ op = [pc |-> "idle", trade |-> "none"] /\ lock = "free"
      /\ price = 0 /\ moves = 0 /\ paper = FALSE
      /\ risk \in [of : CloneScenarios, left : {CloneMaxFaults}]
  BY DEF Init
<1>2. \A t \in Trades : mem[t] = Absent /\ disk[t] = Absent
  BY <1>1
<1>3. /\ mem \in [Trades -> TradeRecord] /\ disk \in [Trades -> TradeRecord]
      /\ \A t \in Trades : mem[t].left = 0 /\ disk[t].left = 0 /\ mem[t].status = "none" /\ disk[t].status = "none"
      /\ \A t \in Trades : OnTiers(mem[t]) /\ OnTiers(disk[t])
  BY <1>1, <1>2, AbsentFacts
<1>4. \A t \in Trades : req[t] \in CloneRequests /\ req[t].pc = "new"
  BY <1>1 DEF NoRequest, CloneRequests
<1>5. req \in [Trades -> CloneRequests]
  BY <1>1, <1>4
<1>6. \A t \in Trades : book[t].buy = "none" /\ book[t].sold = 0 /\ book[t].selling = 0
  BY <1>1
<1>7. book \in CloneBooks
  BY <1>1 DEF CloneBooks
<1>8. mon \in CloneMonitors /\ mon.pc = "idle" /\ mon.todo = {}
  <2>1. FALSE \in BOOLEAN /\ 0 \in Levels /\ "idle" \in ClonePcs /\ {} \in SUBSET Trades
          /\ "none" \in Trades \cup {"none"}
    BY CloneAssumption DEF ClonePcs
  <2>2. Idle \in CloneMonitors
    BY <2>1, Zenon DEF Idle, CloneMonitors
  <2>3. Idle.pc = "idle" /\ Idle.todo = {}
    BY DEF Idle
  <2> QED
    BY <1>1, <2>2, <2>3
<1>9. op \in CloneOperators /\ op.pc = "idle"
  BY <1>1 DEF CloneOperators
<1>10. paper \in BOOLEAN /\ ~paper
  BY <1>1
<1>11. CloneMaxFaults \in Nat /\ 0 \in Levels /\ MaxMoves \in Nat
  BY CloneAssumption
<1>12. TypeOK
  BY <1>1, <1>3, <1>5, <1>7, <1>8, <1>9, <1>10, <1>11 DEF TypeOK, CloneBooks, CloneRequests
<1>13. CloneTypes
  BY <1>1, <1>8, <1>9, <1>11, <1>12 DEF CloneTypes
<1>14. CloneLocks
  BY <1>1, <1>8, <1>9 DEF CloneLocks, CloneSelling
<1>15. CloneOpen
  BY <1>1, <1>3 DEF CloneOpen
<1>16. CloneFresh
  BY <1>3, <1>4, <1>6 DEF CloneFresh
<1>17. CloneJournal
  BY <1>1, <1>3 DEF CloneJournal, Journalled, Alive
<1>18. CloneCounts
  <2>1. \A t \in Trades : Bought(t) = 0 /\ OnSale(t) = 0 /\ Pending(t) = 0
    BY <1>6, <1>8, <1>9 DEF Bought, OnSale, Pending, CloneSelling
  <2> QED
    BY <1>3, <1>4, <1>6, <1>10, <2>1 DEF CloneCounts
<1>19. CloneAccount
  <2>1. \A t \in Trades : Held[t] = 0
    BY <1>6 DEF Held, Bought
  <2>2. NeverOversold
    BY <1>12, <2>1, CoverFacts
  <2> QED
    BY <1>6, <2>2 DEF CloneAccount
<1>20. CloneLadders
  BY <1>3 DEF CloneLadders
<1> QED
  BY <1>13, <1>14, <1>15, <1>16, <1>17, <1>18, <1>19, <1>20 DEF CloneInv

\* Alerts are marked.
LEMMA MarkKeeps ==
  ASSUME CloneInv, NEW t \in Trades, RecordSignal(t) \/ LeaveSignal(t)
  PROVE  CloneInv'
<1>1. CASE RecordSignal(t)
  <2>1. /\ UNCHANGED <<mem, active, disk, book, mon, op, lock, price, moves, paper, risk>>
        /\ req[t].pc = "registered" /\ req' = [req EXCEPT ![t].pc = "done"]
    BY <1>1 DEF RecordSignal
  <2>2. PICK s : s = req[t].sig
    OBVIOUS
  <2>3. PICK q \in {"taken", "dismissed"} : q = "taken"
    OBVIOUS
  <2>4. signal' = [signal EXCEPT ![s] = q]
    BY <1>1, <2>2, <2>3 DEF RecordSignal
  <2> QED
    BY <2>1, <2>4, SignalKeeps
<1>2. CASE LeaveSignal(t)
  <2>1. UNCHANGED <<mem, active, disk, book, mon, op, lock, price, moves, paper, risk>> /\ req' = req
    BY <1>2 DEF LeaveSignal
  <2>2. PICK q \in {"taken", "dismissed"} : signal' = [signal EXCEPT ![t] = q]
    BY <1>2 DEF LeaveSignal
  <2> QED
    BY <2>1, <2>2, SignalKeeps
<1> QED
  BY <1>1, <1>2

\* Nothing happens.
LEMMA CloneStutter == CloneInv /\ UNCHANGED vars => CloneInv'
<1> SUFFICES ASSUME CloneInv, UNCHANGED vars PROVE CloneInv'
  OBVIOUS
<1>0. /\ CloneTypes /\ CloneLocks /\ CloneOpen /\ CloneFresh /\ CloneJournal /\ CloneCounts /\ CloneAccount
      /\ CloneLadders /\ TypeOK
  BY DEF CloneInv, CloneTypes
<1>1. UNCHANGED <<mem, active, disk, req, signal, book, mon, op, lock, price, moves, paper, risk>>
  BY DEF vars
<1>2. CloneTypes'
  BY <1>0, <1>1 DEF TypeOK, CloneTypes
<1>3. CloneLocks' /\ CloneOpen' /\ CloneFresh'
  BY <1>0, <1>1 DEF CloneLocks, CloneSelling, CloneOpen, CloneFresh
<1>4. CloneJournal'
  BY <1>0, <1>1 DEF CloneJournal, Journalled
<1>5. CloneCounts'
  <2>1. \A u \in Trades : Pending(u)' = Pending(u)
    BY <1>1 DEF Pending, CloneSelling
  <2> QED
    BY <1>0, <1>1, <2>1, CountsSame
<1>6. CloneAccount'
  BY <1>0, <1>1, AccountSame
<1>7. CloneLadders'
  BY <1>0, <1>1 DEF CloneLadders, OnTiers
<1> QED
  BY <1>2, <1>3, <1>4, <1>5, <1>6, <1>7 DEF CloneInv

\* Every step keeps the invariant of the clone trades.
LEMMA CloneStep == CloneInv /\ [Next]_vars => CloneInv'
<1> SUFFICES ASSUME CloneInv, [Next]_vars PROVE CloneInv'
  OBVIOUS
<1>1. CASE Polling
  <2>1. ASSUME NEW t \in Trades, AskEntry(t) PROVE CloneInv'
    BY <2>1, AskEntryKeeps
  <2> QED
    BY <1>1, <2>1, LookKeeps, PriceKeeps, CheckKeeps, BookSaleKeeps DEF Polling
<1>2. CASE Operator
  <2>1. ASSUME NEW t \in Trades, CancelWorking(t) \/ Flatten(t) \/ LeaveSignal(t) PROVE CloneInv'
    BY <2>1, CancelWorkingKeeps, FlattenKeeps, MarkKeeps
  <2> QED
    BY <1>2, <2>1, BookFlattenKeeps, ClearHistoryKeeps, EditLadderKeeps, TruncateKeeps, TogglePaperKeeps DEF Operator
<1>3. CASE Restart
  BY <1>3, RestartKeeps
<1>4. CASE Market
  <2>1. ASSUME NEW p \in Levels, Move(p) PROVE CloneInv'
    BY <2>1, MoveKeeps
  <2>2. ASSUME NEW t \in Trades, FillBuy(t) \/ FillSell(t) PROVE CloneInv'
    BY <2>2, FillBuyKeeps, FillSellKeeps
  <2> QED
    BY <1>4, <2>1, <2>2 DEF Market
<1>5. ASSUME NEW t \in Trades, Request(t) PROVE CloneInv'
  <2>1. ASSUME NEW s \in Trades, Take(t, s) PROVE CloneInv'
    BY <2>1, TakeKeeps
  <2> QED
    BY <1>5, <2>1, WebhookKeeps, RegisterKeeps, MarkKeeps DEF Request
<1>6. CASE UNCHANGED vars
  BY <1>6, CloneStutter
<1> QED
  BY <1>1, <1>2, <1>3, <1>4, <1>5, <1>6 DEF Next

\* The clone-trades engine keeps its invariant: what the lock, the books,
\* the journal and the ladders say of a trade agree (engine.py).
THEOREM CloneInvariant == Spec => []CloneInv
<1>1. CloneInv /\ [Next]_vars => CloneInv'
  BY CloneStep
<1> QED
  BY CloneStart, <1>1, PTL DEF Spec

\* The account never goes short and the books agree with it, where no sale
\* rests beside a queued entry or across a crash (_place_single_leg_order).
THEOREM AccountIsSound ==
  ASSUME \A sc \in CloneScenarios : "resting" \in sc => sc \cap {"working", "crash"} = {}
  PROVE  Spec => []AccountSound
<1>1. ASSUME CloneInv PROVE NeverOversold
  <2>0. CloneTypes /\ TypeOK /\ CloneCounts /\ CloneAccount /\ risk.of \in CloneScenarios
    BY <1>1 DEF CloneInv, CloneTypes
  <2>1. CASE "resting" \notin risk.of
    BY <2>0, <2>1 DEF CloneAccount
  <2>2. CASE "resting" \in risk.of
    <3>1. Steady
      BY <2>0, <2>2 DEF Steady
    <3>2. ASSUME NEW u \in Trades PROVE Held[u] >= 0
      <4>1. mem[u].left - Pending(u) <= Bought(u) - OnSale(u)
        BY <2>0, <3>1 DEF CloneCounts
      <4>2. mem[u].left \in Nat /\ Pending(u) \in 0 .. mem[u].left
        BY <2>0, PendingFacts
      <4>3. Held[u] = Bought(u) - book[u].sold /\ Bought(u) \in Nat /\ book[u].sold \in Nat /\ book[u].selling \in Nat
        BY <2>0, HeldFacts
      <4>4. OnSale(u) = book[u].sold + book[u].selling
        BY DEF OnSale
      <4> QED
        BY <4>1, <4>2, <4>3, <4>4
    <3> QED
      BY <2>0, <3>2, CoverFacts
  <2> QED
    BY <2>1, <2>2
<1>2. ASSUME CloneInv PROVE BooksAgree
  <2> SUFFICES ASSUME Calm, Free, NEW t \in Trades, mem[t].status # "none"
               PROVE  mem[t].left = Bought(t) - OnSale(t)
    BY DEF BooksAgree, Calm
  <2>1. CloneTypes /\ TypeOK /\ CloneLocks /\ CloneCounts
    BY <1>2 DEF CloneInv, CloneTypes
  <2>2. Pending(t) = 0
    BY <2>1 DEF Pending, CloneLocks, Free
  <2>3. Bought(t) - OnSale(t) = mem[t].left - Pending(t)
    BY <2>1 DEF CloneCounts
  <2>4. mem[t].left \in Nat
    BY <2>1, PendingFacts
  <2> QED
    BY <2>2, <2>3, <2>4
<1>3. CloneInv => AccountSound
  BY <1>1, <1>2 DEF AccountSound, CloneInv, CloneTypes
<1> QED
  BY <1>3, CloneInvariant, PTL

\* The journal has every open trade as it is, and every contract of an open
\* trade has a target (_save_trade, distribute_contracts_across_tiers).
THEOREM TradesAreKept == Spec => []TradesKept
<1>1. ASSUME CloneInv PROVE JournalRecovers
  <2>1. CloneLocks /\ CloneJournal
    BY <1>1 DEF CloneInv
  <2> QED
    BY <2>1 DEF JournalRecovers, CloneLocks, CloneJournal, Journalled, Free
<1>2. ASSUME CloneInv PROVE NothingRides
  <2>1. CloneLadders /\ CloneOpen /\ TypeOK
    BY <1>2 DEF CloneInv, CloneTypes
  <2>2. \A t \in active : t \in Trades /\ mem[t].left > 0
    BY <2>1 DEF CloneOpen
  <2>3. \A t \in active : mem[t].left # 0
    BY <2>2
  <2> QED
    BY <2>1, <2>2, <2>3 DEF NothingRides, CloneLadders, OnTiers
<1>3. CloneInv => TradesKept
  BY <1>1, <1>2 DEF TradesKept
<1> QED
  BY <1>3, CloneInvariant, PTL
==============================================================================
