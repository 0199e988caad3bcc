--------------------------- MODULE ExitSide_proofs ---------------------------
(***************************************************************************)
(* Proofs about the two views of an exit.                                  *)
(*                                                                         *)
(* TradeExit, for every size of the trade, every number of orders and      *)
(* faults, with and without contracts of other trades in the account, in   *)
(* the scenarios where orders fill as a whole and the broker answers       *)
(* position queries: there no order is forgotten, the count is right and   *)
(* the short leg is never naked.                                           *)
(*                                                                         *)
(* Why it holds: at most one order of the trade is live, and it is backed  *)
(* by the contracts it would close (Legs).  A new order keeps that true    *)
(* for one of two reasons.  Without crashes the trade JSON, or the routine *)
(* about to save it, names every live order and every fill that counts     *)
(* (Known), and no routine sends an order beside one it names.  With       *)
(* crashes an id may be lost, but then the account holds no contracts of   *)
(* other trades and the broker refuses the second order.                   *)
(*                                                                         *)
(* ExitCommands, for every set of trades and every bound:                  *)
(* ManualExcludesBreach is not inductive.  A claim looks at exit_job_id,   *)
(* not at the pool: it is kept out of a running breach only if the id is   *)
(* set as long as the job has not cleared it (Owned).  The id would be     *)
(* reset under a running job by a refused submit, so the places that       *)
(* submit must not meet a job with an id: the claims test the id, and the  *)
(* recovery route is only reached without a job (RouteIsFree), which stays *)
(* true because the scan thread alone starts jobs.                         *)
(***************************************************************************)
EXTENDS TradeExit, ExitCommands, FiniteSetTheorems, TLAPS

Clear == "partial" \notin budget.of /\ "query" \notin budget.of

-----------------------------------------------------------------------------
(* The inductive invariant. *)

\* an order is for the whole trade and has filled entirely or not at all
WholeOrders ==
  \A i \in Ids :
    /\ orders[i].st # "free" => orders[i].kind \in Kinds /\ orders[i].qty = Q
    /\ orders[i].filled = IF orders[i].st = "filled" THEN Q ELSE 0

\* ids are given in order
Numbered == \E k \in 0..MaxOrders : \A i \in Ids : orders[i].st # "free" <=> i <= k

OneLive == \A i, j \in Live : i = j

\* what a live order closes is there, what a filled one closed is gone, and
\* the long leg is sold alone only after the short leg is gone
Legs ==
  /\ short \in {0, Q} /\ long \in {0, Q} /\ short <= long
  /\ \A i \in Live :
       /\ orders[i].kind = "long" => t.status = "closing" /\ t.shortClosed
       /\ orders[i].kind # "long" => short = Q
       /\ long = Q
  /\ \A i \in Ids : orders[i].st = "filled" =>
       /\ orders[i].kind # "long" => short = 0
       /\ orders[i].kind \in {"spread", "long"} => long = 0

Book == /\ BrokerTypeOK /\ budget \in [of : Scenarios, left : 0..MaxFaults] /\ Clear
        /\ WholeOrders /\ Numbered /\ OneLive

JsonType ==
  t \in [status : {"open", "closing", "closed"},
         handler : {"none", "manual", "breach", "exchange"},
         qty : {Q}, stop : {NoOrder} \union Ids, type : {"none", "stop", "limit"},
         stopQty : {0, Q}, rec : [Ids -> {0}], remaining : {None, 0, Q},
         shortClosed : BOOLEAN, spread : {NoOrder} \union Ids,
         long : {NoOrder} \union Ids, longDone : {0}, killed : BOOLEAN]

\* both legs are being closed by one order
SpreadClosing == t.status = "closing" /\ ~t.shortClosed

OnlySpreads == short = long /\ \A i \in Live : orders[i].kind = "spread"

Named ==
  /\ t.stop # NoOrder => orders[t.stop].st # "free" /\ orders[t.stop].kind # "long" /\ t.stopQty = Q
  /\ t.stop = NoOrder => t.type = "none"
  /\ t.spread # NoOrder => orders[t.spread].st # "free" /\ orders[t.spread].kind = "spread"
  /\ t.long # NoOrder => orders[t.long].st # "free" /\ orders[t.long].kind = "long"

Json ==
  /\ t.status = "open" => ~t.shortClosed /\ t.spread = NoOrder /\ t.long = NoOrder
  /\ t.status = "closing" /\ t.shortClosed => t.spread = NoOrder
  /\ SpreadClosing => t.stop = NoOrder /\ t.long = NoOrder /\ t.handler # "none" /\ OnlySpreads
  /\ t.shortClosed => short = 0 /\ (t.remaining = 0 \/ Shared = 0)
  /\ ~t.shortClosed /\ t.status # "closed" => t.remaining \in {None, Q}
  /\ t.status = "closed" => short = 0 /\ long = 0

\* the stop that a routine wants to replace does not work any more
StopIsOff == t.stop = NoOrder \/ orders[t.stop].st = "cancelled"

LocType == loc \in [why : Whys, oid : {NoOrder} \union Ids, seen : {0}, qty : {0, Q},
                    new : {NoOrder} \union Ids]

\* where the owner of the trade is, and what it may rely on there
Recording ==
  LET form == orders[loc.new].kind IN
  /\ loc.new \in Ids /\ orders[loc.new].st # "free" /\ loc.qty = Q
  /\ \/ form = "stop" /\ loc.why \in {"ensure", "update"} /\ t.status = "open" /\ StopIsOff
     \/ /\ form = "limit" /\ loc.why \in {"breach", "reprice"} /\ t.status = "open"
        /\ loc.oid = t.stop /\ t.stop # NoOrder /\ StopIsOff
     \/ /\ form = "spread" /\ loc.why \in {"kill", "poll"} /\ ~t.shortClosed
        /\ t.stop = NoOrder /\ t.spread = NoOrder /\ t.handler # "none" /\ OnlySpreads
     \/ /\ form = "long" /\ loc.why = "chase" /\ t.status = "closing" /\ t.shortClosed
        /\ t.long = NoOrder

Here ==
  /\ pc \in Steps \ {"partial"}
  /\ pc # "idle" => t.status # "closed"
  /\ pc \in {"cancel", "confirm", "filled"} =>
       /\ loc.oid = t.stop /\ t.stop # NoOrder
       /\ loc.why \in {"breach", "reprice", "update", "kill"}
       /\ loc.why # "kill" => t.status = "open"
       /\ loc.why = "kill" => t.handler # "none"
  /\ pc = "filled" => orders[t.stop].st = "filled"
  /\ pc = "limit" => /\ loc.why \in {"breach", "reprice"} /\ t.status = "open"
                     /\ loc.oid = t.stop /\ t.stop # NoOrder /\ StopIsOff
  /\ pc \in {"query", "stop"} => loc.why \in {"ensure", "update"} /\ t.status = "open" /\ StopIsOff
  /\ pc = "stop" => loc.qty = Q
  /\ pc = "kill" => loc.why = "kill" /\ ~SpreadClosing /\ t.handler # "none"
  /\ pc = "spread" => /\ t.stop = NoOrder /\ t.handler # "none"
                      /\ \/ loc.why = "kill" /\ ~SpreadClosing
                         \/ loc.why = "poll" /\ SpreadClosing /\ t.spread = NoOrder
  /\ pc = "long" => /\ loc.why = "chase" /\ t.status = "closing" /\ t.shortClosed
                    /\ t.long = NoOrder
  /\ pc = "record" => Recording

\* the order whose id the owner is about to save
New == IF pc = "record" THEN {loc.new} ELSE {}

\* unless ids are lost, every live order is named, and so is the one that
\* closed a leg as long as the trade JSON does not say so itself
Known ==
  ~Crashes =>
    /\ Live \subseteq {t.stop, t.spread, t.long} \union New
    /\ short = 0 => \/ t.shortClosed \/ t.status = "closed"
                    \/ \E i \in ({t.stop, t.spread} \union New) \ {NoOrder} : orders[i].st = "filled"
    /\ long = 0 => \/ t.status = "closed"
                   \/ \E i \in ({t.spread, t.long} \union New) \ {NoOrder} :
                        orders[i].st = "filled" /\ orders[i].kind \notin ShortKinds
    /\ t.stop # NoOrder => orders[t.stop].kind \in ShortKinds

IInv == Book /\ Legs /\ JsonType /\ Named /\ Json /\ LocType /\ Here /\ Known

-----------------------------------------------------------------------------
(* Contracts and ids. *)

LEMMA Sizes == Q \in Nat /\ Q > 0 /\ Q # 0 /\ MaxOrders \in Nat /\ MaxFaults \in Nat
               /\ Others \in Nat /\ Shared \in Nat
BY SizeAssumption, BudgetAssumption DEF Shared

LEMMA EmptyCount == Cardinality({}) = 0
BY FS_EmptySet

\* Nothing is recorded, so an open trade still has all its contracts.
LEMMA Quantities ==
  ASSUME NEW r, r.qty = Q, r.rec \in [Ids -> {0}], r.longDone = 0
  PROVE  /\ r.remaining \in {None, Q} => StopQty(r) = Q
         /\ r.remaining = 0 => StopQty(r) = 0
         /\ LongQty(r) = IF r.status = "closed" THEN 0 ELSE Q
<1>1. {c \in Ids \X (1..Q) : c[2] <= r.rec[c[1]]} = {}
  BY Sizes
<1>2. Recorded(r) = 0
  BY <1>1, EmptyCount DEF Recorded
<1> QED
  BY <1>2, Sizes DEF StopQty, LongQty, NonNegative, None

\* A live order of S offers all its contracts.
LEMMA OfferedByOne ==
  ASSUME Book, NEW S \in SUBSET Live, NEW i \in S
  PROVE  Cardinality(Offered(S)) \in Nat /\ Cardinality(Offered(S)) >= Q
<1>1. i \in Ids /\ orders[i].qty = Q /\ orders[i].filled = 0
  BY DEF Book, WholeOrders, Live
<1>2. Rest(i) = Q
  BY <1>1, Sizes DEF Rest
<1>3. {i} \X (1..Q) \subseteq Offered(S)
  BY <1>2, Sizes DEF Offered
<1>4. IsFiniteSet(1..Q) /\ Cardinality(1..Q) = Q /\ IsFiniteSet(Ids)
  BY Sizes, FS_Interval DEF Ids
<1>5. Cardinality({i} \X (1..Q)) = Q
  <2>1. IsFiniteSet({i}) /\ Cardinality({i}) = 1
    BY FS_Singleton
  <2>2. Cardinality({i} \X (1..Q)) = Cardinality({i}) * Cardinality(1..Q)
    BY <1>4, <2>1, FS_Product
  <2>3. Cardinality({i} \X (1..Q)) = 1 * Q
    BY <1>4, <2>1, <2>2
  <2> QED
    BY <2>3, Sizes
<1>6. IsFiniteSet(Offered(S))
  <2>1. IsFiniteSet(Ids \X (1..Q))
    BY <1>4, FS_Product
  <2>2. Offered(S) \subseteq Ids \X (1..Q)
    BY DEF Offered, Live
  <2> QED
    BY <2>1, <2>2, FS_Subset
<1> QED
  BY <1>3, <1>5, <1>6, FS_Subset, FS_CardinalityType

\* The next id is that of an order that was not sent yet.
LEMMA NextIsFree ==
  ASSUME Book, NextId \in Ids
  PROVE  /\ orders[NextId].st = "free"
         /\ \A i \in Ids : orders[i].st # "free" <=> i < NextId
<1>1. PICK k \in 0..MaxOrders : \A i \in Ids : orders[i].st # "free" <=> i <= k
  BY DEF Book, Numbered
<1>2. {i \in Ids : orders[i].st # "free"} = 1..k
  BY <1>1, Sizes DEF Ids
<1>3. Cardinality(1..k) = k
  BY <1>1, FS_Interval, Sizes
<1>4. NextId = k + 1
  BY <1>2, <1>3 DEF NextId
<1> QED
  BY <1>1, <1>4, Sizes DEF Ids

-----------------------------------------------------------------------------
(* What the broker calls do to the book. *)

\* An accepted order of the whole size is the only live one if none was.
LEMMA Accepted ==
  ASSUME Book, Live = {}, NEW form \in Kinds, Accept(form, Q)
  PROVE  /\ Book' /\ NextId \in Ids /\ Live' = {NextId} /\ orders[NextId].st = "free"
         /\ orders'[NextId] = [kind |-> form, qty |-> Q, filled |-> 0, st |-> "working"]
         /\ \A i \in Ids \ {NextId} : orders'[i] = orders[i]
         /\ UNCHANGED <<short, long, budget>>
<1> DEFINE n == NextId
           o == [kind |-> form, qty |-> Q, filled |-> 0, st |-> "working"]
<1>1. n \in Ids /\ orders' = [orders EXCEPT ![n] = o] /\ UNCHANGED <<short, long, budget>>
  BY DEF Accept
<1>2. orders[n].st = "free" /\ \A i \in Ids : orders[i].st # "free" <=> i < n
  BY <1>1, NextIsFree
<1> HIDE DEF n
<1>3. orders'[n] = o /\ \A i \in Ids \ {n} : orders'[i] = orders[i]
  BY <1>1 DEF Book, BrokerTypeOK
<1>4. Live' = {n}
  BY <1>1, <1>3 DEF Live
<1>5. BrokerTypeOK'
  BY <1>1, Sizes DEF Book, BrokerTypeOK
<1>6. WholeOrders'
  BY <1>1, <1>3 DEF Book, WholeOrders
<1>7. Numbered'
  <2>1. n \in 0..MaxOrders
    BY <1>1 DEF Ids
  <2>2. \A i \in Ids : orders'[i].st # "free" <=> i <= n
    BY <1>1, <1>2, <1>3 DEF Ids
  <2> QED
    BY <2>1, <2>2 DEF Numbered
<1>8. OneLive'
  BY <1>4 DEF OneLive
<1> QED
  BY <1>1, <1>2, <1>3, <1>4, <1>5, <1>6, <1>7, <1>8 DEF Book, Clear, n

\* A step that leaves the orders and the legs alone, whether or not it is a fault.
LEMMA Quiet ==
  ASSUME Book, UNCHANGED <<orders, short, long>>,
         UNCHANGED budget \/ \E f \in {"timeout", "reject", "query", "quote", "reprice", "update", "crash"} : Fault(f)
  PROVE  /\ Book' /\ Live' = Live /\ Crashes' = Crashes /\ Shared' = Shared
         /\ budget'.of = budget.of
<1>1. budget' \in [of : Scenarios, left : 0..MaxFaults] /\ budget'.of = budget.of
  BY Sizes DEF Book, Fault
<1> QED
  BY <1>1 DEF Book, BrokerTypeOK, Clear, WholeOrders, Numbered, OneLive, Live, Crashes, Shared

\* A cancel request leaves the order live.
LEMMA CancelRequested ==
  ASSUME Book, NEW i \in Ids, orders' = RequestCancelOf(i), UNCHANGED <<short, long>>,
         UNCHANGED budget \/ \E f \in {"reprice"} : Fault(f)
  PROVE  /\ Book' /\ Live' = Live /\ Crashes' = Crashes /\ Shared' = Shared
         /\ \A j \in Ids : /\ orders'[j].kind = orders[j].kind
                           /\ orders'[j].st = IF j = i /\ orders[j].st = "working" THEN "canceling"
                                                                            ELSE orders[j].st
<1>1. budget' \in [of : Scenarios, left : 0..MaxFaults] /\ budget'.of = budget.of
  BY Sizes DEF Book, Fault
<1>2. orders' \in [Ids -> [kind : Kinds \union {"none"}, qty : 0..Q, filled : 0..Q,
                  st : {"free", "working", "canceling", "filled", "cancelled", "dead"}]]
  BY DEF Book, BrokerTypeOK, RequestCancelOf
<1>3. \A j \in Ids : /\ orders'[j].kind = orders[j].kind /\ orders'[j].qty = orders[j].qty
                     /\ orders'[j].filled = orders[j].filled
                     /\ orders'[j].st = IF j = i /\ orders[j].st = "working" THEN "canceling"
                                                                      ELSE orders[j].st
  BY DEF Book, BrokerTypeOK, RequestCancelOf
<1>4. Live' = Live
  BY <1>3 DEF Live
<1>5. WholeOrders' /\ Numbered' /\ OneLive'
  BY <1>3, <1>4 DEF Book, WholeOrders, Numbered, OneLive
<1> QED
  BY <1>1, <1>2, <1>3, <1>4, <1>5 DEF Book, BrokerTypeOK, Clear, Crashes, Shared

-----------------------------------------------------------------------------
(* The exchange. *)

\* The one live order leaves the book.
LEMMA OrderEnds ==
  ASSUME IInv, UNCHANGED <<t, pc, loc>>, Book', budget'.of = budget.of,
         NEW i \in Live, NEW s \in {"cancelled", "dead", "filled"},
         orders'[i].st = s, orders'[i].kind = orders[i].kind,
         \A j \in Ids \ {i} : orders'[j] = orders[j],
         short' = (IF s = "filled" /\ orders[i].kind # "long" THEN 0 ELSE short),
         long' = (IF s = "filled" /\ orders[i].kind \in {"spread", "long"} THEN 0 ELSE long)
  PROVE  IInv'
<1>1. Live = {i} /\ i \in Ids /\ orders[i].kind \in Kinds
  BY DEF IInv, Book, OneLive, Live, WholeOrders
<1>2. Live' = {}
  BY <1>1 DEF Live
<1>3. Crashes' = Crashes /\ Shared' = Shared
  BY DEF Crashes, Shared
<1>4. Legs'
  <2>1. /\ short \in {0, Q} /\ long \in {0, Q} /\ short <= long
        /\ orders[i].kind = "long" => short = 0
    BY <1>1 DEF IInv, Legs, Json
  <2>2. short' \in {0, Q} /\ long' \in {0, Q} /\ short' <= long'
    <3>1. \/ short' = short /\ long' = long
          \/ short' = 0 /\ long' \in {0, long}
          \/ short' = short /\ short = 0 /\ long' = 0
      BY <1>1, <2>1 DEF Kinds, ShortKinds
    <3>2. CASE short' = short /\ long' = long
      BY <2>1, <3>2
    <3>3. CASE short' = 0 /\ long' \in {0, long}
      <4>1. 0 <= Q /\ 0 <= 0
        BY Sizes
      <4> QED
        BY <2>1, <3>3, <4>1
    <3>4. CASE short' = short /\ short = 0 /\ long' = 0
      BY <3>4
    <3> QED
      BY <3>1, <3>2, <3>3, <3>4
  <2>3. ASSUME NEW j \in Ids, orders'[j].st = "filled"
        PROVE  /\ orders'[j].kind # "long" => short' = 0
               /\ orders'[j].kind \in {"spread", "long"} => long' = 0
    BY <2>3 DEF IInv, Legs
  <2> QED
    BY <1>2, <2>2, <2>3 DEF Legs
<1>5. Named' /\ JsonType' /\ LocType'
  BY <1>1 DEF IInv, Named, JsonType, LocType, Live
<1>6. OnlySpreads => OnlySpreads'
  BY <1>1, <1>2 DEF OnlySpreads
<1>7. Json'
  BY <1>1, <1>3, <1>6, Sizes DEF IInv, Legs, Json, SpreadClosing
<1>8. /\ StopIsOff => StopIsOff'
      /\ orders[t.stop].st = "filled" /\ t.stop # NoOrder => orders'[t.stop].st = "filled"
  BY <1>1 DEF IInv, JsonType, StopIsOff, Live
<1>9. Here'
  <2>1. Recording => Recording'
    BY <1>1, <1>6, <1>8 DEF Recording, Live
  <2> QED
    BY <1>8, <2>1 DEF IInv, Here, SpreadClosing
<1>10. Known'
  <2>1. New' = New
    BY DEF New
  <2>2. ASSUME ~Crashes PROVE i \in {t.stop, t.spread, t.long} \union New
    BY <1>1, <2>2 DEF IInv, Known
  <2>3. ASSUME ~Crashes, short' = 0
        PROVE  \/ t.shortClosed \/ t.status = "closed"
               \/ \E j \in ({t.stop, t.spread} \union New) \ {NoOrder} : orders'[j].st = "filled"
    <3>1. CASE short = 0
      <4>1. ASSUME NEW j \in ({t.stop, t.spread} \union New) \ {NoOrder}, orders[j].st = "filled"
            PROVE  orders'[j].st = "filled"
        <5>1. j \in Ids
          BY DEF IInv, JsonType, New, Here, Recording
        <5> QED
          BY <1>1, <4>1, <5>1 DEF Live
      <4> QED
        BY <2>3, <3>1, <4>1 DEF IInv, Known
    <3>2. CASE short # 0
      <4>1. s = "filled" /\ orders[i].kind # "long"
        BY <2>3, <3>2
      <4>2. i # t.long /\ i # NoOrder
        BY <1>1, <4>1 DEF IInv, Named, Ids, NoOrder
      <4> QED
        BY <2>2, <2>3, <4>1, <4>2
    <3> QED
      BY <3>1, <3>2
  <2>4. ASSUME ~Crashes, long' = 0
        PROVE  \/ t.status = "closed"
               \/ \E j \in ({t.spread, t.long} \union New) \ {NoOrder} :
                    orders'[j].st = "filled" /\ orders'[j].kind \notin ShortKinds
    <3>1. CASE long = 0
      <4>1. ASSUME NEW j \in ({t.spread, t.long} \union New) \ {NoOrder}, orders[j].st = "filled"
            PROVE  orders'[j] = orders[j]
        <5>1. j \in Ids
          BY DEF IInv, JsonType, New, Here, Recording
        <5> QED
          BY <1>1, <4>1, <5>1 DEF Live
      <4> QED
        BY <2>4, <3>1, <4>1 DEF IInv, Known
    <3>2. CASE long # 0
      <4>1. s = "filled" /\ orders[i].kind \in {"spread", "long"} /\ i # NoOrder
        BY <1>1, <2>4, <3>2 DEF Ids, NoOrder
      <4>2. i # t.stop /\ orders'[i].kind \notin ShortKinds
        BY <2>4, <4>1 DEF IInv, Known, ShortKinds
      <4> QED
        BY <2>2, <2>4, <4>1, <4>2
    <3> QED
      BY <3>1, <3>2
  <2>5. ASSUME ~Crashes, t.stop # NoOrder PROVE orders'[t.stop].kind \in ShortKinds
    BY <2>5 DEF IInv, Known, JsonType
  <2> QED
    BY <1>2, <1>3, <2>1, <2>3, <2>4, <2>5 DEF Known
<1> QED
  BY <1>4, <1>5, <1>7, <1>9, <1>10 DEF IInv

LEMMA MarketKeeps == IInv /\ Market => IInv'
<1> SUFFICES ASSUME IInv, NEW i \in Ids, UNCHANGED <<t, pc, loc>>,
                    TakeCancel(i) \/ Expire(i) \/ \E n \in 1..Q : Fill(i, n)
             PROVE  IInv'
  BY DEF Market, Exchange
<1> DEFINE order == [kind : Kinds \union {"none"}, qty : 0..Q, filled : 0..Q,
                     st : {"free", "working", "canceling", "filled", "cancelled", "dead"}]
           Ends(s) == /\ orders'[i].st = s /\ orders'[i].kind = orders[i].kind
                      /\ orders'[i].qty = orders[i].qty
                      /\ orders'[i].filled = (IF s = "filled" THEN Q ELSE 0)
                      /\ \A j \in Ids \ {i} : orders'[j] = orders[j]
                      /\ orders' \in [Ids -> order]
                      /\ budget' \in [of : Scenarios, left : 0..MaxFaults]
                      /\ budget'.of = budget.of
<1>1. ASSUME NEW s \in {"cancelled", "dead", "filled"}, i \in Live, Ends(s),
             short' = (IF s = "filled" /\ orders[i].kind # "long" THEN 0 ELSE short),
             long' = (IF s = "filled" /\ orders[i].kind \in {"spread", "long"} THEN 0 ELSE long)
      PROVE  IInv'
  <2>1. Live' = {}
    BY <1>1 DEF IInv, Book, OneLive, Live
  <2>2. short' \in -Others..Q /\ long' \in -Others..Q
    <3>1. short' \in {0, Q} /\ long' \in {0, Q}
      BY <1>1 DEF IInv, Legs
    <3>2. 0 \in -Others..Q /\ Q \in -Others..Q
      BY Sizes
    <3> QED
      BY <3>1, <3>2
  <2>3. WholeOrders' /\ Numbered' /\ OneLive'
    BY <1>1, <2>1 DEF IInv, Book, WholeOrders, Numbered, OneLive, Live
  <2>4. Book'
    BY <1>1, <2>2, <2>3 DEF IInv, Book, BrokerTypeOK, Clear
  <2> QED
    BY <1>1, <2>4, OrderEnds
<1>2. CASE TakeCancel(i)
  <2>1. i \in Live /\ Ends("cancelled")
    BY <1>2, Sizes DEF TakeCancel, IInv, Book, BrokerTypeOK, WholeOrders, Live
  <2> QED
    BY <1>1, <1>2, <2>1 DEF TakeCancel
<1>3. CASE Expire(i)
  <2>1. i \in Live /\ Ends("dead")
    BY <1>3, Sizes DEF Expire, Fault, IInv, Book, BrokerTypeOK, WholeOrders, Live
  <2> QED
    BY <1>1, <1>3, <2>1 DEF Expire
<1>4. ASSUME NEW n \in 1..Q, Fill(i, n) PROVE IInv'
  <2>1. i \in Live /\ orders[i].filled = 0 /\ orders[i].qty = Q /\ orders[i].kind \in Kinds
    BY <1>4 DEF Fill, IInv, Book, WholeOrders, Live
  <2>2. n = Q /\ Rest(i) = Q
    BY <1>4, <2>1, Sizes DEF Fill, Rest, Fault, IInv, Book, Clear
  <2>3. orders' = [orders EXCEPT ![i].filled = Q, ![i].st = "filled"] /\ UNCHANGED budget
    <3>1. orders[i].filled + n = Q /\ n = Rest(i) /\ ~(n < Rest(i))
      BY <2>1, <2>2, Sizes
    <3> QED
      BY <1>4, <3>1 DEF Fill
  <2>4. Ends("filled")
    BY <2>1, <2>3, Sizes, ZenonT(60) DEF IInv, Book, BrokerTypeOK
  <2>5. /\ i \in Buying <=> orders[i].kind # "long"
        /\ i \in Selling <=> orders[i].kind \in {"spread", "long"}
    BY <2>1 DEF Buying, Selling, Kinds, ShortKinds
  <2>6. orders[i].kind # "long" => short = Q
    BY <2>1 DEF IInv, Legs
  <2>7. long = Q
    BY <2>1 DEF IInv, Legs
  <2>8. short' = (IF orders[i].kind # "long" THEN 0 ELSE short)
    BY <1>4, <2>2, <2>5, <2>6, Sizes DEF Fill
  <2>9. long' = (IF orders[i].kind \in {"spread", "long"} THEN 0 ELSE long)
    BY <1>4, <2>2, <2>5, <2>7, Sizes DEF Fill
  <2> QED
    BY <1>1, <2>1, <2>4, <2>8, <2>9
<1> QED
  BY <1>2, <1>3, <1>4

-----------------------------------------------------------------------------
(* Steps of the owner that leave the orders and the legs alone. *)

Faults == {"timeout", "reject", "query", "quote", "reprice", "update", "crash"}

Still == /\ UNCHANGED <<orders, short, long>>
         /\ UNCHANGED budget \/ \E f \in Faults : Fault(f)

\* Such a step keeps the book; what the trade JSON says decides the rest.
LEMMA StillBook ==
  ASSUME IInv, Still
  PROVE  /\ Book' /\ Live' = Live /\ Crashes' = Crashes /\ Shared' = Shared
         /\ budget'.of = budget.of /\ UNCHANGED <<orders, short, long>>
BY Quiet DEF IInv, Still, Faults

LEMMA SameJson ==
  ASSUME IInv, Still, UNCHANGED t
  PROVE  /\ (Book /\ Legs /\ JsonType /\ Named /\ Json)'
         /\ pc # "record" /\ pc' # "record" => Known'
<1>1. (Book /\ Legs /\ JsonType /\ Named /\ Json)'
  BY StillBook DEF IInv, Legs, JsonType, Named, Json, SpreadClosing, OnlySpreads
<1>2. ASSUME pc # "record", pc' # "record" PROVE Known'
  <2>1. New = {} /\ New' = {}
    BY <1>2 DEF New
  <2> QED
    BY <2>1, StillBook DEF IInv, Known
<1> QED
  BY <1>1, <1>2

\* A routine that ends leaves nothing to rely on but the trade JSON.
LEMMA Returned ==
  ASSUME NEW r, Return(r)
  PROVE  LocType' /\ Here' /\ New' = {} /\ t' = r /\ pc' = "idle"
BY Sizes DEF Return, NoLoc, LocType, Here, Steps, Whys, New

\* A routine that gives up changes nothing.
LEMMA GivesUp ==
  ASSUME IInv, Still, Return(t), pc # "record" \/ Crashes
  PROVE  IInv'
<1>1. LocType' /\ Here' /\ UNCHANGED t /\ pc' = "idle"
  BY Returned
<1>2. Crashes' = Crashes
  BY StillBook
<1>3. Known'
  BY <1>1, <1>2, SameJson DEF Known
<1> QED
  BY <1>1, <1>3, SameJson DEF IInv

\* A stop that is off is forgotten without loss.
LEMMA StopForgotten ==
  ASSUME IInv, Still, t' = ClearStop(t), ~SpreadClosing, pc # "record", pc' # "record",
         t.stop = NoOrder \/ orders[t.stop].st \in {"cancelled", "dead"}
  PROVE  (Book /\ Legs /\ JsonType /\ Named /\ Json /\ Known)'
<1>1. t' = [t EXCEPT !.stop = NoOrder, !.type = "none", !.stopQty = 0]
  BY DEF ClearStop
<1>2. JsonType'
  BY <1>1, Sizes DEF IInv, JsonType
<1>3. /\ t'.stop = NoOrder /\ t'.type = "none" /\ t'.status = t.status /\ t'.spread = t.spread
      /\ t'.long = t.long /\ t'.shortClosed = t.shortClosed /\ t'.handler = t.handler
      /\ t'.remaining = t.remaining
  BY <1>1 DEF IInv, JsonType
<1>4. (Legs /\ Named /\ Json)'
  BY <1>3, StillBook DEF IInv, Legs, Named, Json, SpreadClosing, OnlySpreads
<1>5. Known'
  <2>1. New = {} /\ New' = {}
    BY DEF New
  <2>2. t.stop \notin Live
    BY DEF Live, Ids, NoOrder
  <2> QED
    BY <1>3, <2>1, <2>2, StillBook DEF IInv, Known
<1> QED
  BY <1>2, <1>4, <1>5, StillBook

\* A stop that filled closes the short leg.
LEMMA StopDidFill ==
  ASSUME IInv, Still, pc # "record", NEW r, Return(r), r \in {ShortFilled(t), SignBreach(ShortFilled(t)),
             [ShortFilled(t) EXCEPT !.handler = "exchange"]},
         t.status = "open" \/ ~SpreadClosing,
         t.stop # NoOrder, orders[t.stop].st = "filled"
  PROVE  IInv'
<1>1. short = 0
  BY DEF IInv, Legs, Named, JsonType
<1>2. LocType' /\ Here' /\ New' = {} /\ t' = r
  BY Returned
<1>3. New = {}
  BY DEF New
<1>4. CASE t.status = "open"
  <2>1. PICK h \in {"none", "manual", "breach", "exchange"} :
          t' = [t EXCEPT !.status = "closing", !.shortClosed = TRUE, !.remaining = 0, !.handler = h]
    <3>1. ~t.shortClosed /\ t.handler \in {"none", "manual", "breach", "exchange"}
      BY <1>4 DEF IInv, Json, JsonType
    <3>2. ShortFilled(t) = [t EXCEPT !.status = "closing", !.shortClosed = TRUE, !.remaining = 0]
      BY <1>4, <3>1 DEF IInv, JsonType, ShortFilled, ShortGone
    <3>3. \E h \in {"none", "manual", "breach", "exchange"} : r = [ShortFilled(t) EXCEPT !.handler = h]
      <4>1. ShortFilled(t) = [ShortFilled(t) EXCEPT !.handler = t.handler]
        BY <3>2 DEF IInv, JsonType
      <4> QED
        BY <3>1, <3>2, <4>1 DEF SignBreach
    <3> QED
      BY <1>2, <3>2, <3>3 DEF IInv, JsonType
  <2>2. JsonType'
    BY <2>1 DEF IInv, JsonType
  <2>3. /\ t'.status = "closing" /\ t'.shortClosed /\ t'.remaining = 0 /\ t'.stop = t.stop
        /\ t'.spread = t.spread /\ t'.long = t.long /\ t'.type = t.type /\ t'.stopQty = t.stopQty
    BY <2>1 DEF IInv, JsonType
  <2>4. (Legs /\ Named /\ Json)'
    BY <1>1, <1>4, <2>3, StillBook DEF IInv, Legs, Named, Json, SpreadClosing
  <2>5. Known'
    BY <1>2, <1>3, <1>4, <2>3, StillBook DEF IInv, Known
  <2> QED
    BY <1>2, <2>2, <2>4, <2>5, StillBook DEF IInv
<1>5. CASE t.status # "open"
  <2>1. ShortFilled(t) = t
    BY <1>5 DEF ShortFilled
  <2>2. \E h \in {"none", "manual", "breach", "exchange"} : t' = [t EXCEPT !.handler = h] /\ (t.handler # "none" => h # "none")
    BY <1>2, <1>5, <2>1 DEF SignBreach, IInv, JsonType
  <2>3. PICK h \in {"none", "manual", "breach", "exchange"} :
          t' = [t EXCEPT !.handler = h] /\ (t.handler # "none" => h # "none")
    BY <2>2
  <2>4. JsonType'
    BY <2>3 DEF IInv, JsonType
  <2>5. /\ t'.status = t.status /\ t'.shortClosed = t.shortClosed /\ t'.remaining = t.remaining
        /\ t'.stop = t.stop /\ t'.spread = t.spread /\ t'.long = t.long /\ t'.type = t.type
        /\ t'.stopQty = t.stopQty /\ (t.handler # "none" => t'.handler # "none")
    BY <2>3 DEF IInv, JsonType
  <2>6. (Legs /\ Named /\ Json)'
    BY <2>5, StillBook DEF IInv, Legs, Named, Json, SpreadClosing, OnlySpreads
  <2>7. Known'
    BY <1>2, <1>3, <2>5, StillBook DEF IInv, Known
  <2> QED
    BY <1>2, <2>4, <2>6, <2>7, StillBook DEF IInv
<1> QED
  BY <1>4, <1>5

\* A trade is marked closed when both legs are flat.
LEMMA MarkedClosed ==
  ASSUME IInv, Still, short = 0, long = 0, NEW r, Return(r),
         r \in {Finalized(t), ClearStop(Finalized(t)), [t EXCEPT !.status = "closed"],
                [t EXCEPT !.spread = NoOrder, !.status = "closed"]}
  PROVE  IInv'
<1>1. LocType' /\ Here' /\ New' = {} /\ t' = r
  BY Returned
<1>2. JsonType'
  <2>1. CASE r \in {Finalized(t), ClearStop(Finalized(t))}
    <3>1. CASE r = Finalized(t)
      BY <1>1, <3>1 DEF IInv, JsonType, Finalized
    <3>2. CASE r = ClearStop(Finalized(t))
      <4>1. r = [t EXCEPT !.status = "closed", !.handler = "none", !.remaining = 0,
                          !.spread = NoOrder, !.stop = NoOrder, !.type = "none", !.stopQty = 0]
        BY <3>2 DEF Finalized, ClearStop
      <4> QED
        BY <1>1, <4>1 DEF IInv, JsonType
    <3> QED
      BY <2>1, <3>1, <3>2
  <2>2. CASE r \in {[t EXCEPT !.status = "closed"], [t EXCEPT !.spread = NoOrder, !.status = "closed"]}
    BY <1>1, <2>2, ZenonT(60) DEF IInv, JsonType
  <2> QED
    BY <2>1, <2>2
<1>3. /\ t'.status = "closed" /\ t'.shortClosed = t.shortClosed
      /\ t'.remaining \in {0, t.remaining}
      /\ \/ t'.stop = t.stop /\ t'.stopQty = t.stopQty /\ t'.type = t.type
         \/ t'.stop = NoOrder /\ t'.type = "none"
      /\ t'.spread \in {NoOrder, t.spread} /\ t'.long = t.long
  BY <1>1, ZenonT(60) DEF IInv, JsonType, Finalized, ClearStop
<1>4. Live = {}
  BY Sizes DEF IInv, Legs
<1>5. (Legs /\ Named /\ Json)'
  <2>1. Legs'
    BY <1>4, StillBook DEF IInv, Legs
  <2>2. Named'
    BY <1>3, StillBook DEF IInv, Named
  <2>3. Json'
    BY <1>3, StillBook DEF IInv, Json, SpreadClosing
  <2> QED
    BY <2>1, <2>2, <2>3
<1>6. Known'
  BY <1>1, <1>3, <1>4, StillBook DEF IInv, Known
<1> QED
  BY <1>1, <1>2, <1>5, <1>6, StillBook DEF IInv

-----------------------------------------------------------------------------
(* A new order. *)

\* Where a routine is about to send an order and ids are not lost, no order of
\* the trade is live and no leg is closed without the trade JSON saying so.
LEMMA Alone ==
  ASSUME IInv, ~Crashes, pc \in {"limit", "query", "stop", "spread", "long"},
         pc = "spread" => ~t.shortClosed
  PROVE  Live = {} /\ long = Q /\ (~t.shortClosed => short = Q)
<1>1. New = {} /\ t.status # "closed"
  BY DEF New, IInv, Here
<1>2. t.stop \in Live => pc = "long"
  BY DEF IInv, Here, StopIsOff, Live, Ids, NoOrder
<1>3. t.spread = NoOrder /\ t.long = NoOrder
  BY DEF IInv, Here, Json, SpreadClosing, JsonType
<1>4. Live = {}
  <2>1. ASSUME NEW i \in Live PROVE FALSE
    <3>1. i = t.stop /\ pc = "long" /\ i # NoOrder
      BY <1>1, <1>2, <1>3, <2>1 DEF IInv, Known, Live, Ids, NoOrder
    <3>2. t.shortClosed /\ orders[i].kind # "long"
      BY <3>1 DEF IInv, Here, Named
    <3> QED
      BY <2>1, <3>2, Sizes DEF IInv, Legs, Json
  <2> QED
    BY <2>1
<1>5. long = Q
  BY <1>1, <1>3 DEF IInv, Known, Legs
<1>6. ASSUME ~t.shortClosed PROVE short = Q
  <2>1. pc # "long"
    BY <1>6 DEF IInv, Here
  <2>2. t.stop # NoOrder => orders[t.stop].st # "filled"
    BY <2>1 DEF IInv, Here, StopIsOff
  <2> QED
    BY <1>1, <1>3, <1>6, <2>2 DEF IInv, Known, Legs
<1> QED
  BY <1>4, <1>5, <1>6

\* When ids may be lost the account holds the contracts of this trade only, and
\* the broker accepts no second order for them.
LEMMA RefusedBeside ==
  ASSUME IInv, Crashes, NEW form \in Kinds, Accept(form, Q), form = "long" => short = 0
  PROVE  Live = {} /\ long = Q /\ (form # "long" => short = Q)
<1>1. HeldShort = short /\ HeldLong = long /\ short \in {0, Q} /\ long \in {0, Q} /\ short <= long
  BY Sizes DEF Crashes, Shared, HeldShort, HeldLong, IInv, Legs
<1>2. ~PreflightBlocks(form, Q) /\ ~Exceeds(form, Q)
  BY DEF Accept, Refused
<1>3. long = Q /\ (form # "long" => short = Q)
  BY <1>1, <1>2, Sizes DEF PreflightBlocks
<1>4. ASSUME NEW i \in Live PROVE FALSE
  <2>1. orders[i].kind \in Kinds
    BY DEF IInv, Book, WholeOrders, Live
  <2>2. Buying \in SUBSET Live /\ Selling \in SUBSET Live /\ Book
    BY DEF Buying, Selling, IInv
  <2>3. CASE form = "long"
    <3>1. orders[i].kind = "long"
      BY <2>3, Sizes DEF IInv, Legs
    <3>2. i \in Selling
      BY <3>1 DEF Selling
    <3>3. Cardinality(Offered(Selling)) \in Nat /\ Cardinality(Offered(Selling)) >= Q
      BY <2>2, <3>2, OfferedByOne
    <3> QED
      BY <1>1, <1>2, <1>3, <2>3, <3>3, Sizes DEF Exceeds
  <2>4. CASE form # "long"
    <3>1. orders[i].kind # "long"
      BY <1>3, <2>4, Sizes DEF IInv, Legs, Json
    <3>2. i \in Buying
      BY <2>1, <3>1 DEF Buying, Kinds
    <3>3. Cardinality(Offered(Buying)) \in Nat /\ Cardinality(Offered(Buying)) >= Q
      BY <2>2, <3>2, OfferedByOne
    <3> QED
      BY <1>1, <1>2, <1>3, <2>4, <3>3, Sizes DEF Exceeds
  <2> QED
    BY <2>3, <2>4
<1> QED
  BY <1>3, <1>4

\* What the owner may rely on once an order of this form is on its way.
OnItsWay(form) ==
  \/ form = "stop" /\ loc.why \in {"ensure", "update"} /\ t.status = "open" /\ StopIsOff
  \/ /\ form = "limit" /\ loc.why \in {"breach", "reprice"} /\ t.status = "open"
     /\ loc.oid = t.stop /\ t.stop # NoOrder /\ StopIsOff
  \/ /\ form = "spread" /\ loc.why \in {"kill", "poll"} /\ ~t.shortClosed
     /\ t.stop = NoOrder /\ t.spread = NoOrder /\ t.handler # "none"
  \/ /\ form = "long" /\ loc.why = "chase" /\ t.status = "closing" /\ t.shortClosed
     /\ t.long = NoOrder

LEMMA Sent ==
  ASSUME IInv, pc \in {"limit", "stop", "spread", "long"}, NEW form \in Kinds, Send(form, Q),
         OnItsWay(form), pc = "spread" => form = "spread"
  PROVE  IInv'
<1>1. /\ Accept(form, Q) /\ pc' = "record" /\ UNCHANGED t
      /\ loc' = [loc EXCEPT !.new = NextId, !.qty = Q]
  BY DEF Send
<1>2. form = "long" => short = 0
  BY DEF OnItsWay, IInv, Json
<1>3. pc = "spread" => ~t.shortClosed
  BY DEF OnItsWay
<1>4. Live = {} /\ long = Q /\ (form # "long" => short = Q)
  BY <1>1, <1>2, <1>3, Alone, RefusedBeside DEF OnItsWay, IInv, Json
<1> DEFINE n == NextId
<1>5. /\ Book' /\ n \in Ids /\ Live' = {n} /\ orders[n].st = "free"
      /\ orders'[n] = [kind |-> form, qty |-> Q, filled |-> 0, st |-> "working"]
      /\ \A i \in Ids \ {n} : orders'[i] = orders[i]
      /\ UNCHANGED <<short, long, budget>>
  BY <1>1, <1>4, Accepted DEF IInv
<1> HIDE DEF n
<1>6. loc'.new = n /\ loc'.qty = Q /\ loc'.why = loc.why /\ loc'.oid = loc.oid /\ LocType'
  BY <1>1, <1>5 DEF IInv, LocType, n
<1>7. JsonType' /\ Crashes' = Crashes /\ Shared' = Shared /\ New' = {n}
  BY <1>1, <1>5, <1>6 DEF IInv, JsonType, Crashes, Shared, New
<1>8. /\ t.stop # NoOrder => orders'[t.stop] = orders[t.stop]
      /\ t.spread # NoOrder => orders'[t.spread] = orders[t.spread]
      /\ t.long # NoOrder => orders'[t.long] = orders[t.long]
  BY <1>5 DEF IInv, JsonType, Named
<1>9. Legs'
  <2>1. form = "long" => t.status = "closing" /\ t.shortClosed
    BY DEF OnItsWay
  <2> QED
    BY <1>1, <1>4, <1>5, <2>1 DEF IInv, Legs
<1>10. Named'
  BY <1>1, <1>8 DEF IInv, Named
<1>11. form = "spread" => OnlySpreads'
  BY <1>4, <1>5 DEF OnlySpreads
<1>12. Json'
  <2>1. form # "spread" => ~SpreadClosing
    BY DEF OnItsWay, SpreadClosing, IInv, Json
  <2> QED
    BY <1>1, <1>5, <1>7, <1>11, <2>1 DEF IInv, Json, SpreadClosing
<1>13. Here'
  <2>1. StopIsOff => StopIsOff'
    BY <1>1, <1>8 DEF StopIsOff
  <2>2. Recording'
    BY <1>1, <1>5, <1>6, <1>11, <2>1 DEF OnItsWay, Recording
  <2>3. t.status # "closed"
    BY DEF IInv, Here
  <2> QED
    BY <1>1, <2>2, <2>3 DEF Here, Steps
<1>14. Known'
  BY <1>1, <1>4, <1>5, <1>7, <1>8, Sizes DEF IInv, Known, OnItsWay
<1> QED
  BY <1>5, <1>6, <1>7, <1>9, <1>10, <1>12, <1>13, <1>14 DEF IInv

-----------------------------------------------------------------------------
(* The steps of the routines. *)

LEMMA RequestCancelKeeps == IInv /\ RequestCancel => IInv'
<1> SUFFICES ASSUME IInv, RequestCancel PROVE IInv'
  OBVIOUS
<1>1. /\ pc = "cancel" /\ loc.oid = t.stop /\ t.stop # NoOrder /\ t.stop \in Ids
      /\ UNCHANGED <<t, loc>>
  BY DEF RequestCancel, Continue, IInv, Here, JsonType
<1>2. LocType' /\ JsonType' /\ New = {} /\ New' = {}
  BY <1>1 DEF RequestCancel, Continue, IInv, LocType, JsonType, New
<1>3. CASE orders[loc.oid].st = "filled" /\ Continue("filled") /\ UNCHANGED brokerVars
  <2>1. Still
    BY <1>3 DEF brokerVars, Still
  <2>2. Here'
    BY <1>1, <1>3, <2>1, StillBook DEF Continue, IInv, Here, Steps
  <2>3. Known'
    BY <1>1, <1>3, <2>1, SameJson DEF Continue
  <2> QED
    BY <1>1, <1>2, <2>1, <2>2, <2>3, SameJson DEF IInv
<1>4. CASE Continue("confirm") /\ Fault("timeout") /\ UNCHANGED <<orders, short, long>>
  <2>1. Still
    BY <1>4 DEF Still, Faults
  <2>2. Here'
    BY <1>1, <1>4 DEF Continue, IInv, Here, Steps
  <2>3. Known'
    BY <1>1, <1>4, <2>1, SameJson DEF Continue
  <2> QED
    BY <1>1, <1>2, <2>1, <2>2, <2>3, SameJson DEF IInv
<1>5. CASE Continue("confirm") /\ orders' = RequestCancelOf(loc.oid) /\ UNCHANGED <<short, long, budget>>
  <2>1. /\ Book' /\ Live' = Live /\ Crashes' = Crashes /\ Shared' = Shared
        /\ \A j \in Ids : /\ orders'[j].kind = orders[j].kind
                          /\ orders'[j].st = IF j = t.stop /\ orders[j].st = "working"
                                              THEN "canceling" ELSE orders[j].st
    BY <1>1, <1>5, CancelRequested DEF IInv
  <2>2. Legs'
    BY <1>1, <1>5, <2>1 DEF IInv, Legs, Live
  <2>3. Named' /\ Json'
    BY <1>1, <1>5, <2>1 DEF IInv, JsonType, Named, Json, SpreadClosing, OnlySpreads, Live
  <2>4. Here'
    BY <1>1, <1>5 DEF Continue, IInv, Here, Steps
  <2>5. Known'
    <3>1. \A j \in {t.stop, t.spread, t.long} \ {NoOrder} : j \in Ids
      BY DEF IInv, JsonType
    <3> QED
      BY <1>1, <1>2, <1>5, <2>1, <3>1 DEF IInv, Known
  <2> QED
    BY <1>2, <2>1, <2>2, <2>3, <2>4, <2>5 DEF IInv
<1> QED
  BY <1>3, <1>4, <1>5 DEF RequestCancel

LEMMA CancelledKeeps == IInv /\ Cancelled => IInv'
<1> SUFFICES ASSUME IInv, Cancelled PROVE IInv'
  OBVIOUS
<1>1. /\ pc = "confirm" /\ loc.oid = t.stop /\ t.stop # NoOrder /\ UNCHANGED <<brokerVars, loc>>
      /\ loc.why \in {"breach", "reprice", "update", "kill"} /\ t.status # "closed"
      /\ orders[t.stop].st = "cancelled" /\ Still /\ LocType' /\ New = {}
  BY DEF Cancelled, Continue, brokerVars, Still, IInv, Here, LocType, New
<1>2. CASE loc.why = "kill"
  <2>1. t' = ClearStop(t) /\ pc' = "spread"
    BY <1>1, <1>2 DEF Cancelled
  <2>2. ~SpreadClosing /\ t.handler # "none"
    BY <1>1, <1>2 DEF IInv, Here, Json
  <2>3. (Book /\ Legs /\ JsonType /\ Named /\ Json /\ Known)'
    BY <1>1, <2>1, <2>2, StopForgotten
  <2>4. Here'
    BY <1>1, <1>2, <2>1, <2>2 DEF ClearStop, IInv, JsonType, Here, Steps, SpreadClosing
  <2> QED
    BY <1>1, <2>3, <2>4 DEF IInv
<1>3. CASE loc.why # "kill"
  <2>1. UNCHANGED t /\ pc' = IF loc.why = "update" THEN "query" ELSE "limit"
    BY <1>1, <1>3 DEF Cancelled, Continue
  <2>2. Here'
    BY <1>1, <1>3, <2>1, StillBook DEF IInv, Here, StopIsOff, Steps
  <2>3. Known'
    BY <1>1, <2>1, SameJson
  <2> QED
    BY <1>1, <2>1, <2>2, <2>3, SameJson DEF IInv
<1> QED
  BY <1>2, <1>3

LEMMA FilledInsteadKeeps == IInv /\ FilledInstead => IInv'
<1> SUFFICES ASSUME IInv, FilledInstead PROVE IInv'
  OBVIOUS
<1>1. /\ pc = "confirm" /\ loc.oid = t.stop /\ pc' = "filled" /\ UNCHANGED <<brokerVars, t, loc>>
      /\ orders[t.stop].st = "filled" /\ Still /\ LocType'
  BY DEF FilledInstead, Continue, brokerVars, Still, IInv, Here, LocType
<1>2. Here'
  BY <1>1, StillBook DEF IInv, Here, Steps
<1> QED
  BY <1>1, <1>2, SameJson DEF IInv

LEMMA NotConfirmedKeeps == IInv /\ NotConfirmed => IInv'
<1> SUFFICES ASSUME IInv, NotConfirmed PROVE IInv'
  OBVIOUS
<1>1. pc = "confirm" /\ loc.why # "partial" /\ Still /\ Return(t)
  BY DEF NotConfirmed, IInv, Here, Still, Faults
<1> QED
  BY <1>1, GivesUp

LEMMA StopFilledKeeps == IInv /\ StopFilled => IInv'
<1> SUFFICES ASSUME IInv, StopFilled PROVE IInv'
  OBVIOUS
<1>1. /\ pc = "filled" /\ t.stop # NoOrder /\ orders[t.stop].st = "filled" /\ Still
      /\ Return(SignBreach(ShortFilled(t))) /\ ~SpreadClosing
  BY DEF StopFilled, IInv, Here, Json, brokerVars, Still
<1> QED
  BY <1>1, StopDidFill

LEMMA PlaceLimitKeeps == IInv /\ PlaceLimit => IInv'
<1> SUFFICES ASSUME IInv, PlaceLimit PROVE IInv'
  OBVIOUS
<1>1. /\ pc = "limit" /\ loc.oid = t.stop /\ t.stop \in Ids /\ orders[t.stop].st = "cancelled"
      /\ t.status = "open"
  BY DEF PlaceLimit, IInv, Here, StopIsOff, JsonType
<1>2. orders[loc.oid].filled = 0
  BY <1>1 DEF IInv, Book, WholeOrders
<1>3. StopQty(t) = Q
  <2>1. t.remaining \in {None, Q}
    BY <1>1 DEF IInv, Json
  <2> QED
    BY <2>1, Quantities DEF IInv, JsonType
<1>4. CASE Send("limit", Q)
  <2>1. OnItsWay("limit") /\ "limit" \in Kinds
    BY <1>1 DEF IInv, Here, OnItsWay, Kinds, ShortKinds
  <2> QED
    BY <1>1, <1>4, <2>1, Sent
<1>5. CASE Return(t) /\ Still
  BY <1>1, <1>5, GivesUp
<1> QED
  BY <1>2, <1>3, <1>4, <1>5, Sizes DEF PlaceLimit, Refuse, Still, Faults

LEMMA CheckPositionKeeps == IInv /\ CheckPosition => IInv'
<1> SUFFICES ASSUME IInv, CheckPosition PROVE IInv'
  OBVIOUS
<1>1. /\ pc = "query" /\ t.status = "open" /\ StopIsOff /\ ~t.shortClosed
      /\ ~SpreadClosing /\ UNCHANGED <<orders, short, long>>
  BY DEF CheckPosition, IInv, Here, Json, SpreadClosing
<1>2. HeldShort = short + Shared /\ short \in {0, Q}
  BY DEF HeldShort, IInv, Legs
<1>3. CASE HeldShort <= 0 /\ UNCHANGED budget /\ Return(ClearStop(ShortGone(t)))
  <2>1. short = 0 /\ Shared = 0
    BY <1>2, <1>3, Sizes
  <2>2. /\ t' = [t EXCEPT !.status = "closing", !.shortClosed = TRUE, !.stop = NoOrder,
                         !.type = "none", !.stopQty = 0]
        /\ LocType' /\ Here' /\ New' = {} /\ New = {} /\ Still
    <3>1. t' = ClearStop(ShortGone(t)) /\ LocType' /\ Here' /\ New' = {}
      BY <1>3, Returned
    <3> QED
      BY <1>1, <1>3, <3>1 DEF ClearStop, ShortGone, New, Still
  <2>3. JsonType'
    BY <2>2 DEF IInv, JsonType
  <2>4. /\ t'.status = "closing" /\ t'.shortClosed /\ t'.stop = NoOrder /\ t'.type = "none"
        /\ t'.spread = NoOrder /\ t'.long = NoOrder /\ t'.remaining = t.remaining
    BY <1>1, <2>2 DEF IInv, JsonType, Json
  <2>5. (Legs /\ Named /\ Json)'
    BY <1>1, <2>1, <2>2, <2>4, StillBook DEF IInv, Legs, Named, Json, SpreadClosing
  <2>6. Known'
    <3>1. t.stop \notin Live /\ t.spread = NoOrder /\ t.long = NoOrder
      BY <1>1 DEF StopIsOff, Live, Ids, NoOrder, IInv, Json
    <3> QED
      BY <1>1, <2>2, <2>4, <3>1, StillBook DEF IInv, Known
  <2> QED
    BY <2>2, <2>3, <2>5, <2>6, StillBook DEF IInv
<1>4. CASE /\ HeldShort > 0
           /\ pc' = "stop"
           /\ loc' = [loc EXCEPT !.qty = IF HeldShort < StopQty(t) THEN HeldShort ELSE StopQty(t)]
           /\ UNCHANGED <<t, budget>>
  <2>1. StopQty(t) = Q
    <3>1. t.remaining \in {None, Q}
      BY <1>1 DEF IInv, Json
    <3> QED
      BY <3>1, Quantities DEF IInv, JsonType
  <2>2. short = Q
    <3>1. CASE Crashes
      BY <1>2, <1>4, <3>1, Sizes DEF Shared, Crashes
    <3>2. CASE ~Crashes
      BY <1>1, <3>2, Alone
    <3> QED
      BY <3>1, <3>2
  <2>3. loc' = [loc EXCEPT !.qty = Q]
    BY <1>2, <1>4, <2>1, <2>2, Sizes
  <2>4. Still /\ UNCHANGED t /\ LocType'
    BY <1>1, <1>4, <2>3 DEF Still, IInv, LocType
  <2>5. loc'.qty = Q /\ loc'.why = loc.why
    BY <2>3 DEF IInv, LocType
  <2>6. Here'
    BY <1>1, <1>4, <2>4, <2>5 DEF Here, IInv, Steps, StopIsOff
  <2> QED
    BY <1>1, <1>4, <2>4, <2>6, SameJson DEF IInv
<1>5. ~Fault("query")
  BY DEF Fault, IInv, Book, Clear
<1> QED
  BY <1>3, <1>4, <1>5 DEF CheckPosition

LEMMA PlaceStopKeeps == IInv /\ PlaceStop => IInv'
<1> SUFFICES ASSUME IInv, PlaceStop PROVE IInv'
  OBVIOUS
<1>1. /\ pc = "stop" /\ loc.qty = Q /\ t.status = "open" /\ StopIsOff /\ ~SpreadClosing
  BY DEF PlaceStop, IInv, Here, SpreadClosing
<1>2. CASE Send("stop", loc.qty)
  <2>1. OnItsWay("stop") /\ "stop" \in Kinds
    BY <1>1 DEF IInv, Here, OnItsWay, Kinds, ShortKinds
  <2> QED
    BY <1>1, <1>2, <2>1, Sent
<1>3. CASE Refuse("stop", loc.qty) /\ Return(ClearStop(t))
  <2>1. Still /\ LocType' /\ Here' /\ t' = ClearStop(t) /\ pc' = "idle"
    BY <1>3, Returned DEF Refuse, Still, Faults
  <2> QED
    BY <1>1, <2>1, StopForgotten DEF IInv, StopIsOff
<1>4. ASSUME NEW j \in Buying, orders[j].st = "working", Return(Adopt(j)), UNCHANGED brokerVars
      PROVE  IInv'
  <2>1. Crashes
    BY <1>1, Alone DEF Buying
  <2>2. /\ j \in Ids /\ orders[j].qty = Q /\ orders[j].kind # "long" /\ j # NoOrder
    BY DEF Buying, Live, ShortKinds, IInv, Book, WholeOrders, Ids, NoOrder
  <2>3. /\ LocType' /\ Here' /\ Still
        /\ t' = [t EXCEPT !.stop = j, !.type = IF orders[j].kind = "stop" THEN "stop" ELSE "limit",
                         !.stopQty = Q, !.qty = Q]
    BY <1>4, <2>2, Returned DEF Adopt, Still, brokerVars
  <2>4. JsonType'
    <3>1. PICK y \in {"stop", "limit"} : y = IF orders[j].kind = "stop" THEN "stop" ELSE "limit"
      OBVIOUS
    <3>2. PICK q \in {Q} : q = Q
      OBVIOUS
    <3>3. t' = [t EXCEPT !.stop = j, !.type = y, !.stopQty = q, !.qty = q]
      BY <2>3, <3>1, <3>2
    <3>4. q \in {0, Q} /\ y \in {"none", "stop", "limit"} /\ j \in {NoOrder} \union Ids
      BY <2>2, <3>1, <3>2
    <3> QED
      BY <3>3, <3>4 DEF IInv, JsonType
  <2>5. /\ t'.stop = j /\ t'.stopQty = Q /\ t'.status = t.status /\ t'.spread = t.spread
        /\ t'.long = t.long /\ t'.shortClosed = t.shortClosed /\ t'.remaining = t.remaining
    BY <2>3 DEF IInv, JsonType
  <2>6. (Legs /\ Named /\ Json)'
    BY <1>1, <1>4, <2>2, <2>3, <2>5, StillBook DEF IInv, Legs, Named, Json, SpreadClosing
  <2>7. Known'
    BY <2>1, <2>3, StillBook DEF Known
  <2> QED
    BY <2>3, <2>4, <2>6, <2>7, StillBook DEF IInv
<1> QED
  BY <1>2, <1>3, <1>4 DEF PlaceStop

LEMMA KillKeeps == IInv /\ Kill => IInv'
<1> SUFFICES ASSUME IInv, Kill PROVE IInv'
  OBVIOUS
<1>1. /\ pc = "kill" /\ loc.why = "kill" /\ ~SpreadClosing /\ t.handler # "none" /\ t.status # "closed"
      /\ Still
  BY DEF Kill, IInv, Here, brokerVars, Still
<1>2. CASE t.stop # NoOrder
  <2>1. pc' = "cancel" /\ loc' = [loc EXCEPT !.oid = t.stop] /\ UNCHANGED t
    BY <1>1, <1>2 DEF Kill
  <2>2. LocType' /\ loc'.oid = t.stop /\ loc'.why = "kill"
    BY <1>1, <2>1 DEF IInv, LocType, JsonType
  <2>3. Here'
    BY <1>1, <1>2, <2>1, <2>2 DEF IInv, Here, Steps
  <2> QED
    BY <1>1, <2>1, <2>2, <2>3, SameJson DEF IInv
<1>3. CASE t.stop = NoOrder
  <2>1. pc' = "spread" /\ UNCHANGED <<t, loc>>
    BY <1>1, <1>3 DEF Kill, Continue
  <2>2. LocType' /\ Here'
    BY <1>1, <1>3, <2>1, StillBook DEF IInv, Here, Steps, LocType, SpreadClosing
  <2> QED
    BY <1>1, <2>1, <2>2, SameJson DEF IInv
<1> QED
  BY <1>2, <1>3

\* Nothing is left to close with both legs once the short leg is gone.
LEMMA Closable ==
  ASSUME IInv, t.shortClosed, Inspect(StopQty(t)) = "closable"
  PROVE  StopQty(t) = 0
<1>1. HeldShort = short + Shared /\ short = 0 /\ (t.remaining = 0 \/ Shared = 0)
  BY DEF HeldShort, IInv, Json
<1>2. HeldShort # 0
  BY DEF Inspect
<1>3. t.remaining = 0
  BY <1>1, <1>2, Sizes
<1> QED
  BY <1>3, Quantities DEF IInv, JsonType

LEMMA PlaceSpreadKeeps == IInv /\ PlaceSpread => IInv'
<1> SUFFICES ASSUME IInv, PlaceSpread PROVE IInv'
  OBVIOUS
<1>1. /\ pc = "spread" /\ t.stop = NoOrder /\ t.handler # "none" /\ loc.why \in {"kill", "poll"}
      /\ t.spread = NoOrder /\ t.status # "closed" /\ (loc.why = "poll" => SpreadClosing)
  BY DEF PlaceSpread, IInv, Here, Json, SpreadClosing, JsonType
<1>2. CASE Inspect(StopQty(t)) = "closable" /\ Send("spread", StopQty(t))
  <2>1. ~Refused("spread", StopQty(t))
    BY <1>2 DEF Send, Accept
  <2>2. ~t.shortClosed
    <3>1. ASSUME t.shortClosed PROVE FALSE
      <4>1. StopQty(t) = 0
        BY <1>2, <3>1, Closable
      <4> QED
        BY <2>1, <4>1 DEF Refused
    <3> QED
      BY <3>1
  <2>3. StopQty(t) = Q
    <3>1. t.remaining \in {None, Q}
      BY <1>1, <2>2 DEF IInv, Json
    <3> QED
      BY <3>1, Quantities DEF IInv, JsonType
  <2>4. OnItsWay("spread") /\ "spread" \in Kinds
    BY <1>1, <2>2 DEF OnItsWay, Kinds
  <2> QED
    BY <1>1, <1>2, <2>3, <2>4, Sent
<1>3. CASE Return(t) /\ Still
  BY <1>1, <1>3, GivesUp
<1>4. CASE /\ loc.why = "poll" /\ Inspect(StopQty(t)) = "flat" /\ Still
           /\ Return([t EXCEPT !.status = "closed"])
  <2>1. HeldShort = 0 \/ HeldLong = 0
    BY <1>4 DEF Inspect
  <2>2. short = long /\ short \in {0, Q}
    BY <1>1, <1>4 DEF IInv, Json, Legs, OnlySpreads
  <2>3. short = 0 /\ long = 0
    BY <2>1, <2>2, Sizes DEF HeldShort, HeldLong
  <2> QED
    BY <1>4, <2>3, MarkedClosed
<1> QED
  BY <1>2, <1>3, <1>4 DEF PlaceSpread, Refuse, brokerVars, Still, Faults

LEMMA PlaceLongKeeps == IInv /\ PlaceLong => IInv'
<1> SUFFICES ASSUME IInv, PlaceLong PROVE IInv'
  OBVIOUS
<1>1. /\ pc = "long" /\ t.status = "closing" /\ t.shortClosed /\ short = 0 /\ loc.why = "chase"
      /\ t.long = NoOrder
  BY DEF PlaceLong, IInv, Here, Json
<1>2. LongQty(t) = Q
  BY <1>1, Quantities DEF IInv, JsonType
<1>3. HeldLong = long + Shared /\ long \in {0, Q} /\ (~Crashes => long = Q)
  BY <1>1, Alone DEF HeldLong, IInv, Legs
<1> DEFINE q == IF LongQty(t) < HeldLong THEN LongQty(t) ELSE HeldLong
<1>4. CASE HeldLong <= 0 /\ Still /\ Return(Finalized(t))
  <2>1. long = 0
    BY <1>3, <1>4, Sizes
  <2> QED
    BY <1>1, <1>4, <2>1, MarkedClosed
<1>5. CASE Still /\ Return(t)
  BY <1>1, <1>5, GivesUp
<1>6. CASE q > 0 /\ Send("long", q)
  <2>1. q = Q
    BY <1>2, <1>3, <1>6, Sizes DEF Crashes, Shared
  <2>2. OnItsWay("long") /\ "long" \in Kinds
    BY <1>1 DEF OnItsWay, Kinds
  <2> QED
    BY <1>1, <1>6, <2>1, <2>2, Sent
<1>7. ~Fault("query")
  BY DEF Fault, IInv, Book, Clear
<1> QED
  BY <1>2, <1>4, <1>5, <1>6, <1>7, Sizes DEF PlaceLong, Refuse, Still, Faults

\* The id of the new order takes the place of one that is off.
LEMMA RecordKeeps == IInv /\ Record => IInv'
<1> SUFFICES ASSUME IInv, Record PROVE IInv'
  OBVIOUS
<1>1. PICK i \in Ids :
        /\ i = loc.new /\ pc = "record" /\ Recording /\ Still /\ i # NoOrder
        /\ orders[i].st # "free" /\ loc.qty = Q /\ New = {i} /\ t.status # "closed"
  BY DEF Record, IInv, Here, Recording, brokerVars, Still, New, Ids, NoOrder
<1>2. ASSUME Return([t EXCEPT !.stop = i, !.type = "stop", !.stopQty = Q]) \/
             (\E h \in {t.handler, "breach"} :
                Return([t EXCEPT !.stop = i, !.type = "limit", !.stopQty = Q, !.remaining = Q,
                                 !.handler = h])),
             orders[i].kind \in ShortKinds, t.status = "open", StopIsOff
      PROVE  IInv'
  <2>1. t.shortClosed = FALSE /\ t.spread = NoOrder /\ t.long = NoOrder /\ t.remaining \in {None, Q}
    BY <1>2 DEF IInv, Json, JsonType
  <2>2. /\ LocType' /\ Here' /\ New' = {} /\ JsonType' /\ t'.stop = i /\ t'.stopQty = Q
        /\ t'.type # "none" /\ t'.status = "open" /\ t'.shortClosed = FALSE /\ t'.spread = NoOrder
        /\ t'.long = NoOrder /\ t'.remaining \in {None, Q}
    <3>1. CASE Return([t EXCEPT !.stop = i, !.type = "stop", !.stopQty = Q])
      <4>1. LocType' /\ Here' /\ New' = {} /\ t' = [t EXCEPT !.stop = i, !.type = "stop", !.stopQty = Q]
        BY <3>1, Returned
      <4> QED
        BY <1>2, <2>1, <4>1 DEF IInv, JsonType
    <3>2. ASSUME NEW h \in {t.handler, "breach"},
                 Return([t EXCEPT !.stop = i, !.type = "limit", !.stopQty = Q, !.remaining = Q,
                                 !.handler = h])
          PROVE  /\ LocType' /\ Here' /\ New' = {} /\ JsonType' /\ t'.stop = i /\ t'.stopQty = Q
                 /\ t'.type # "none" /\ t'.status = "open" /\ t'.shortClosed = FALSE
                 /\ t'.spread = NoOrder /\ t'.long = NoOrder /\ t'.remaining \in {None, Q}
      <4>1. /\ LocType' /\ Here' /\ New' = {}
            /\ t' = [t EXCEPT !.stop = i, !.type = "limit", !.stopQty = Q, !.remaining = Q,
                             !.handler = h]
        BY <3>2, Returned
      <4> QED
        BY <1>2, <2>1, <4>1 DEF IInv, JsonType
    <3> QED
      BY <1>2, <3>1, <3>2
  <2>3. (Legs /\ Named /\ Json)'
    BY <1>1, <1>2, <2>2, StillBook DEF IInv, Legs, Named, Json, SpreadClosing, ShortKinds
  <2>4. Known'
    <3>1. t.stop \notin Live /\ (t.stop # NoOrder => orders[t.stop].st = "cancelled")
      BY <1>2 DEF StopIsOff, Live, Ids, NoOrder
    <3> QED
      BY <1>1, <1>2, <2>1, <2>2, <3>1, StillBook DEF IInv, Known
  <2> QED
    BY <1>1, <2>2, <2>3, <2>4, StillBook DEF IInv
<1>3. CASE orders[i].kind = "stop"
  <2>1. Return([t EXCEPT !.stop = i, !.type = "stop", !.stopQty = Q])
    BY <1>1, <1>3 DEF Record, Recording, SignBreach
  <2> QED
    BY <1>1, <1>2, <1>3, <2>1 DEF Recording, ShortKinds
<1>4. CASE orders[i].kind = "limit"
  <2>1. orders[loc.oid].filled = 0 /\ loc.why # "partial"
    BY <1>1, <1>4 DEF Recording, StopIsOff, IInv, Book, WholeOrders, JsonType
  <2> DEFINE r == [t EXCEPT !.stop = i, !.type = "limit", !.stopQty = Q, !.remaining = Q]
  <2> DEFINE s == [r EXCEPT !.killed = @ /\ loc.why # "partial"]
  <2>2. Return(SignBreach(r))
    <3>1. s = r
      BY <2>1 DEF IInv, JsonType
    <3>2. Return(SignBreach(s))
      BY <1>1, <1>4, <2>1 DEF Record
    <3> QED
      BY <3>1, <3>2
  <2>3. \E h \in {t.handler, "breach"} : SignBreach(r) = [r EXCEPT !.handler = h]
    <3>1. r = [r EXCEPT !.handler = t.handler]
      BY DEF IInv, JsonType
    <3> QED
      BY <3>1 DEF SignBreach
  <2>4. \E h \in {t.handler, "breach"} :
          Return([t EXCEPT !.stop = i, !.type = "limit", !.stopQty = Q, !.remaining = Q,
                           !.handler = h])
    BY <2>2, <2>3
  <2> QED
    BY <1>1, <1>2, <1>4, <2>4 DEF Recording, ShortKinds
<1>5. CASE orders[i].kind = "spread"
  <2>1. /\ ~t.shortClosed /\ t.stop = NoOrder /\ t.spread = NoOrder /\ t.handler # "none"
        /\ OnlySpreads /\ loc.why # "breach" /\ t.long = NoOrder
    BY <1>1, <1>5 DEF Recording, IInv, Json, SpreadClosing, JsonType
  <2>2. CASE Return([t EXCEPT !.spread = i, !.status = "closing"])
    <3>0. LocType' /\ Here' /\ New' = {} /\ t' = [t EXCEPT !.spread = i, !.status = "closing"]
      BY <2>2, Returned
    <3>1. JsonType'
      BY <3>0 DEF IInv, JsonType
    <3>2. /\ t'.status = "closing" /\ t'.shortClosed = FALSE /\ t'.stop = NoOrder /\ t'.spread = i
          /\ t'.long = NoOrder /\ t'.handler # "none" /\ t'.type = t.type /\ t'.remaining \in {None, Q}
      <4>1. t.remaining \in {None, Q} /\ t.shortClosed = FALSE
        BY <1>1, <2>1 DEF IInv, JsonType, Json
      <4> QED
        BY <2>1, <3>0, <4>1 DEF IInv, JsonType
    <3>3. OnlySpreads'
      BY <1>1, <2>1, StillBook DEF OnlySpreads
    <3>4. (Legs /\ Named /\ Json)'
      BY <1>1, <1>5, <2>1, <3>2, <3>3, StillBook DEF IInv, Legs, Named, Json, SpreadClosing, OnlySpreads
    <3>5. Known'
      BY <1>1, <1>5, <2>1, <3>0, <3>2, StillBook DEF IInv, Known, ShortKinds
    <3> QED
      BY <1>1, <3>0, <3>1, <3>4, <3>5, StillBook DEF IInv
  <2>3. CASE orders[i].st = "filled" /\ Return(ClearStop(Finalized(t)))
    <3>1. short = 0 /\ long = 0
      BY <1>1, <1>5, <2>3 DEF IInv, Legs
    <3> QED
      BY <1>1, <2>3, <3>1, MarkedClosed
  <2> QED
    BY <1>1, <1>5, <2>1, <2>2, <2>3 DEF Record, SignBreach
<1>6. CASE orders[i].kind = "long"
  <2>1. t.status = "closing" /\ t.shortClosed /\ t.long = NoOrder /\ loc.why # "breach"
    BY <1>1, <1>6 DEF Recording
  <2>2. Return([t EXCEPT !.long = i])
    BY <1>1, <1>6, <2>1 DEF Record, SignBreach
  <2>3. /\ LocType' /\ Here' /\ New' = {} /\ JsonType'
    BY <2>2, Returned DEF IInv, JsonType
  <2>4. /\ t'.long = i /\ t'.status = t.status /\ t'.shortClosed = t.shortClosed /\ t'.stop = t.stop
        /\ t'.stopQty = t.stopQty /\ t'.type = t.type /\ t'.spread = t.spread
        /\ t'.remaining = t.remaining
    BY <2>2, Returned DEF IInv, JsonType
  <2>5. (Legs /\ Named /\ Json)'
    BY <1>1, <1>6, <2>1, <2>4, StillBook DEF IInv, Legs, Named, Json, SpreadClosing
  <2>6. Known'
    <3>1. SUFFICES ASSUME ~Crashes PROVE Known'
      BY <1>1, StillBook DEF Known
    <3>2. Live' \subseteq {t'.stop, t'.spread, t'.long} \union New'
      BY <1>1, <2>1, <2>4, <3>1, StillBook DEF IInv, Known, Live, Ids, NoOrder
    <3>3. long' = 0 => \E j \in ({t'.spread, t'.long} \union New') \ {NoOrder} :
                          orders'[j].st = "filled" /\ orders'[j].kind \notin ShortKinds
      BY <1>1, <2>1, <2>4, <3>1, StillBook DEF IInv, Known
    <3>4. t'.stop # NoOrder => orders'[t'.stop].kind \in ShortKinds
      BY <1>1, <2>4, <3>1, StillBook DEF IInv, Known
    <3> QED
      BY <2>1, <2>4, <3>2, <3>3, <3>4 DEF Known
  <2> QED
    BY <1>1, <2>3, <2>5, <2>6, StillBook DEF IInv
<1> QED
  BY <1>1, <1>3, <1>4, <1>5, <1>6 DEF Recording

-----------------------------------------------------------------------------
(* What the owner starts with. *)

\* A routine begins with nothing but the reason for it.
LEMMA Begun ==
  ASSUME IInv, NEW why \in Whys, NEW step, Begin(why, step)
  PROVE  pc' = step /\ LocType' /\ loc'.why = why /\ loc'.oid = t.stop
BY Sizes DEF Begin, NoLoc, LocType, Whys, IInv, JsonType

\* An open trade is to be covered whole.
LEMMA OpenIsWhole ==
  ASSUME IInv, t.status = "open"
  PROVE  /\ StopQty(t) = Q /\ ~t.shortClosed /\ ~SpreadClosing
         /\ t.spread = NoOrder /\ t.long = NoOrder
         /\ t.type # "none" => t.stop # NoOrder
<1>1. t.remaining \in {None, Q}
  BY DEF IInv, Json
<1> QED
  BY <1>1, Quantities DEF IInv, Json, JsonType, SpreadClosing, Named

LEMMA ReconcileKeeps == IInv /\ Reconcile => IInv'
<1> SUFFICES ASSUME IInv, Reconcile PROVE IInv'
  OBVIOUS
<1>1. /\ pc = "idle" /\ t.status = "open" /\ t.stop # NoOrder /\ t.stop \in Ids
      /\ Still /\ ~SpreadClosing
  BY OpenIsWhole DEF Reconcile, Idle, brokerVars, Still, IInv, JsonType
<1>2. CASE /\ FullyFilled(t.stop)
           /\ Return(ShortFilled(t)) \/ Return([ShortFilled(t) EXCEPT !.handler = "exchange"])
  BY <1>1, <1>2, StopDidFill DEF FullyFilled
<1>3. CASE orders[t.stop].st \in {"cancelled", "dead"} /\ Return(ClearStop(t))
  <2>1. LocType' /\ Here' /\ t' = ClearStop(t) /\ pc' = "idle"
    BY <1>3, Returned
  <2> QED
    BY <1>1, <1>3, <2>1, StopForgotten DEF IInv
<1>4. ~(~FullyFilled(t.stop) /\ orders[t.stop].filled > 0)
  BY <1>1, Sizes DEF FullyFilled, IInv, Book, WholeOrders
<1> QED
  BY <1>2, <1>3, <1>4 DEF Reconcile

LEMMA EnsureStopKeeps == IInv /\ EnsureStop => IInv'
<1> SUFFICES ASSUME IInv, EnsureStop PROVE IInv'
  OBVIOUS
<1>1. pc = "idle" /\ t.status = "open" /\ StopQty(t) = Q /\ ~StopIsCurrent(t)
  BY OpenIsWhole DEF EnsureStop, Idle
<1>2. t.stop = NoOrder
  BY <1>1 DEF StopIsCurrent, IInv, Named
<1>3. Still /\ UNCHANGED t /\ Begin("ensure", "query")
  BY <1>2 DEF EnsureStop, Still
<1>4. pc' = "query" /\ LocType' /\ loc'.why = "ensure"
  BY <1>3, Begun DEF Whys
<1>5. Here'
  BY <1>1, <1>2, <1>3, <1>4 DEF Here, Steps, StopIsOff
<1> QED
  BY <1>1, <1>3, <1>4, <1>5, SameJson DEF IInv

LEMMA UpdateStopKeeps == IInv /\ UpdateStop => IInv'
<1> SUFFICES ASSUME IInv, UpdateStop PROVE IInv'
  OBVIOUS
<1>1. /\ pc = "idle" /\ t.status = "open" /\ Still /\ UNCHANGED t
      /\ Begin("update", IF t.stop = NoOrder THEN "query" ELSE "cancel")
  BY DEF UpdateStop, Idle, Still, Faults
<1>2. /\ pc' = (IF t.stop = NoOrder THEN "query" ELSE "cancel") /\ LocType'
      /\ loc'.why = "update" /\ loc'.oid = t.stop
  BY <1>1, Begun DEF Whys
<1>3. Here'
  BY <1>1, <1>2 DEF Here, Steps, StopIsOff
<1> QED
  BY <1>1, <1>2, <1>3, SameJson DEF IInv

LEMMA BreachKeeps == IInv /\ (Breach \/ Reprice) => IInv'
<1> SUFFICES ASSUME IInv, Breach \/ Reprice PROVE IInv'
  OBVIOUS
<1>1. PICK why \in {"breach", "reprice"} :
        /\ pc = "idle" /\ t.status = "open" /\ t.type # "none" /\ Still /\ UNCHANGED t
        /\ Begin(why, "cancel")
  BY DEF Breach, Reprice, Idle, Still, Faults, brokerVars
<1>2. pc' = "cancel" /\ LocType' /\ loc'.why = why /\ loc'.oid = t.stop
  BY <1>1, Begun DEF Whys
<1>3. Here'
  BY <1>1, <1>2, OpenIsWhole DEF Here, Steps
<1> QED
  BY <1>1, <1>2, <1>3, SameJson DEF IInv

LEMMA ClaimKeeps == IInv /\ Claim => IInv'
<1> SUFFICES ASSUME IInv, Claim PROVE IInv'
  OBVIOUS
<1>1. /\ pc = "idle" /\ t.status # "closed" /\ t.handler = "none" /\ Still
      /\ t' = [t EXCEPT !.handler = "manual", !.killed = TRUE] /\ ~SpreadClosing /\ Begin("kill", "kill")
  BY DEF Claim, Idle, Still, brokerVars, IInv, Json
<1>2. pc' = "kill" /\ LocType' /\ loc'.why = "kill" /\ New = {} /\ New' = {}
  BY <1>1, Begun DEF Whys, New
<1>3. JsonType'
  BY <1>1 DEF IInv, JsonType
<1>4. /\ t'.status = t.status /\ t'.shortClosed = t.shortClosed /\ t'.remaining = t.remaining
      /\ t'.stop = t.stop /\ t'.spread = t.spread /\ t'.long = t.long /\ t'.type = t.type
      /\ t'.stopQty = t.stopQty /\ t'.handler = "manual"
  BY <1>1 DEF IInv, JsonType
<1>5. (Legs /\ Named /\ Json)'
  BY <1>1, <1>4, StillBook DEF IInv, Legs, Named, Json, SpreadClosing
<1>6. Known'
  BY <1>1, <1>2, <1>4, StillBook DEF IInv, Known
<1>7. Here'
  BY <1>1, <1>2, <1>4 DEF Here, Steps, SpreadClosing
<1> QED
  BY <1>1, <1>2, <1>3, <1>5, <1>6, <1>7, StillBook DEF IInv

LEMMA ResumeKillKeeps == IInv /\ ResumeKill => IInv'
<1> SUFFICES ASSUME IInv, ResumeKill PROVE IInv'
  OBVIOUS
<1>1. /\ pc = "idle" /\ t.status = "open" /\ t.handler = "manual" /\ Still /\ UNCHANGED t
      /\ Begin("kill", "kill")
  BY DEF ResumeKill, Idle, Still, brokerVars
<1>2. pc' = "kill" /\ LocType' /\ loc'.why = "kill"
  BY <1>1, Begun DEF Whys
<1>3. Here'
  BY <1>1, <1>2 DEF Here, Steps, SpreadClosing
<1> QED
  BY <1>1, <1>2, <1>3, SameJson DEF IInv

\* A spread close that is off is forgotten; its routine sends it again or ends.
LEMMA SpreadForgotten ==
  ASSUME IInv, Still, pc = "idle", SpreadClosing, t' = [t EXCEPT !.spread = NoOrder],
         t.spread = NoOrder \/ orders[t.spread].st \in {"cancelled", "dead"}, pc' # "record"
  PROVE  /\ (Book /\ Legs /\ JsonType /\ Named /\ Json /\ Known)'
         /\ t'.stop = NoOrder /\ t'.spread = NoOrder /\ t'.handler # "none"
         /\ t'.status = "closing" /\ ~t'.shortClosed
<1>1. JsonType'
  BY DEF IInv, JsonType
<1>2. /\ t'.status = t.status /\ t'.shortClosed = t.shortClosed /\ t'.remaining = t.remaining
      /\ t'.stop = NoOrder /\ t.stop = NoOrder /\ t'.spread = NoOrder /\ t'.long = t.long
      /\ t'.type = t.type /\ t'.stopQty = t.stopQty /\ t'.handler = t.handler
      /\ t.handler # "none" /\ t.status = "closing" /\ ~t.shortClosed
  BY DEF IInv, JsonType, Json, SpreadClosing
<1>3. (Legs /\ Named /\ Json)'
  BY <1>2, StillBook DEF IInv, Legs, Named, Json, SpreadClosing, OnlySpreads
<1>4. Known'
  <2>1. New = {} /\ New' = {} /\ t.spread \notin Live
    BY DEF New, Live, Ids, NoOrder
  <2> QED
    BY <1>2, <2>1, StillBook DEF IInv, Known
<1> QED
  BY <1>1, <1>2, <1>3, <1>4, StillBook

LEMMA PollSpreadKeeps == IInv /\ PollSpread => IInv'
<1> SUFFICES ASSUME IInv, PollSpread PROVE IInv'
  OBVIOUS
<1>1. /\ pc = "idle" /\ t.spread # NoOrder /\ t.spread \in Ids /\ Still /\ SpreadClosing
      /\ orders[t.spread].kind = "spread" /\ t.stop = NoOrder
  BY DEF PollSpread, Idle, Still, brokerVars, IInv, Json, JsonType, SpreadClosing, Named
<1>2. CASE orders[t.spread].st = "filled" /\ Return(ClearStop(Finalized(t)))
  <2>1. short = 0 /\ long = 0
    BY <1>1, <1>2 DEF IInv, Legs
  <2> QED
    BY <1>1, <1>2, <2>1, MarkedClosed
<1>3. CASE /\ orders[t.spread].st \in {"cancelled", "dead"}
           /\ t' = [t EXCEPT !.spread = NoOrder] /\ Begin("poll", "spread")
  <2>1. pc' = "spread" /\ LocType' /\ loc'.why = "poll"
    BY <1>3, Begun DEF Whys
  <2>2. /\ (Book /\ Legs /\ JsonType /\ Named /\ Json /\ Known)'
        /\ t'.stop = NoOrder /\ t'.spread = NoOrder /\ t'.handler # "none"
        /\ t'.status = "closing" /\ ~t'.shortClosed
    BY <1>1, <1>3, <2>1, SpreadForgotten
  <2>3. Here'
    BY <2>1, <2>2 DEF Here, Steps, SpreadClosing
  <2> QED
    BY <2>1, <2>2, <2>3 DEF IInv
<1>4. CASE /\ orders[t.spread].st \in {"cancelled", "dead"}
           /\ Return([t EXCEPT !.spread = NoOrder])
  <2>1. LocType' /\ Here' /\ t' = [t EXCEPT !.spread = NoOrder] /\ pc' = "idle"
    BY <1>1, <1>4, Returned DEF SpreadClosing
  <2> QED
    BY <1>1, <1>4, <2>1, SpreadForgotten DEF IInv
<1> QED
  BY <1>1, <1>2, <1>3, <1>4 DEF PollSpread

LEMMA StallReconcileKeeps == IInv /\ StallReconcile => IInv'
<1> SUFFICES ASSUME IInv, StallReconcile PROVE IInv'
  OBVIOUS
<1>1. pc = "idle" /\ t.status = "closing" /\ Still
  BY DEF StallReconcile, Idle, Still, brokerVars
<1>2. t.spread # NoOrder => SpreadClosing /\ t.spread \in Ids /\ orders[t.spread].kind = "spread"
  BY <1>1 DEF IInv, Json, JsonType, SpreadClosing, Named
<1>3. CASE /\ t.spread # NoOrder /\ orders[t.spread].st = "filled"
           /\ Return([t EXCEPT !.spread = NoOrder, !.status = "closed"])
  <2>1. short = 0 /\ long = 0
    BY <1>2, <1>3 DEF IInv, Legs
  <2> QED
    BY <1>1, <1>3, <2>1, MarkedClosed
<1>4. CASE /\ t.spread # NoOrder /\ orders[t.spread].st \in {"cancelled", "dead"}
           /\ Return([t EXCEPT !.spread = NoOrder])
  <2>1. LocType' /\ Here' /\ t' = [t EXCEPT !.spread = NoOrder] /\ pc' = "idle"
    BY <1>4, Returned
  <2> QED
    BY <1>1, <1>2, <1>4, <2>1, SpreadForgotten DEF IInv
<1>5. CASE /\ t.long # NoOrder /\ orders[t.long].st = "filled"
           /\ Return([t EXCEPT !.status = "closed"])
  <2>1. t.shortClosed /\ t.long \in Ids /\ orders[t.long].kind = "long"
    BY <1>1, <1>5 DEF IInv, Json, JsonType, SpreadClosing, Named
  <2>2. short = 0 /\ long = 0
    BY <1>5, <2>1 DEF IInv, Legs, Json
  <2> QED
    BY <1>1, <1>5, <2>2, MarkedClosed
<1> QED
  BY <1>3, <1>4, <1>5 DEF StallReconcile

LEMMA ChaseKeeps == IInv /\ Chase => IInv'
<1> SUFFICES ASSUME IInv, Chase PROVE IInv'
  OBVIOUS
<1>1. /\ pc = "idle" /\ t.status = "closing" /\ t.shortClosed /\ t.spread = NoOrder /\ short = 0
      /\ New = {} /\ ~SpreadClosing
  BY DEF Chase, Idle, IInv, Json, New, SpreadClosing
<1>2. CASE t.long = NoOrder /\ Begin("chase", "long") /\ UNCHANGED <<brokerVars, t>>
  <2>1. pc' = "long" /\ LocType' /\ loc'.why = "chase" /\ Still /\ UNCHANGED t
    BY <1>2, Begun DEF Whys, Still, brokerVars
  <2>2. Here'
    BY <1>1, <1>2, <2>1 DEF Here, Steps
  <2> QED
    BY <1>1, <2>1, <2>2, SameJson DEF IInv
<1>3. t.long # NoOrder => t.long \in Ids /\ orders[t.long].kind = "long"
  BY DEF IInv, JsonType, Named
<1>4. CASE /\ t.long # NoOrder /\ orders[t.long].st = "filled"
           /\ Return(Finalized(t)) /\ UNCHANGED brokerVars
  <2>1. long = 0 /\ Still
    BY <1>3, <1>4 DEF IInv, Legs, Still, brokerVars
  <2> QED
    BY <1>1, <1>4, <2>1, MarkedClosed
<1> DEFINE r == [t EXCEPT !.long = NoOrder, !.longDone = @ + orders[t.long].filled]
<1>5. CASE /\ t.long # NoOrder /\ orders[t.long].st \in {"cancelled", "dead"}
           /\ IF LongQty(r) <= 0 THEN Return(Finalized(r)) ELSE t' = r /\ Begin("chase", "long")
           /\ UNCHANGED brokerVars
  <2>1. orders[t.long].filled = 0 /\ Still /\ t.longDone = 0
    BY <1>3, <1>5 DEF IInv, Book, WholeOrders, Still, brokerVars, JsonType
  <2>2. r = [t EXCEPT !.long = NoOrder]
    <3>1. t.longDone + orders[t.long].filled = t.longDone
      BY <2>1
    <3>2. r = [t EXCEPT !.long = NoOrder, !.longDone = t.longDone]
      BY <3>1
    <3> QED
      BY <3>2 DEF IInv, JsonType
  <2>3. LongQty(r) = Q
    <3>1. r.qty = Q /\ r.rec \in [Ids -> {0}] /\ r.longDone = 0 /\ r.status # "closed"
      BY <1>1, <2>1, <2>2 DEF IInv, JsonType
    <3> QED
      BY <3>1, Quantities
  <2>4. t' = [t EXCEPT !.long = NoOrder] /\ Begin("chase", "long")
    BY <1>5, <2>2, <2>3, Sizes
  <2>5. pc' = "long" /\ LocType' /\ loc'.why = "chase" /\ New' = {}
    BY <2>4, Begun DEF Whys, New
  <2>6. JsonType'
    BY <2>4 DEF IInv, JsonType
  <2>7. /\ t'.status = "closing" /\ t'.shortClosed /\ t'.remaining = t.remaining
        /\ t'.stop = t.stop /\ t'.spread = NoOrder /\ t'.long = NoOrder /\ t'.type = t.type
        /\ t'.stopQty = t.stopQty
    BY <1>1, <2>4 DEF IInv, JsonType
  <2>8. (Legs /\ Named /\ Json)'
    BY <1>1, <2>1, <2>7, StillBook DEF IInv, Legs, Named, Json, SpreadClosing
  <2>9. Known'
    <3>1. t.long \notin Live
      BY <1>5 DEF Live
    <3>2. Live' \subseteq {t'.stop, t'.spread, t'.long} \/ Crashes
      BY <1>1, <2>1, <2>7, <3>1, StillBook DEF IInv, Known
    <3> QED
      BY <1>1, <1>5, <2>1, <2>5, <2>7, <3>2, StillBook DEF IInv, Known
  <2>10. Here'
    BY <2>5, <2>7 DEF Here, Steps
  <2> QED
    BY <2>1, <2>5, <2>6, <2>8, <2>9, <2>10, StillBook DEF IInv
<1>6. CASE /\ t.long # NoOrder /\ Fault("reprice") /\ orders' = RequestCancelOf(t.long)
           /\ UNCHANGED <<short, long, t, pc, loc>>
  <2>1. /\ Book' /\ Live' = Live /\ Crashes' = Crashes /\ Shared' = Shared
        /\ \A j \in Ids : /\ orders'[j].kind = orders[j].kind
                          /\ orders'[j].st \in {"free", "filled"} \/ orders[j].st \in {"free", "filled"}
                               => orders'[j].st = orders[j].st
                          /\ orders[j].st # "free" => orders'[j].st # "free"
    BY <1>3, <1>6, CancelRequested DEF IInv
  <2>2. LocType' /\ JsonType' /\ New' = {} /\ Here'
    BY <1>1, <1>6 DEF IInv, LocType, JsonType, New, Here
  <2>3. (Legs /\ Named /\ Json)'
    BY <1>1, <1>6, <2>1 DEF IInv, Legs, Named, Json, SpreadClosing, JsonType, Live
  <2>4. Known'
    BY <1>1, <1>6, <2>1, <2>2 DEF IInv, Known, JsonType
  <2> QED
    BY <2>1, <2>2, <2>3, <2>4 DEF IInv
<1> QED
  BY <1>1, <1>2, <1>4, <1>5, <1>6 DEF Chase

LEMMA CrashKeeps == IInv /\ Crash => IInv'
<1> SUFFICES ASSUME IInv, Crash PROVE IInv'
  OBVIOUS
<1>1. Crashes /\ Still /\ Return(t)
  BY DEF Crash, Fault, Crashes, Still, Faults
<1> QED
  BY <1>1, GivesUp

-----------------------------------------------------------------------------
(* The invariant. *)

LEMMA InvInit == Init /\ Clear => IInv
<1> SUFFICES ASSUME Init, Clear PROVE IInv
  OBVIOUS
<1>1. /\ orders = [i \in Ids |-> [kind |-> "none", qty |-> 0, filled |-> 0, st |-> "free"]]
      /\ short = Q /\ long = Q /\ budget \in [of : Scenarios, left : {MaxFaults}]
      /\ t = [status |-> "open", handler |-> "none", qty |-> Q,
              stop |-> NoOrder, type |-> "none", stopQty |-> 0,
              rec |-> [i \in Ids |-> 0], remaining |-> None, shortClosed |-> FALSE,
              spread |-> NoOrder, long |-> NoOrder, longDone |-> 0, killed |-> FALSE]
      /\ pc = "idle" /\ loc = NoLoc
  BY DEF Init, BrokerInit
<1>2. Live = {} /\ New = {}
  BY <1>1 DEF Live, New
<1>3. budget \in [of : Scenarios, left : 0..MaxFaults]
  BY <1>1, Sizes
<1>4. BrokerTypeOK
  BY <1>1, <1>3, Sizes DEF BrokerTypeOK
<1>5. WholeOrders /\ Numbered /\ OneLive
  <2>1. 0 \in 0..MaxOrders /\ \A i \in Ids : ~(i <= 0)
    BY Sizes DEF Ids
  <2> QED
    BY <1>1, <1>2, <2>1 DEF WholeOrders, Numbered, OneLive
<1>6. Legs /\ JsonType /\ Named
  BY <1>1, <1>2, Sizes DEF Legs, JsonType, Named
<1>7. Json /\ LocType /\ Here /\ Known
  BY <1>1, <1>2, Sizes DEF Json, LocType, Here, Known, NoLoc, Steps, Whys, SpreadClosing
<1> QED
  BY <1>3, <1>4, <1>5, <1>6, <1>7 DEF IInv, Book

LEMMA InvStep == IInv /\ [Next]_vars => IInv'
<1> SUFFICES ASSUME IInv, [Next]_vars PROVE IInv'
  OBVIOUS
<1>1. CASE Start
  BY <1>1, ReconcileKeeps, EnsureStopKeeps, UpdateStopKeeps, BreachKeeps, ClaimKeeps,
     ResumeKillKeeps, PollSpreadKeeps, StallReconcileKeeps, ChaseKeeps DEF Start
<1>2. CASE Routine
  <2>1. ~PlaceRemaining
    BY DEF PlaceRemaining, IInv, Here
  <2> QED
    BY <1>2, <2>1, RequestCancelKeeps, CancelledKeeps, FilledInsteadKeeps, NotConfirmedKeeps,
       StopFilledKeeps, PlaceLimitKeeps, CheckPositionKeeps, PlaceStopKeeps, KillKeeps,
       PlaceSpreadKeeps, PlaceLongKeeps, RecordKeeps DEF Routine
<1>3. CASE Crash
  BY <1>3, CrashKeeps
<1>4. CASE Market
  BY <1>4, MarketKeeps
<1>5. CASE UNCHANGED vars
  <2>1. /\ Book' /\ Legs' /\ JsonType' /\ Named' /\ Json'
    BY <1>5, SameJson DEF vars, brokerVars, Still
  <2>2. LocType' /\ Here' /\ Known'
    BY <1>5 DEF vars, brokerVars, IInv, LocType, Here, Known, New, Live, Crashes, Recording,
                StopIsOff, SpreadClosing, OnlySpreads
  <2> QED
    BY <2>1, <2>2 DEF IInv
<1> QED
  BY <1>1, <1>2, <1>3, <1>4, <1>5 DEF Next

\* At every moment of such a run at most one order of the trade is live and backed by the
\* contracts it closes, and the trade JSON knows where it stands (monitor.py).
THEOREM OrdersInvariant == Spec /\ Clear => []IInv
BY InvInit, InvStep, PTL DEF Spec

LEMMA SoundStep == IInv => OrdersSound
<1> SUFFICES ASSUME IInv PROVE OrdersSound
  OBVIOUS
<1>1. TypeOK
  <2>1. Q \in 1..Q /\ Q \in 0..Q /\ 0 \in 0..Q
    BY Sizes
  <2>2. t \in [status : {"open", "closing", "closed"},
               handler : {"none", "manual", "breach", "exchange"},
               qty : 1..Q, stop : {NoOrder} \union Ids, type : {"none", "stop", "limit"},
               stopQty : 0..Q, rec : [Ids -> 0..Q], remaining : {None} \union (0..Q),
               shortClosed : BOOLEAN, spread : {NoOrder} \union Ids,
               long : {NoOrder} \union Ids, longDone : 0..Q, killed : BOOLEAN]
    BY <2>1 DEF IInv, JsonType
  <2>3. pc \in Steps /\ loc \in [why : Whys, oid : {NoOrder} \union Ids, seen : 0..Q, qty : 0..Q,
                                 new : {NoOrder} \union Ids]
    BY <2>1 DEF IInv, Here, LocType
  <2> QED
    BY <2>2, <2>3 DEF TypeOK, IInv, Book
<1>2. NoOrphanOrders
  BY DEF NoOrphanOrders, IInv, Known, Idle, New
<1>3. KnowsRemaining
  <2>1. SUFFICES ASSUME Idle, ~Crashes, t.status = "open",
                        t.stop # NoOrder => orders[t.stop].filled = 0
                 PROVE  StopQty(t) = short
    BY DEF KnowsRemaining
  <2>2. t.stop # NoOrder => orders[t.stop].st # "filled"
    BY <2>1, Sizes DEF IInv, Book, WholeOrders, JsonType
  <2>3. short # 0
    BY <2>1, <2>2, OpenIsWhole DEF IInv, Known, New, Idle
  <2> QED
    BY <2>1, <2>3, OpenIsWhole DEF IInv, Legs
<1>4. NeverNaked
  BY DEF NeverNaked, IInv, Legs
<1> QED
  BY <1>1, <1>2, <1>3, <1>4 DEF OrdersSound

\* Nothing works at the broker that the trade JSON does not name between two
\* routines, the count of the contracts left is right, and the short leg is
\* never naked (monitor.py, the V3 handlers).
THEOREM OrdersAreSound == Spec /\ Clear => []OrdersSound
BY OrdersInvariant, SoundStep, PTL

-----------------------------------------------------------------------------
(* The lifecycle. *)

\* A step of the owner closes no leg, and the status of the trade only advances.
LEMMA StatusAdvances ==
  ASSUME IInv, Start \/ Routine \/ Crash
  PROVE  /\ UNCHANGED <<short, long>>
         /\ \/ t'.status = t.status
            \/ t.status = "open" /\ t'.status = "closing"
            \/ t.status # "closed" /\ t'.status = "closed"
<1> DEFINE Advances == \/ t'.status = t.status
                       \/ t.status = "open" /\ t'.status = "closing"
                       \/ t.status # "closed" /\ t'.status = "closed"
<1>1. UNCHANGED <<short, long>>
  <2>1. CASE Start
    BY <2>1, SMTT(40) DEF Start, Reconcile, EnsureStop, UpdateStop, Breach, Reprice, Claim, ResumeKill,
         PollSpread, StallReconcile, Chase, brokerVars
  <2>2. CASE Routine
    BY <2>2 DEF Routine, RequestCancel, Cancelled, FilledInstead, NotConfirmed, StopFilled,
         PlaceLimit, PlaceRemaining, CheckPosition, PlaceStop, Kill, PlaceSpread, PlaceLong,
         Record, Refuse, Send, Accept, brokerVars
  <2> QED
    BY <2>1, <2>2 DEF Crash
<1>2. JsonType
  BY DEF IInv
<1>4. ASSUME Start PROVE Advances
  <2>1. ASSUME Reconcile PROVE Advances
    <3>1. ShortFilled(t) = [t EXCEPT !.status = "closing", !.shortClosed = TRUE, !.remaining = 0]
          \/ ShortFilled(t) = t
      BY <1>2 DEF ShortFilled, ShortGone, JsonType
    <3>2. /\ ShortFilled(t).status \in {t.status, "closing"}
          /\ [ShortFilled(t) EXCEPT !.handler = "exchange"].status \in {t.status, "closing"}
          /\ ClearStop(t).status = t.status
      BY <1>2, <3>1 DEF ClearStop, JsonType
    <3>3. /\ t.status = "open"
          /\ t' \in {t, ShortFilled(t), [ShortFilled(t) EXCEPT !.handler = "exchange"], ClearStop(t)}
      BY <2>1 DEF Reconcile, Return
    <3> QED
      BY <3>2, <3>3
  <2>2. ASSUME EnsureStop \/ UpdateStop \/ Breach \/ Reprice \/ Claim \/ ResumeKill PROVE Advances
    BY <1>2, <2>2 DEF EnsureStop, UpdateStop, Breach, Reprice, Claim, ResumeKill, ClearStop, JsonType
  <2>3. ASSUME PollSpread \/ StallReconcile PROVE Advances
    BY <1>2, <2>3 DEF PollSpread, StallReconcile, Return, Finalized, ClearStop, JsonType
  <2>4. ASSUME Chase PROVE Advances
    BY <1>2, <2>4, ZenonT(60) DEF Chase, Return, Begin, Finalized, JsonType
  <2> QED
    BY <1>4, <2>1, <2>2, <2>3, <2>4 DEF Start
<1>5. ASSUME Routine PROVE Advances
  <2>1. pc # "idle" /\ t.status # "closed" /\ pc # "partial"
    <3>1. pc # "idle"
      BY <1>5 DEF Routine, RequestCancel, Cancelled, FilledInstead, NotConfirmed, StopFilled,
         PlaceLimit, PlaceRemaining, CheckPosition, PlaceStop, Kill, PlaceSpread, PlaceLong,
         Record
    <3> QED
      BY <3>1 DEF Here, IInv
  <2>2. ASSUME RequestCancel \/ FilledInstead \/ NotConfirmed \/ Kill PROVE Advances
    BY <2>2 DEF RequestCancel, FilledInstead, NotConfirmed, Kill, Return, Continue
  <2>3. SUFFICES ASSUME t'.status \notin {t.status, "closed"}
                 PROVE  t.status = "open" /\ t'.status = "closing"
    BY <2>1
  <2>4. SUFFICES t' = t \/ t'.status = "closing"
    BY <1>2, <2>1, <2>3 DEF JsonType
  <2>5. ASSUME Cancelled PROVE t' = t
    <3>1. loc.why \in {"breach", "reprice", "update", "kill"}
      BY <2>5 DEF Cancelled, IInv, Here
    <3>2. ClearStop(t).status = t.status
      BY <1>2 DEF ClearStop, JsonType
    <3> QED
      BY <2>3, <2>5, <3>1, <3>2 DEF Cancelled, Continue
  <2>6. ASSUME StopFilled PROVE t'.status = "closing"
    <3>1. ShortFilled(t) = [t EXCEPT !.status = "closing", !.shortClosed = TRUE, !.remaining = 0]
          \/ ShortFilled(t) = t
      BY <1>2 DEF ShortFilled, ShortGone, JsonType
    <3>2. SignBreach(ShortFilled(t)).status \in {t.status, "closing"}
      BY <1>2, <3>1 DEF SignBreach, JsonType
    <3>3. t' = t \/ t' = SignBreach(ShortFilled(t))
      BY <2>6 DEF StopFilled, Return, Continue
    <3> QED
      BY <2>3, <3>2, <3>3
  <2>7. ASSUME PlaceLimit PROVE t' = t \/ t'.status = "closing"
    <3> DEFINE r == IF orders[loc.oid].filled > 0 THEN RecordFill(t, loc.oid, orders[loc.oid].filled) ELSE t
               gone == ClearStop([ShortGone(r) EXCEPT !.remaining = 0])
    <3>1. r = t \/ r = [t EXCEPT !.rec[loc.oid] = orders[loc.oid].filled]
      BY DEF RecordFill
    <3>2. r.status = t.status
      BY <1>2, <3>1 DEF JsonType
    <3>3. SignBreach(gone).status = "closing"
      BY <1>2, <3>1 DEF SignBreach, ClearStop, ShortGone, JsonType
    <3>4. t' = t \/ t' = r \/ t' = SignBreach(gone)
      BY <2>7 DEF PlaceLimit, Return, Send
    <3> QED
      BY <2>3, <3>2, <3>3, <3>4
  <2>8. ASSUME CheckPosition \/ PlaceStop PROVE t' = t \/ t'.status = "closing"
    BY <1>2, <2>3, <2>8 DEF CheckPosition, PlaceStop, Return, Send, ShortGone, ClearStop, Adopt, JsonType
  <2>9. ASSUME PlaceSpread \/ PlaceLong PROVE t' = t
    BY <1>2, <2>3, <2>9 DEF PlaceSpread, PlaceLong, Return, Send, Finalized, JsonType
  <2>10. ASSUME Record PROVE t'.status = "closing"
    <3>1. orders[loc.new].kind \in Kinds
      BY <2>10 DEF Record, IInv, Here, Recording, Kinds, ShortKinds
    <3>2. CASE orders[loc.new].kind = "limit"
      <4> DEFINE r == IF orders[loc.oid].filled > 0 THEN RecordFill(t, loc.oid, orders[loc.oid].filled) ELSE t
                 s == [r EXCEPT !.stop = loc.new, !.type = "limit", !.stopQty = loc.qty,
                                !.remaining = loc.qty, !.killed = @ /\ loc.why # "partial"]
      <4>1. loc.why # "partial"
        BY <2>10, <3>2 DEF Record, IInv, Here, Recording
      <4>2. t' = SignBreach(s)
        BY <2>10, <3>2, <4>1 DEF Record, Return
      <4>3. r = t \/ r = [t EXCEPT !.rec[loc.oid] = orders[loc.oid].filled]
        BY DEF RecordFill
      <4>4. SignBreach(s).status = t.status
        BY <1>2, <4>3, SMTT(40) DEF SignBreach, JsonType
      <4> QED
        BY <2>3, <4>2, <4>4
    <3>3. CASE orders[loc.new].kind # "limit"
      BY <1>2, <2>3, <2>10, <3>1, <3>3, ZenonT(60)
         DEF Record, Return, SignBreach, Finalized, ClearStop, Kinds, ShortKinds, JsonType
    <3> QED
      BY <3>2, <3>3
  <2>11. ~PlaceRemaining
    BY <2>1 DEF PlaceRemaining
  <2> QED
    BY <1>5, <2>2, <2>3, <2>5, <2>6, <2>7, <2>8, <2>9, <2>10, <2>11 DEF Routine
<1>6. ASSUME Crash PROVE Advances
  BY <1>6 DEF Crash, Return
<1> QED
  BY <1>1, <1>4, <1>5, <1>6

\* An order that fills closes its legs of a trade that is not closed yet, the long
\* leg alone only when the short leg is gone.
LEMMA FillIsClose ==
  ASSUME IInv, NEW i \in Ids, NEW n \in 1..Q, Fill(i, n)
  PROVE  /\ t.status # "closed"
         /\ \/ n <= short /\ short' = short - n /\ UNCHANGED long
            \/ n <= short /\ n <= long /\ short' = short - n /\ long' = long - n
            \/ t.status = "closing" /\ short <= long - n /\ long' = long - n /\ UNCHANGED short
<1>1. /\ i \in Live /\ orders[i].filled = 0 /\ orders[i].qty = Q /\ orders[i].kind \in Kinds
      /\ n <= Q
  BY Sizes DEF Fill, IInv, Book, WholeOrders, Live, Rest
<1>2. /\ i \in Buying <=> orders[i].kind # "long"
      /\ i \in Selling <=> orders[i].kind \in {"spread", "long"}
  BY <1>1 DEF Buying, Selling, Kinds, ShortKinds
<1>3. /\ long = Q /\ (orders[i].kind # "long" => short = Q)
      /\ orders[i].kind = "long" => t.status = "closing" /\ short = 0
  BY <1>1 DEF IInv, Legs, Json
<1>4. n = Q
  BY <1>1, Sizes DEF Fill, Rest, Fault, IInv, Book, Clear
<1>5. t.status # "closed"
  BY <1>3, Sizes DEF IInv, Json
<1>6. /\ short' = IF i \in Buying THEN short - n ELSE short
      /\ long' = IF i \in Selling THEN long - n ELSE long
  BY DEF Fill
<1> QED
  BY <1>1, <1>2, <1>3, <1>4, <1>5, <1>6, Sizes DEF Kinds, ShortKinds

LEMMA LifecycleInit == Init /\ Clear => Lifecycle!Init
BY DEF Init, BrokerInit, Clear, Resizes, Lifecycle!Init

LEMMA LifecycleStep == IInv /\ IInv' /\ [Next]_vars => [Lifecycle!Next]_Lifecycle!vars
<1> SUFFICES ASSUME IInv, IInv', [Next]_vars PROVE [Lifecycle!Next]_Lifecycle!vars
  OBVIOUS
<1>1. ~Resizes /\ ~Resizes'
  BY DEF IInv, Book, Clear, Resizes
<1> DEFINE Stays == UNCHANGED <<short, long>> /\ t'.status = t.status
<1>2. ASSUME Stays PROVE UNCHANGED Lifecycle!vars
  BY <1>1, <1>2 DEF Lifecycle!vars
<1>3. CASE Start \/ Routine \/ Crash
  <2>1. CASE t'.status = t.status
    BY <1>2, <1>3, <2>1, StatusAdvances
  <2>2. CASE t.status = "open" /\ t'.status = "closing"
    <3>1. Lifecycle!StartClosing
      BY <1>1, <1>3, <2>2, StatusAdvances DEF Lifecycle!StartClosing
    <3> QED
      BY <3>1 DEF Lifecycle!Next
  <2>3. CASE t.status # "closed" /\ t'.status = "closed"
    <3>1. short' = 0 /\ long' = 0
      BY <2>3 DEF IInv, Json
    <3>2. Lifecycle!Finish
      BY <1>1, <1>3, <2>3, <3>1, StatusAdvances DEF Lifecycle!Finish
    <3> QED
      BY <3>2 DEF Lifecycle!Next
  <2> QED
    BY <1>3, <2>1, <2>2, <2>3, StatusAdvances
<1>4. CASE Market
  <2>1. UNCHANGED t
    BY <1>4 DEF Market
  <2>2. PICK i \in Ids : TakeCancel(i) \/ Expire(i) \/ \E n \in 1..Q : Fill(i, n)
    BY <1>4 DEF Market, Exchange
  <2>3. CASE TakeCancel(i) \/ Expire(i)
    BY <1>2, <2>1, <2>3 DEF TakeCancel, Expire
  <2>4. ASSUME NEW n \in 1..Q, Fill(i, n) PROVE Lifecycle!Next
    <3>1. \/ Lifecycle!CloseShort(n)
          \/ Lifecycle!CloseSpread(n)
          \/ Lifecycle!CloseLong(n)
      BY <1>1, <2>1, <2>4, FillIsClose
         DEF Lifecycle!CloseShort, Lifecycle!CloseSpread, Lifecycle!CloseLong
    <3> QED
      BY <3>1 DEF Lifecycle!Next
  <2> QED
    BY <2>2, <2>3, <2>4
<1>5. CASE UNCHANGED vars
  BY <1>2, <1>5 DEF vars, brokerVars
<1> QED
  BY <1>3, <1>4, <1>5 DEF Next

\* The stop engine closes the spread the way SpreadLifecycle promises: the long
\* leg covers the short leg to the end, nothing is closed further than flat, and
\* 'closed' is written exactly when both legs are flat.
THEOREM LifecycleImplemented == Spec /\ Clear => ImplementsLifecycle
<1>1. Init /\ Clear => Lifecycle!Init
  BY LifecycleInit
<1>2. IInv /\ IInv' /\ [Next]_vars => [Lifecycle!Next]_Lifecycle!vars
  BY LifecycleStep
<1> QED
  BY <1>1, <1>2, OrdersInvariant, PTL DEF Spec, ImplementsLifecycle, Lifecycle!Spec

-----------------------------------------------------------------------------
(* Commands and jobs. *)

Scanning == ScanSteps \ {"idle", "batch", "next"}

\* the scan thread is at a slot
AtSlot == at \in Scanning => cur \in Paths

\* only a job whose pipeline is over has cleared its id
ClearedLeaves == \A p \in cleared : phase[p] = "leaving"

\* a job keeps exit_job_id set until it clears it
Owned == \A p \in Paths : HasJob(p) /\ p \notin cleared => exitJob[p] # "none"

RouteIsFree == at = "route" => ~HasJob(cur)

CInv == /\ CommandsTypeOK /\ AtSlot /\ ClearedLeaves /\ Owned /\ RouteIsFree
        /\ PendingHasJob /\ ManualExcludesBreach

-----------------------------------------------------------------------------
(* A submit by the scan thread. *)

\* What a submit may start in a trade that keeps its claim.
LEMMA EnqueueType ==
  ASSUME CommandsTypeOK, NEW p \in Paths, NEW k \in Handlers, Enqueue(p, k)
  PROVE  /\ phase' \in [Paths -> Registry!Phases]
         /\ kind' \in [Paths -> Handlers \union {"none"}]
         /\ cleared' = cleared
         /\ exitJob' \in [Paths -> {"none", "pending", "active"}]
         /\ \A q \in Paths \ {p} :
              phase'[q] = phase[q] /\ kind'[q] = kind[q] /\ exitJob'[q] = exitJob[q]
         /\ \/ /\ phase[p] = "none" /\ phase'[p] = "waiting"
               /\ kind'[p] = k /\ exitJob'[p] = "pending"
            \/ /\ phase[p] # "none" /\ phase'[p] = phase[p]
               /\ kind'[p] = kind[p] /\ exitJob'[p] = "none"
BY DEF CommandsTypeOK, Enqueue, HasJob, jobVars, Registry!Start, Registry!Phases

\* A submit keeps the invariants of jobs, provided it does not refuse a job
\* under a live id and starts no breach in a trade whose close is claimed.
LEMMA EnqueueKeeps ==
  ASSUME CInv, NEW p \in Paths, NEW k \in Handlers, Enqueue(p, k),
         exitJob[p] = "none" \/ ~HasJob(p),
         \A q \in Paths \ {p} : handler'[q] = handler[q],
         k = "breach" => handler'[p] # "manual"
  PROVE  (ClearedLeaves /\ Owned /\ PendingHasJob /\ ManualExcludesBreach)'
<1> USE DEF HasJob
<1>1. cleared' = cleared /\ cleared \subseteq Paths
  BY EnqueueType DEF CInv, CommandsTypeOK
<1>2. CASE phase[p] = "none"
  <2>1. /\ phase'[p] = "waiting" /\ kind'[p] = k /\ exitJob'[p] = "pending"
        /\ p \notin cleared
    BY <1>2, EnqueueType DEF CInv, ClearedLeaves
  <2> QED
    BY <1>1, <2>1, EnqueueType
    DEF CInv, ClearedLeaves, Owned, PendingHasJob, ManualExcludesBreach
<1>3. CASE phase[p] # "none"
  <2>1. phase'[p] = phase[p] /\ kind'[p] = kind[p] /\ exitJob'[p] = "none"
    BY <1>3, EnqueueType DEF CInv
  <2>2. p \in cleared /\ phase[p] = "leaving"
    BY <1>3 DEF CInv, Owned, ClearedLeaves
  <2> QED
    BY <1>1, <2>1, <2>2, EnqueueType
    DEF CInv, ClearedLeaves, Owned, PendingHasJob, ManualExcludesBreach
<1> QED
  BY <1>2, <1>3

-----------------------------------------------------------------------------
(* The inductive invariant. *)

LEMMA CInvInit == CommandsInit => CInv
<1> SUFFICES ASSUME CommandsInit PROVE CInv
  OBVIOUS
<1>1. CommandsTypeOK
  BY DEF CommandsInit, Registry!Init, CommandsTypeOK, Registry!Phases, Statuses, ScanSteps
<1>2. AtSlot /\ ClearedLeaves /\ Owned /\ RouteIsFree /\ PendingHasJob /\ ManualExcludesBreach
  BY DEF CommandsInit, Registry!Init, Scanning, AtSlot, ClearedLeaves, Owned, RouteIsFree,
     PendingHasJob, ManualExcludesBreach, HasJob
<1> QED
  BY <1>1, <1>2 DEF CInv

\* A step of the operator changes nothing the invariant is about.
LEMMA OperatorKeeps == CInv /\ Operator => CInv'
<1> USE DEF CInv, CommandsTypeOK, AtSlot, ClearedLeaves, Owned, RouteIsFree, PendingHasJob,
            ManualExcludesBreach, HasJob, jobVars, tradeVars, scanVars
<1>1. ASSUME CInv, PressKill PROVE CInv'
  BY <1>1 DEF PressKill
<1>2. ASSUME CInv, NEW p \in Paths, RequestClose(p) PROVE CInv'
  BY <1>2 DEF RequestClose
<1>3. ASSUME CInv, NEW p \in Paths, RequestUpdate(p) PROVE CInv'
  BY <1>3 DEF RequestUpdate
<1> QED
  BY <1>1, <1>2, <1>3 DEF Operator

LEMMA RestartKeeps == CInv /\ Restart => CInv'
<1> SUFFICES ASSUME CInv, Restart PROVE CInv'
  OBVIOUS
<1>1. CommandsTypeOK'
  BY DEF CInv, Restart, CommandsTypeOK, tradeVars, fileVars, Registry!Phases, ScanSteps
<1>2. (AtSlot /\ ClearedLeaves /\ Owned /\ RouteIsFree /\ PendingHasJob /\ ManualExcludesBreach)'
  BY DEF Restart, Scanning, AtSlot, ClearedLeaves, Owned, RouteIsFree, PendingHasJob,
     ManualExcludesBreach, HasJob
<1> QED
  BY <1>1, <1>2 DEF CInv

\* An outcome of a handler claims no trade for a manual close.
LEMMA OutcomeType ==
  ASSUME CommandsTypeOK, NEW p \in Paths, NEW o \in Outcomes(p)
  PROVE  /\ o.s \in Statuses /\ o.c \in BOOLEAN
         /\ o.h \in {"none", "manual", "breach", "exchange"}
         /\ o.h = "manual" => handler[p] = "manual"
<1>1. status[p] \in Statuses /\ closeOnly[p] \in BOOLEAN
      /\ handler[p] \in {"none", "manual", "breach", "exchange"}
  BY DEF CommandsTypeOK
<1>2. CASE o = [s |-> status[p], c |-> closeOnly[p], h |-> handler[p]]
  BY <1>1, <1>2
<1>3. CASE o # [s |-> status[p], c |-> closeOnly[p], h |-> handler[p]]
  <2>1. \/ o.s \in {"spread", "long"} /\ o.c = closeOnly[p] /\ o.h = handler[p]
        \/ o.s \in {"open", "long"} /\ o.c = TRUE
             /\ o.h = (IF handler[p] = "none" THEN "breach" ELSE handler[p])
        \/ o.s = "closed" /\ o.c = FALSE /\ o.h = "none"
    BY <1>3 DEF Outcomes
  <2> QED
    BY <1>1, <2>1 DEF Statuses
<1> QED
  BY <1>2, <1>3

LEMMA JobKeeps == ASSUME CInv, NEW p \in Paths, Job(p) PROVE CInv'
<1> USE DEF HasJob
<1>1. CASE StartWork(p)
  <2>1. /\ phase[p] = "waiting" /\ phase' = [phase EXCEPT ![p] = "working"]
        /\ kind[p] \in Handlers \union {"none"}
    BY <1>1 DEF StartWork, Registry!Work, CInv, CommandsTypeOK
  <2>2. handler'[p] = "manual" => handler[p] = "manual"
    BY <1>1, <2>1 DEF StartWork, CInv, CommandsTypeOK
  <2>3. CommandsTypeOK'
    BY <1>1, <2>1 DEF StartWork, CInv, CommandsTypeOK, Registry!Phases, fileVars, scanVars
  <2>4. \A q \in Paths \ {p} : phase'[q] = phase[q] /\ handler'[q] = handler[q]
    BY <1>1, <2>1 DEF StartWork, CInv, CommandsTypeOK
  <2> QED
    BY <1>1, <2>1, <2>2, <2>3, <2>4 DEF StartWork, CInv, CommandsTypeOK, AtSlot, ClearedLeaves, Owned,
       RouteIsFree, PendingHasJob, ManualExcludesBreach, scanVars, Scanning
<1>2. CASE AbandonJob(p)
  <2>1. phase[p] = "waiting" /\ phase' = [phase EXCEPT ![p] = "leaving"]
    BY <1>2 DEF AbandonJob, Registry!Abandon
  <2> QED
    BY <1>2, <2>1 DEF AbandonJob, CInv, CommandsTypeOK, Registry!Phases, tradeVars, fileVars,
       scanVars, AtSlot, ClearedLeaves, Owned, RouteIsFree, PendingHasJob, ManualExcludesBreach
<1>3. CASE FinishWork(p)
  <2>1. phase[p] = "working" /\ phase' = [phase EXCEPT ![p] = "leaving"]
    BY <1>3 DEF FinishWork, Registry!Finish
  <2>2. PICK o \in Outcomes(p) : /\ status' = [status EXCEPT ![p] = o.s]
                                 /\ closeOnly' = [closeOnly EXCEPT ![p] = o.c]
                                 /\ handler' = [handler EXCEPT ![p] = o.h]
    BY <1>3 DEF FinishWork
  <2>3. CommandsTypeOK'
    BY <1>3, <2>1, <2>2, OutcomeType
    DEF FinishWork, CInv, CommandsTypeOK, Registry!Phases, fileVars, scanVars
  <2>4. \A q \in Paths \ {p} : phase'[q] = phase[q] /\ handler'[q] = handler[q]
    BY <2>1, <2>2 DEF CInv, CommandsTypeOK
  <2>5. phase'[p] = "leaving"
    BY <2>1 DEF CInv, CommandsTypeOK
  <2> QED
    BY <1>3, <2>1, <2>3, <2>4, <2>5 DEF FinishWork, CInv, AtSlot, ClearedLeaves, Owned,
       RouteIsFree, PendingHasJob, ManualExcludesBreach, scanVars, CommandsTypeOK
<1>4. CASE ClearId(p)
  BY <1>4 DEF ClearId, CInv, CommandsTypeOK, tradeVars, fileVars, scanVars, AtSlot,
     ClearedLeaves, Owned, RouteIsFree, PendingHasJob, ManualExcludesBreach
<1>5. CASE EndJob(p)
  <2>1. phase[p] = "leaving" /\ phase' = [phase EXCEPT ![p] = "none"]
    BY <1>5 DEF EndJob, Registry!End
  <2> QED
    BY <1>5, <2>1 DEF EndJob, CInv, CommandsTypeOK, Registry!Phases, tradeVars, fileVars,
       scanVars, AtSlot, ClearedLeaves, Owned, RouteIsFree, PendingHasJob, ManualExcludesBreach
<1> QED
  BY <1>1, <1>2, <1>3, <1>4, <1>5 DEF Job

LEMMA BatchSyncKeeps == ASSUME CInv, NEW p \in Paths, BatchSync(p) PROVE CInv'
<1>1. CASE Enqueue(p, "exchange") /\ UNCHANGED status
  <2>1. "exchange" \in Handlers /\ CommandsTypeOK
    BY DEF Handlers, CInv
  <2>2. (ClearedLeaves /\ Owned /\ PendingHasJob /\ ManualExcludesBreach)'
    BY <1>1, <2>1, EnqueueKeeps DEF BatchSync
  <2>3. CommandsTypeOK'
    BY <1>1, <2>1, EnqueueType DEF BatchSync, CommandsTypeOK, fileVars, scanVars
  <2> QED
    BY <1>1, <2>2, <2>3 DEF BatchSync, CInv, AtSlot, RouteIsFree, scanVars
<1>2. CASE status' = [status EXCEPT ![p] = "long"] /\ UNCHANGED <<jobVars, exitJob>>
  BY <1>2 DEF BatchSync, CInv, CommandsTypeOK, Statuses, jobVars, fileVars, scanVars, AtSlot,
     ClearedLeaves, Owned, RouteIsFree, PendingHasJob, ManualExcludesBreach, HasJob
<1> QED
  BY <1>1, <1>2 DEF BatchSync

\* The claim of a manual close and the submit of its kill.
LEMMA CommandClaimKeeps ==
  ASSUME CInv, NEW p \in Paths, MayClaim(p), ClaimAndEnqueue(p), cur = p,
         UNCHANGED <<status, fileVars, count>>
  PROVE  CInv'
<1>1. "manual" \in Handlers /\ CommandsTypeOK
  BY DEF Handlers, CInv
<1>2. /\ Enqueue(p, "manual") /\ exitJob[p] = "none" /\ handler' = [handler EXCEPT ![p] = "manual"]
      /\ closeOnly' = [closeOnly EXCEPT ![p] = TRUE]
      /\ at' = "next" /\ UNCHANGED <<killClaimed, killSeen, todo, cur>>
  BY DEF ClaimAndEnqueue, MayClaim, Go
<1>3. \A q \in Paths \ {p} : handler'[q] = handler[q]
  BY <1>1, <1>2 DEF CommandsTypeOK
<1>4. (ClearedLeaves /\ Owned /\ PendingHasJob /\ ManualExcludesBreach)'
  BY <1>1, <1>2, <1>3, EnqueueKeeps
<1>5. CommandsTypeOK'
  BY <1>1, <1>2, EnqueueType DEF CommandsTypeOK, fileVars, ScanSteps
<1> QED
  BY <1>2, <1>4, <1>5 DEF CInv, AtSlot, RouteIsFree, Scanning

LEMMA ScanKeeps == CInv /\ Scan => CInv'
<1> SUFFICES ASSUME CInv, Scan PROVE CInv'
  OBVIOUS
<1> USE DEF HasJob
<1>0. CommandsTypeOK /\ (at \in Scanning => cur \in Paths)
  BY DEF CInv, AtSlot
<1>1. CASE BeginCycle
  BY <1>1 DEF BeginCycle, CInv, CommandsTypeOK, ScanSteps, Scanning, jobVars, tradeVars, AtSlot,
     ClearedLeaves, Owned, RouteIsFree, PendingHasJob, ManualExcludesBreach
<1>2. ASSUME NEW p \in Paths, PickSlot(p) PROVE CInv'
  <2>1. status' \in [Paths -> Statuses]
    BY <1>0, <1>2 DEF PickSlot, CommandsTypeOK, Statuses
  <2> QED
    BY <1>2, <2>1 DEF PickSlot, CInv, CommandsTypeOK, ScanSteps, Scanning, jobVars, fileVars,
       AtSlot, ClearedLeaves, Owned, RouteIsFree, PendingHasJob, ManualExcludesBreach
<1>3. CASE EndCycle
  BY <1>3 DEF EndCycle, CInv, CommandsTypeOK, ScanSteps, Scanning, jobVars, tradeVars, fileVars,
     AtSlot, ClearedLeaves, Owned, RouteIsFree, PendingHasJob, ManualExcludesBreach
<1>4. CASE ScanKill
  <2>1. cur \in Paths
    BY <1>0, <1>4 DEF ScanKill, Scanning, ScanSteps
  <2>2. CASE KillApplies(cur) /\ ClaimAndEnqueue(cur)
    BY <1>4, <2>1, <2>2, CommandClaimKeeps DEF ScanKill, KillApplies
  <2>3. CASE Go("command") /\ UNCHANGED <<jobVars, exitJob, closeOnly, handler>>
    BY <1>4, <2>1, <2>3 DEF ScanKill, Go, CInv, CommandsTypeOK, ScanSteps, Scanning, jobVars,
       fileVars, AtSlot, ClearedLeaves, Owned, RouteIsFree, PendingHasJob, ManualExcludesBreach
  <2> QED
    BY <1>4, <2>2, <2>3 DEF ScanKill
<1>5. CASE ScanCommand
  <2>1. cur \in Paths
    BY <1>0, <1>5 DEF ScanCommand, Scanning, ScanSteps
  <2>2. at' \in {"claim", "updating", "hasJob"} /\ UNCHANGED <<killClaimed, killSeen, todo, cur>>
    BY <1>5 DEF ScanCommand, Go, AfterClose
  <2> QED
    BY <1>5, <2>1, <2>2 DEF ScanCommand, CInv, CommandsTypeOK, ScanSteps, Scanning, jobVars,
       tradeVars, AtSlot, ClearedLeaves, Owned, RouteIsFree, PendingHasJob, ManualExcludesBreach
<1>6. CASE ScanClaim
  <2>1. cur \in Paths
    BY <1>0, <1>6 DEF ScanClaim, Scanning, ScanSteps
  <2>2. CASE MayClaim(cur) /\ ClaimAndEnqueue(cur)
    BY <1>6, <2>1, <2>2, CommandClaimKeeps DEF ScanClaim
  <2>3. CASE Go(AfterClose(cur)) /\ UNCHANGED <<jobVars, exitJob, closeOnly, handler>>
    <3>1. at' \in {"updating", "hasJob"} /\ UNCHANGED <<killClaimed, killSeen, todo, cur>>
      BY <2>3 DEF Go, AfterClose
    <3> QED
      BY <1>6, <2>1, <2>3, <3>1 DEF ScanClaim, CInv, CommandsTypeOK, ScanSteps, Scanning,
         jobVars, fileVars, AtSlot, ClearedLeaves, Owned, RouteIsFree, PendingHasJob,
         ManualExcludesBreach
  <2> QED
    BY <1>6, <2>2, <2>3 DEF ScanClaim
<1>7. CASE EndUpdate
  <2>1. cur \in Paths
    BY <1>0, <1>7 DEF EndUpdate, Scanning, ScanSteps
  <2>2. at' \in {"next", "hasJob"} /\ UNCHANGED <<killClaimed, killSeen, todo, cur>>
    BY <1>7 DEF EndUpdate, Go
  <2>3. status' \in [Paths -> Statuses] /\ updateCmd' \in [Paths -> BOOLEAN]
    BY <1>0, <1>7 DEF EndUpdate, CommandsTypeOK, Statuses
  <2> QED
    BY <1>7, <2>1, <2>2, <2>3 DEF EndUpdate, CInv, CommandsTypeOK, ScanSteps, Scanning, jobVars,
       AtSlot, ClearedLeaves, Owned, RouteIsFree, PendingHasJob, ManualExcludesBreach
<1>8. CASE ScanHasJob
  <2>1. cur \in Paths
    BY <1>0, <1>8 DEF ScanHasJob, Scanning, ScanSteps
  <2>2. /\ at' = IF phase[cur] # "none" THEN "mark" ELSE "route"
        /\ UNCHANGED <<killClaimed, killSeen, todo, cur>>
    BY <1>8 DEF ScanHasJob, Go
  <2> QED
    BY <1>8, <2>1, <2>2 DEF ScanHasJob, CInv, CommandsTypeOK, ScanSteps, Scanning, jobVars,
       tradeVars, fileVars, AtSlot, ClearedLeaves, Owned, RouteIsFree, PendingHasJob,
       ManualExcludesBreach
<1>9. CASE ScanMark
  <2>1. cur \in Paths
    BY <1>0, <1>9 DEF ScanMark, Scanning, ScanSteps
  <2> QED
    BY <1>9, <2>1 DEF ScanMark, Go, CInv, CommandsTypeOK, ScanSteps, Scanning, jobVars,
       tradeVars, fileVars, AtSlot, ClearedLeaves, Owned, RouteIsFree, PendingHasJob,
       ManualExcludesBreach
<1>10. CASE ScanRoute
  <2>1. cur \in Paths /\ phase[cur] = "none"
    BY <1>0, <1>10 DEF ScanRoute, Scanning, ScanSteps, CInv, RouteIsFree
  <2>2. at' = "next" /\ UNCHANGED <<killClaimed, killSeen, todo, cur>>
    BY <1>10 DEF ScanRoute, Go
  <2>3. ASSUME NEW k \in Routes(cur), Enqueue(cur, k), UNCHANGED tradeVars PROVE CInv'
    <3>1. k \in Handlers /\ (k = "breach" => handler[cur] # "manual")
      BY <2>3 DEF Routes, Handlers
    <3>2. (ClearedLeaves /\ Owned /\ PendingHasJob /\ ManualExcludesBreach)'
      BY <2>1, <2>3, <3>1, EnqueueKeeps DEF tradeVars
    <3>3. CommandsTypeOK'
      BY <1>0, <1>10, <2>1, <2>2, <2>3, <3>1, EnqueueType
      DEF ScanRoute, CommandsTypeOK, tradeVars, fileVars, ScanSteps
    <3> QED
      BY <2>2, <3>2, <3>3 DEF CInv, AtSlot, RouteIsFree, Scanning
  <2>4. ASSUME UNCHANGED <<jobVars, exitJob>>,
               status' \in [Paths -> Statuses], closeOnly' \in [Paths -> BOOLEAN],
               \/ UNCHANGED handler
               \/ handler' = [handler EXCEPT ![cur] = "none"]
        PROVE  CInv'
    BY <1>10, <2>1, <2>2, <2>4 DEF ScanRoute, CInv, CommandsTypeOK, ScanSteps, Scanning,
       jobVars, fileVars, AtSlot, ClearedLeaves, Owned, RouteIsFree, PendingHasJob,
       ManualExcludesBreach
  <2>5. CASE /\ status' = [status EXCEPT ![cur] = "long"]
             /\ UNCHANGED <<jobVars, exitJob, closeOnly, handler>>
    BY <1>0, <2>4, <2>5 DEF CommandsTypeOK, Statuses
  <2>6. CASE /\ status' = [status EXCEPT ![cur] = "closed"]
             /\ closeOnly' = [closeOnly EXCEPT ![cur] = FALSE]
             /\ handler' = [handler EXCEPT ![cur] = "none"]
             /\ UNCHANGED <<jobVars, exitJob>>
    BY <1>0, <2>4, <2>6 DEF CommandsTypeOK, Statuses
  <2>7. CASE UNCHANGED <<jobVars, exitJob, tradeVars>>
    BY <1>0, <2>4, <2>7 DEF CommandsTypeOK, tradeVars
  <2> QED
    BY <1>10, <2>3, <2>5, <2>6, <2>7 DEF ScanRoute
<1> QED
  BY <1>1, <1>2, <1>3, <1>4, <1>5, <1>6, <1>7, <1>8, <1>9, <1>10 DEF Scan

LEMMA CInvStep == CInv /\ [CommandsNext]_commandVars => CInv'
<1>1. CInv /\ UNCHANGED commandVars => CInv'
  BY DEF commandVars, CInv, CommandsTypeOK, jobVars, tradeVars, fileVars, scanVars, AtSlot,
     ClearedLeaves, Owned, RouteIsFree, PendingHasJob, ManualExcludesBreach, HasJob
<1> QED
  BY <1>1, OperatorKeeps, RestartKeeps, JobKeeps, BatchSyncKeeps, ScanKeeps DEF CommandsNext

\* The ids, the jobs and the claims of all trades keep in step.
THEOREM CommandsInvariant == CommandsSpec => []CInv
BY CInvInit, CInvStep, PTL DEF CommandsSpec

\* In every reachable state a pending exit_job_id names a job that has not
\* ended, and no breach pipeline waits or works in a trade whose manual close
\* is claimed, for any number of trades, commands, failures and restarts.
THEOREM CommandsAreSound == CommandsSpec => []CommandsSound
<1>1. CInv => CommandsSound
  BY DEF CInv, CommandsSound
<1> QED
  BY <1>1, CommandsInvariant, PTL

-----------------------------------------------------------------------------
(* After a claim. *)

\* A step that starts a job in an open trade whose close is claimed starts
\* the kill or the handler of a stop that was filled.
LEMMA StartsNoBreach ==
  ASSUME CInv, CommandsNext, NEW p \in Paths,
         handler[p] = "manual", status[p] = "open", ~HasJob(p), HasJob(p)'
  PROVE  kind'[p] \in {"manual", "exchange"}
<1> USE DEF HasJob
<1>0. CommandsTypeOK /\ phase[p] = "none" /\ phase'[p] # "none"
  BY DEF CInv
<1>1. ASSUME NEW q \in Paths, NEW k \in Handlers, Enqueue(q, k)
      PROVE  p = q /\ kind'[p] = k
  BY <1>0, <1>1, EnqueueType
<1>2. ASSUME NEW q \in Paths, ClaimAndEnqueue(q) PROVE kind'[p] = "manual"
  BY <1>1, <1>2 DEF ClaimAndEnqueue, Handlers
<1>3. ASSUME NEW q \in Paths, Job(q) PROVE FALSE
  <2>1. phase'[p] # "none" => phase[p] # "none"
    BY <1>0, <1>3 DEF Job, StartWork, AbandonJob, FinishWork, ClearId, EndJob, Registry!Work,
       Registry!Abandon, Registry!Finish, Registry!End, CommandsTypeOK
  <2> QED
    BY <1>0, <2>1
<1>4. ASSUME NEW q \in Paths, BatchSync(q) PROVE kind'[p] = "exchange"
  BY <1>0, <1>1, <1>4 DEF BatchSync, jobVars, Handlers
<1>5. ASSUME Scan PROVE kind'[p] \in {"manual", "exchange"}
  <2>1. at \in Scanning => cur \in Paths
    BY DEF CInv, AtSlot
  <2>2. CASE ScanKill
    BY <1>0, <1>2, <2>1, <2>2 DEF ScanKill, Scanning, ScanSteps, jobVars
  <2>3. CASE ScanClaim
    BY <1>0, <1>2, <2>1, <2>3 DEF ScanClaim, Scanning, ScanSteps, jobVars
  <2>4. CASE ScanRoute
    <3>1. cur \in Paths
      BY <2>1, <2>4 DEF ScanRoute, Scanning, ScanSteps
    <3>2. PICK k \in Routes(cur) : Enqueue(cur, k)
      BY <1>0, <2>4 DEF ScanRoute, jobVars
    <3>3. k \in Handlers
      BY DEF Routes, Handlers
    <3>4. p = cur /\ kind'[p] = k
      BY <1>1, <3>1, <3>2, <3>3
    <3> QED
      BY <3>4 DEF Routes
  <2> QED
    BY <1>0, <1>5, <2>2, <2>3, <2>4 DEF Scan, BeginCycle, PickSlot, EndCycle, ScanCommand,
       EndUpdate, ScanHasJob, ScanMark, jobVars
<1> QED
  BY <1>0, <1>3, <1>4, <1>5 DEF CommandsNext, Operator, PressKill, RequestClose, RequestUpdate,
     Restart, jobVars

\* After a manual close is claimed no breach pipeline is started in that trade
\* while it is open.
THEOREM ClaimHolds == CommandsSpec => NoBreachAfterClaim
<1> DEFINE Holds == \A p \in Paths :
       handler[p] = "manual" /\ status[p] = "open" /\ ~HasJob(p) /\ HasJob(p)'
         => kind'[p] \in {"manual", "exchange"}
<1>1. CInv /\ [CommandsNext]_commandVars => [Holds]_commandVars
  BY StartsNoBreach
<1>2. [][Holds]_commandVars <=> NoBreachAfterClaim
  BY PTL DEF NoBreachAfterClaim
<1> QED
  BY <1>1, <1>2, CommandsInvariant, PTL DEF CommandsSpec
=============================================================================
