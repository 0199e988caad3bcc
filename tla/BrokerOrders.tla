---------------------------- MODULE BrokerOrders ----------------------------
(***************************************************************************)
(* The brokerage as one trade sees it: its closing orders, the contracts   *)
(* of its two legs that are still held, and what the broker adapter        *)
(* (brokers/tastytrade_broker.py) reports about them.  The account may     *)
(* hold more contracts of the same symbols for other trades, and a query   *)
(* cannot tell them apart.                                                 *)
(*                                                                         *)
(* A scenario names what else occurs in a run: orders that fill partly,    *)
(* expire or are refused, position queries that fail, cancels that are not *)
(* confirmed in time, missing quotes, repricings, operator commands and    *)
(* crashes.  budget bounds how often.                                      *)
(***************************************************************************)
EXTENDS Integers, FiniteSets

CONSTANTS
  Q,           \* contracts of the trade
  Others,      \* contracts of the same legs held by other trades, but for crash scenarios
  MaxOrders,   \* bound: orders the trade may send
  Scenarios,   \* each a set of what may go wrong or be asked for in a run
  MaxFaults    \* bound: how often it does

ASSUME SizeAssumption == Q \in Nat \ {0} /\ Others \in Nat
ASSUME BudgetAssumption == MaxOrders \in Nat /\ MaxFaults \in Nat

VARIABLES
  orders,      \* the orders of the trade, by id
  short,       \* contracts of the short leg the trade has not bought back
  long,        \* contracts of the long leg the trade has not sold
  budget       \* the run's scenario and how many of its events are left

brokerVars == <<orders, short, long, budget>>

NoOrder == 0
Ids == 1..MaxOrders
ShortKinds == {"stop", "limit"}               \* buy back the short leg
Kinds == ShortKinds \union {"spread", "long"} \* both legs, sell the long leg

Live == {i \in Ids : orders[i].st \in {"working", "canceling"}}
Buying == {i \in Live : orders[i].kind \in ShortKinds \union {"spread"}}
Selling == {i \in Live : orders[i].kind \in {"spread", "long"}}

Rest(i) == orders[i].qty - orders[i].filled

\* with contracts of another trade in the account the broker accepts a second stop
\* beside one whose id a crash lost
Shared == IF "crash" \in budget.of THEN 0 ELSE Others

HeldShort == short + Shared
HeldLong == long + Shared

BrokerInit ==
  /\ orders = [i \in Ids |-> [kind |-> "none", qty |-> 0, filled |-> 0, st |-> "free"]]
  /\ short = Q
  /\ long = Q
  /\ budget \in [of : Scenarios, left : {MaxFaults}]

Fault(f) == f \in budget.of /\ budget.left > 0 /\ budget' = [budget EXCEPT !.left = @ - 1]

-----------------------------------------------------------------------------
(* What the exchange does.                                                 *)

\* n contracts of a live order fill; a cancel that is under way may lose.
Fill(i, n) ==
  /\ i \in Live
  /\ n <= Rest(i)
  /\ IF n < Rest(i) THEN Fault("partial") ELSE UNCHANGED budget
  /\ orders' = [orders EXCEPT ![i].filled = @ + n,
                              ![i].st = IF n = Rest(i) THEN "filled" ELSE @]
  /\ short' = IF i \in Buying THEN short - n ELSE short
  /\ long' = IF i \in Selling THEN long - n ELSE long

TakeCancel(i) ==
  /\ orders[i].st = "canceling"
  /\ orders' = [orders EXCEPT ![i].st = "cancelled"]
  /\ UNCHANGED <<short, long, budget>>

\* the broker rejects or expires a working order on its own
Expire(i) ==
  /\ i \in Live
  /\ Fault("expire")
  /\ orders' = [orders EXCEPT ![i].st = "dead"]
  /\ UNCHANGED <<short, long>>

Exchange == \E i \in Ids : TakeCancel(i) \/ Expire(i) \/ \E n \in 1..Q : Fill(i, n)

-----------------------------------------------------------------------------
(* What the adapter offers.                                                *)

\* cancel_order: success means that the request was accepted
RequestCancelOf(i) == [orders EXCEPT ![i].st = IF @ = "working" THEN "canceling" ELSE @]

\* contracts that orders of S have still to fill, each with its order
Offered(S) == {c \in S \X (1..Q) : c[2] <= Rest(c[1])}

\* closing orders may not add up to more than the account holds
Exceeds(kind, qty) ==
  \/ kind # "long" /\ Cardinality(Offered(Buying)) + qty > HeldShort
  \/ kind # "stop" /\ kind # "limit" /\ Cardinality(Offered(Selling)) + qty > HeldLong

\* the adapter blocks a closing order for more than the account holds
PreflightBlocks(kind, qty) == qty > (IF kind = "long" THEN HeldLong ELSE HeldShort)

NextId == Cardinality({i \in Ids : orders[i].st # "free"}) + 1

Refused(kind, qty) == qty <= 0 \/ PreflightBlocks(kind, qty) \/ Exceeds(kind, qty)

\* Mutant: nobody compares a closing order with the position.
AcceptUnchecked(kind, qty) ==
  /\ NextId \in Ids
  /\ qty > 0
  /\ orders' = [orders EXCEPT ![NextId] =
                  [kind |-> kind, qty |-> qty, filled |-> 0, st |-> "working"]]
  /\ UNCHANGED <<short, long, budget>>

\* an order is accepted by the adapter and by the broker
Accept(kind, qty) ==
  /\ NextId \in Ids
  /\ ~Refused(kind, qty)
  /\ orders' = [orders EXCEPT ![NextId] =
                  [kind |-> kind, qty |-> qty, filled |-> 0, st |-> "working"]]
  /\ UNCHANGED <<short, long, budget>>

\* ... or not: a position query that fails counts as flat
Refuse(kind, qty) ==
  /\ \/ Refused(kind, qty) /\ UNCHANGED budget
     \/ Fault("reject")
     \/ Fault("query")
  /\ UNCHANGED <<orders, short, long>>

\* inspect_spread_position: a leg that is flat alone also reads "flat",
\* because "mismatch_partial_flat" contains the word
Inspect(qty) ==
  LET need == IF qty > 0 THEN qty ELSE 1 IN
  CASE HeldShort # 0 /\ HeldShort < need -> "mismatch"
    [] HeldLong # 0 /\ HeldLong < need -> "mismatch"
    [] HeldShort = 0 \/ HeldLong = 0 -> "flat"
    [] OTHER -> "closable"

BrokerTypeOK ==
  /\ orders \in [Ids -> [kind : Kinds \union {"none"}, qty : 0..Q, filled : 0..Q,
                         st : {"free", "working", "canceling", "filled", "cancelled", "dead"}]]
  /\ short \in -Others..Q
  /\ long \in -Others..Q
  /\ budget.left \in 0..MaxFaults
=============================================================================
