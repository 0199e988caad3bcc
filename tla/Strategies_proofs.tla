-------------------------- MODULE Strategies_proofs --------------------------
(***************************************************************************)
(* The iron flies and the sleeves, for every bound on trades, attempts,    *)
(* rounds and faults.                                                      *)
(*                                                                         *)
(* Flies: no two live flies offset each other's strikes, no fly holds more *)
(* than one order's contracts where no order is lost sight of, and a fly   *)
(* that has ended stays so.  A fly is submitted under the lock, after its  *)
(* center and wings were compared with every live fly (NoneClash); the     *)
(* sweep opens one fly at a time and the spot thread closes one at a time  *)
(* (OpeningOne, ClosingOne); an order counts against the attempts until it *)
(* is filled or given up (Counted), so account and book agree (Exact).     *)
(*                                                                         *)
(* Sleeves: one trade each, no debit and credit spread on the same side    *)
(* and in the same mode, entries within the day's limit, and nothing left  *)
(* in the account of a spread whose file is closed.  The thread remembers  *)
(* the side and the mode of every live trade it has been through (Known);  *)
(* what it plans passes that memory (Plannable) and nothing else is        *)
(* entered meanwhile, whatever the clock, the dashboard or a restart does; *)
(* the counters are those of the files of the thread's day (Dated); an     *)
(* order that may close a spread finds it in the account (Covered).        *)
(***************************************************************************)
EXTENDS IronFly, DrmaHm, FiniteSetTheorems, TLAPS

(* --- IronFly: the invariant of the flies --------------------------------- *)
States == Final \union {"none", "PENDING_APPROVAL", "OPENING", "OPEN", "CLOSING"}
FlyRecords == [st : States, center : Int, cw : Nat, pw : Nat, credit : Int]
Books == [Flies -> FlyRecords]

Evenly(b) == \A f \in Flies : b[f].center % 2 = 0 /\ b[f].credit \in Credits \union {0}

Orders == {"none", "working", "canceling", "filled", "rejected", "cancelled"}
SweepPcs == {"idle", "send", "poll", "after", "save", "cutting", "stopped"}
Opens == {"send", "poll", "after"}
Closes == {"place", "poll", "replace", "record"}
CutterPcs == {"idle", "cut"} \union Closes

\* Types, without the bounds.
FlyTypes ==
  /\ book \in Books /\ disk \in Books /\ Evenly(book) /\ Evenly(disk)
  /\ held \in [Flies -> Nat] /\ stray \in [Flies -> Nat]
  /\ entry \in [Flies -> Orders]
  /\ exit \in [Flies -> {"none", "working", "filled", "cancelled"}]
  /\ sweep \in [pc : SweepPcs, fly : Flies \union {NoFly}, attempt : Nat]
  /\ cutter \in [pc : CutterPcs, fly : Flies \union {NoFly}, todo : SUBSET Flies]
  /\ lock \in {"free", "sweep"}
  /\ spot \in Int
  /\ budget \in [of : Scenarios, left : Nat]

\* A fly that counts for the strikes, and two that do not offset each other.
Standing(b, f) == b[f].st \in {"OPEN", "CLOSING", "OPENING"}
Apart(b, f, g) == b[f].center # b[g].center + b[g].cw /\ b[f].center # b[g].center - b[g].pw
NoneClash(b) == \A f, g \in Flies : Standing(b, f) /\ Standing(b, g) => Apart(b, f, g)

\* Flies are used in the order of their numbers, and saved flies are in memory.
Numbered(b) == \E n \in 0..MaxFlies : \A f \in Flies : b[f].st # "none" <=> f <= n
InOrder ==
  /\ Numbered(book) /\ Numbered(disk)
  /\ \A f \in Flies : book[f].st = "none" =>
       disk[f].st = "none" /\ held[f] = 0 /\ stray[f] = 0 /\ entry[f] = "none" /\ exit[f] = "none"

\* One fly at a time is being opened, by the sweep that holds the lock; after
\* an exception it stays as it is and the sweep has stopped.
OpeningOne ==
  /\ lock = "sweep" <=> sweep.pc \in Opens \union {"cutting"}
  /\ sweep.pc \in Opens =>
       /\ sweep.fly \in Flies /\ book[sweep.fly].st = "OPENING" /\ ~Paper
       /\ sweep.attempt <= MaxAttempts /\ (sweep.pc # "send" => sweep.attempt < MaxAttempts)
  /\ sweep.pc = "send" => entry[sweep.fly] \notin {"working", "canceling", "filled"}
  /\ sweep.pc = "after" => entry[sweep.fly] \in {"canceling", "filled", "cancelled"}
  /\ sweep.pc = "poll" => entry[sweep.fly] \notin {"none", "canceling"}
  /\ \A f \in Flies : book[f].st = "OPENING" =>
       sweep.pc = "stopped" \/ (sweep.pc \in Opens /\ f = sweep.fly /\ disk[f].st = "none")
  /\ \A f \in Flies : disk[f].st = "OPENING" => sweep.pc = "stopped"
  /\ \A f \in Flies : entry[f] \in {"working", "canceling"} => book[f].st = "OPENING" /\ ~Paper

\* What the spot thread closes is being closed, or expired meanwhile.
ClosingOne ==
  /\ cutter.pc \in Closes => cutter.fly \in Flies /\ book[cutter.fly].st \in {"CLOSING", "EXPIRED"}
  /\ cutter.pc = "record" => exit[cutter.fly] = "filled"

\* No fly holds more than was ordered for it, and a closing order closes
\* something.
OnOrder(f) == held[f] + stray[f] + (IF entry[f] \in {"working", "canceling"} THEN 1 ELSE 0)
Counted ==
  /\ \A f \in Flies : OnOrder(f) <= MaxAttempts
  /\ sweep.pc = "send" => OnOrder(sweep.fly) <= sweep.attempt
  /\ sweep.pc \in {"poll", "after"} => OnOrder(sweep.fly) <= sweep.attempt + 1
  /\ \A f \in Flies : exit[f] = "working" => held[f] > 0

\* The account agrees with the book to the fly, where no order is lost sight of.
InSight == "crash" \notin budget.of /\ (Paper \/ budget.of \cap {"slow", "query", "error"} = {})
Owns(f) == \/ book[f].st = "OPEN"
           \/ book[f].st \in {"CLOSING", "EXPIRED"} /\ exit[f] # "filled"
           \/ book[f].st = "OPENING" /\ entry[f] = "filled"
Exact ==
  /\ "crash" \notin budget.of =>
       /\ \A f \in Flies : exit[f] # "none" => book[f].st \in {"CLOSING", "EXPIRED", "CLOSED"}
       /\ cutter.pc = "place" => exit[cutter.fly] = "none"
  /\ InSight => \A f \in Flies : held[f] = (IF Owns(f) THEN 1 ELSE 0) /\ stray[f] = 0

FliesInv == /\ FlyTypes /\ NoneClash(book) /\ NoneClash(disk) /\ InOrder /\ OpeningOne
            /\ ClosingOne /\ Counted /\ Exact

\* Constants of the run: paper flies are not restarted.
PaperStays == \A sc \in Scenarios : ~({"paper", "crash"} \subseteq sc)

\* What may go wrong is counted, and the scenario stays.
LEMMA FaultFacts ==
  ASSUME budget \in [of : Scenarios, left : Nat],
         (\E k : Fault(k)) \/ UNCHANGED budget
  PROVE  budget' \in [of : Scenarios, left : Nat] /\ budget'.of = budget.of
<1>1. CASE UNCHANGED budget
  BY <1>1
<1>2. CASE \E k : Fault(k)
  BY <1>2 DEF Fault
<1>. QED  BY <1>1, <1>2

\* A book keeps its strikes apart when no fly becomes live or moves.
LEMMA ShrinksApart ==
  ASSUME NEW b, NEW c, NoneClash(b),
         \A f \in Flies : Standing(c, f) =>
           /\ Standing(b, f)
           /\ c[f].center = b[f].center /\ c[f].cw = b[f].cw /\ c[f].pw = b[f].pw
  PROVE  NoneClash(c)
BY DEF NoneClash, Apart

\* The numbering sees only which flies are used.
LEMMA SameNumbers ==
  ASSUME NEW b, NEW c, Numbered(b), \A f \in Flies : c[f].st = "none" <=> b[f].st = "none"
  PROVE  Numbered(c)
BY DEF Numbered

\* The book c is the book b with fly f in state st at the given credit.
Sets(b, c, f, st, credit) ==
  /\ c \in Books
  /\ c[f].st = st /\ c[f].credit = credit
  /\ c[f].center = b[f].center /\ c[f].cw = b[f].cw /\ c[f].pw = b[f].pw
  /\ \A g \in Flies : g # f => c[g] = b[g]

\* One assignment to the state of a fly, and one to its state and credit.
LEMMA SetState ==
  ASSUME NEW b \in Books, NEW f \in Flies, NEW st \in States, NEW credit \in Int
  PROVE  /\ Sets(b, [b EXCEPT ![f].st = st], f, st, b[f].credit)
         /\ Sets(b, [b EXCEPT ![f].st = st, ![f].credit = credit], f, st, credit)
<1>. DEFINE c == [b EXCEPT ![f].st = st]
            e == [c EXCEPT ![f].credit = credit]
<1>1. c \in Books /\ c[f] = [b[f] EXCEPT !.st = st] /\ \A g \in Flies : g # f => c[g] = b[g]
  BY DEF Books, FlyRecords
<1>2. Sets(b, c, f, st, b[f].credit)
  BY <1>1 DEF Sets, Books, FlyRecords
<1>3. [b EXCEPT ![f].st = st, ![f].credit = credit] = e
  OBVIOUS
<1>. HIDE DEF c
<1>4. e \in Books /\ e[f] = [c[f] EXCEPT !.credit = credit] /\ \A g \in Flies : g # f => e[g] = c[g]
  BY <1>1 DEF Books, FlyRecords
<1>5. Sets(b, e, f, st, credit)
  BY <1>2, <1>4 DEF Sets, Books, FlyRecords
<1>. QED  BY <1>2, <1>3, <1>5 DEF c

\* Such an assignment keeps what the book alone promises, unless it revives
\* a fly.
LEMMA SetsKeeps ==
  ASSUME NEW b \in Books, NEW c, NEW f \in Flies, NEW st \in States, NEW credit,
         Sets(b, c, f, st, credit), Evenly(b), NoneClash(b), Numbered(b),
         credit \in Credits \union {0},
         b[f].st # "none", st # "none",
         Standing(b, f) \/ st \notin {"OPEN", "CLOSING", "OPENING"}
  PROVE  Evenly(c) /\ NoneClash(c) /\ Numbered(c)
<1>1. Evenly(c)
  BY DEF Evenly, Sets
<1>2. NoneClash(c)
  BY ShrinksApart DEF Standing, Sets
<1>3. Numbered(c)
  BY SameNumbers DEF Sets
<1>. QED  BY <1>1, <1>2, <1>3

\* An order that is followed no longer counts as one that may still fill.
LEMMA GivenUpFacts ==
  ASSUME NEW f \in Flies, entry \in [Flies -> Orders], stray \in [Flies -> Nat],
         held \in [Flies -> Nat], UNCHANGED held,
         \/ UNCHANGED <<entry, stray>> /\ entry[f] \notin {"working", "canceling"}
         \/ GivenUp(f) /\ entry[f] \in {"working", "canceling"}
  PROVE  /\ entry' \in [Flies -> Orders] /\ stray' \in [Flies -> Nat]
         /\ \A g \in Flies : g # f => entry'[g] = entry[g] /\ stray'[g] = stray[g]
         /\ entry'[f] \notin {"working", "canceling"}
         /\ \A g \in Flies : (OnOrder(g))' = OnOrder(g)
<1>1. CASE UNCHANGED <<entry, stray>> /\ entry[f] \notin {"working", "canceling"}
  BY <1>1 DEF OnOrder
<1>2. CASE GivenUp(f) /\ entry[f] \in {"working", "canceling"}
  <2>1. entry'[f] = "none" /\ stray'[f] = stray[f] + 1
    BY <1>2 DEF GivenUp
  <2>2. entry' \in [Flies -> Orders] /\ stray' \in [Flies -> Nat]
    BY <1>2 DEF GivenUp, Orders
  <2>3. \A g \in Flies : g # f => entry'[g] = entry[g] /\ stray'[g] = stray[g]
    BY <1>2 DEF GivenUp
  <2>4. \A g \in Flies : (OnOrder(g))' = OnOrder(g)
    BY <1>2, <2>1, <2>3 DEF OnOrder
  <2>. QED  BY <2>1, <2>2, <2>3, <2>4
<1>. QED  BY <1>1, <1>2

\* What the entry order of the fly that is being opened leaves behind.
LeavesFilled(f) == entry[f] = "filled" /\ UNCHANGED <<entry, stray>>
LeavesUnfilled(f) ==
  \/ entry[f] \notin {"working", "canceling", "filled"} /\ UNCHANGED <<entry, stray>>
  \/ entry[f] \in {"working", "canceling"} /\ GivenUp(f) /\ ~InSight

\* The sweep records the fly and gives the lock back.
LEMMA EndsKeeps ==
  ASSUME FliesInv, sweep.pc \in Opens, NEW st, NEW credit, Ends(sweep.fly, st, credit),
         \/ st = "OPEN" /\ credit \in Credits /\ LeavesFilled(sweep.fly)
         \/ st = "FAILED" /\ credit = 0 /\ LeavesUnfilled(sweep.fly),
         UNCHANGED <<disk, held, exit, cutter, spot>>,
         budget' \in [of : Scenarios, left : Nat], budget'.of = budget.of
  PROVE  FliesInv'
<1>. USE DEF FliesInv
<1>0. PICK f \in Flies : f = sweep.fly
  BY DEF OpeningOne, Opens
<1>1. f \in Flies /\ book[f].st = "OPENING" /\ ~Paper
  BY <1>0 DEF OpeningOne
<1>2. st \in {"OPEN", "FAILED"} /\ st \in States /\ credit \in Int /\ credit \in Credits \union {0}
  <2>1. Credits \subseteq Int
    BY IronFlyAssumption
  <2>2. "OPEN" \in States /\ "FAILED" \in States
    BY DEF States, Final
  <2>3. st \in {"OPEN", "FAILED"} /\ (credit \in Credits \/ credit = 0)
    OBVIOUS
  <2>4. st \in States
    BY <2>2, <2>3
  <2>5. credit \in Int
    <3>1. 0 \in Int
      OBVIOUS
    <3>. QED  BY ONLY <2>1, <2>3, <3>1, Zenon
  <2>. QED  BY <2>3, <2>4, <2>5
<1>3. Sets(book, book', f, st, credit)
  <2>1. book' = [book EXCEPT ![f].st = st, ![f].credit = credit]
    BY <1>0 DEF Ends
  <2>2. book \in Books
    BY DEF FlyTypes
  <2>3. Sets(book, [book EXCEPT ![f].st = st, ![f].credit = credit], f, st, credit)
    BY <1>2, <2>2, SetState
  <2>. QED  BY <2>1, <2>3
<1>4. Evenly(book') /\ NoneClash(book') /\ Numbered(book')
  BY <1>1, <1>2, <1>3, SetsKeeps DEF Standing, FlyTypes, InOrder
<1>5. sweep' = [pc |-> "save", fly |-> NoFly, attempt |-> 0] /\ lock' = "free"
  BY DEF Ends
<1>6. /\ entry' \in [Flies -> Orders] /\ stray' \in [Flies -> Nat]
      /\ \A g \in Flies : g # f => entry'[g] = entry[g] /\ stray'[g] = stray[g]
      /\ entry'[f] \notin {"working", "canceling"}
      /\ \A g \in Flies : (OnOrder(g))' = OnOrder(g)
  BY <1>0, <1>1, GivenUpFacts DEF LeavesFilled, LeavesUnfilled, FlyTypes
<1>. USE <1>0, <1>1, <1>2, <1>3, <1>5, <1>6
<1>7. FlyTypes'
  BY <1>4 DEF FlyTypes, Sets, SweepPcs
<1>8. (NoneClash(book))' /\ (NoneClash(disk))'
  BY <1>4
<1>9. InOrder'
  <2>1. ASSUME NEW g \in Flies, book'[g].st = "none"
        PROVE  g # f /\ book[g].st = "none"
    BY <2>1 DEF Sets
  <2>2. \A g \in Flies : book'[g].st = "none" =>
          disk'[g].st = "none" /\ held'[g] = 0 /\ stray'[g] = 0 /\ entry'[g] = "none" /\ exit'[g] = "none"
    BY <2>1 DEF InOrder
  <2>. QED  BY <1>4, <2>2 DEF InOrder, Numbered
<1>10. OpeningOne'
  BY DEF OpeningOne, Sets, Opens, Paper, FlyTypes
<1>11. ClosingOne'
  BY DEF ClosingOne, Sets
<1>12. Counted'
  <2>1. \A g \in Flies : (OnOrder(g))' <= MaxAttempts /\ (exit'[g] = "working" => held'[g] > 0)
    BY DEF Counted
  <2>. QED  BY <2>1 DEF Counted
<1>13. Exact'
  <2>1. (InSight)' <=> InSight
    BY DEF InSight, Paper
  <2>2. ASSUME InSight, NEW g \in Flies PROVE held[g] = (IF Owns(g) THEN 1 ELSE 0)' /\ stray'[g] = 0
    BY <2>2, <2>1 DEF Exact, Owns, Sets, LeavesFilled, LeavesUnfilled
  <2>3. exit[f] = "none" \/ "crash" \in budget.of
    BY DEF Exact
  <2>4. "crash" \notin budget.of =>
       /\ \A g \in Flies : exit'[g] # "none" => book'[g].st \in {"CLOSING", "EXPIRED", "CLOSED"}
       /\ cutter'.pc = "place" => exit'[cutter'.fly] = "none"
    BY <2>3 DEF Exact, Sets
  <2>. QED  BY <2>1, <2>2, <2>4 DEF Exact, FlyTypes
<1>. QED  BY <1>7, <1>8, <1>9, <1>10, <1>11, <1>12, <1>13 DEF FliesInv

\* The chase of the fly goes on with its next order.
LEMMA AgainKeeps ==
  ASSUME FliesInv, sweep.pc \in {"poll", "after"}, Again, LeavesUnfilled(sweep.fly),
         UNCHANGED <<disk, held, exit, cutter, spot>>,
         budget' \in [of : Scenarios, left : Nat], budget'.of = budget.of
  PROVE  FliesInv'
<1>. USE DEF FliesInv
<1>0. PICK f \in Flies : f = sweep.fly
  BY DEF OpeningOne, Opens
<1>1. f \in Flies /\ book[f].st = "OPENING" /\ ~Paper /\ sweep.attempt < MaxAttempts
  BY <1>0 DEF OpeningOne, Opens
<1>2. UNCHANGED <<book, lock>>
  BY DEF Again
<1>3. /\ sweep' \in [pc : SweepPcs, fly : Flies \union {NoFly}, attempt : Nat]
      /\ sweep'.pc = "send" /\ sweep'.fly = f /\ sweep'.attempt = sweep.attempt + 1
  <2>. DEFINE a == [sweep EXCEPT !.attempt = @ + 1]
  <2>1. /\ a \in [pc : SweepPcs, fly : Flies \union {NoFly}, attempt : Nat]
        /\ a.fly = f /\ a.attempt = sweep.attempt + 1
    BY <1>0 DEF FlyTypes
  <2>2. sweep' = [a EXCEPT !.pc = "send"]
    BY DEF Again, FlyTypes
  <2>3. "send" \in SweepPcs
    BY DEF SweepPcs
  <2>. HIDE DEF a
  <2>. QED  BY <2>1, <2>2, <2>3
<1>4. /\ entry' \in [Flies -> Orders] /\ stray' \in [Flies -> Nat]
      /\ \A g \in Flies : g # f => entry'[g] = entry[g] /\ stray'[g] = stray[g]
      /\ entry'[f] \notin {"working", "canceling"}
      /\ \A g \in Flies : (OnOrder(g))' = OnOrder(g)
  BY <1>0, <1>1, GivenUpFacts DEF LeavesUnfilled, FlyTypes
<1>5. entry'[f] # "filled"
  BY <1>0, <1>1 DEF LeavesUnfilled, GivenUp, FlyTypes
<1>. USE <1>0, <1>1, <1>2, <1>3, <1>4, <1>5
<1>7. FlyTypes'
  BY DEF FlyTypes, Evenly
<1>8. NoneClash(book)' /\ NoneClash(disk)'
  BY DEF NoneClash, Standing, Apart
<1>9. InOrder'
  BY DEF InOrder, Numbered
<1>10. OpeningOne'
  <2>1. MaxAttempts \in Nat /\ sweep.attempt \in Nat
    BY IronFlyAssumption DEF FlyTypes
  <2>2. lock' = "sweep"
    BY DEF OpeningOne, Opens
  <2>3. \A g \in Flies : book'[g].st = "OPENING" => g = f /\ disk'[g].st = "none"
    BY DEF OpeningOne
  <2>. QED  BY <2>1, <2>2, <2>3 DEF OpeningOne, Opens, Paper
<1>11. ClosingOne'
  BY DEF ClosingOne
<1>12. Counted'
  <2>1. \A g \in Flies : (OnOrder(g))' <= MaxAttempts /\ (exit'[g] = "working" => held'[g] > 0)
    BY DEF Counted
  <2>2. (OnOrder(f))' <= sweep'.attempt
    BY DEF Counted
  <2>3. (OnOrder(sweep.fly))' <= sweep'.attempt
    BY <2>2 DEF OnOrder
  <2>. QED  BY <2>1, <2>3 DEF Counted
<1>13. Exact'
  <2>1. (InSight)' <=> InSight
    BY DEF InSight, Paper
  <2>2. ASSUME InSight, NEW g \in Flies PROVE held[g] = (IF Owns(g) THEN 1 ELSE 0)' /\ stray'[g] = 0
    BY <2>2, <2>1 DEF Exact, Owns, LeavesUnfilled
  <2>. QED  BY <2>1, <2>2 DEF Exact, FlyTypes
<1>. QED  BY <1>7, <1>8, <1>9, <1>10, <1>11, <1>12, <1>13 DEF FliesInv

\* A step that leaves the flies and their orders alone.
LEMMA AccountSame ==
  ASSUME FliesInv, UNCHANGED <<book, held, stray, entry, exit>>,
         disk' = disk \/ disk' = book,
         sweep' \in [pc : SweepPcs, fly : Flies \union {NoFly}, attempt : Nat],
         cutter' \in [pc : CutterPcs, fly : Flies \union {NoFly}, todo : SUBSET Flies],
         lock' \in {"free", "sweep"}, spot' \in Int,
         OpeningOne', ClosingOne',
         sweep' = sweep \/ sweep'.pc \notin Opens,
         cutter' = cutter \/ cutter'.pc # "place",
         budget' \in [of : Scenarios, left : Nat], budget'.of = budget.of
  PROVE  FliesInv'
<1>. USE DEF FliesInv
<1>1. FlyTypes'
  BY DEF FlyTypes, Evenly
<1>2. (NoneClash(book))' /\ (NoneClash(disk))'
  BY DEF NoneClash, Standing, Apart
<1>3. InOrder'
  <2>1. Numbered(book') /\ Numbered(disk')
    BY DEF InOrder
  <2>2. \A f \in Flies : book'[f].st = "none" =>
          disk'[f].st = "none" /\ held'[f] = 0 /\ stray'[f] = 0 /\ entry'[f] = "none" /\ exit'[f] = "none"
    BY DEF InOrder
  <2>. QED  BY <2>1, <2>2 DEF InOrder, Numbered
<1>4. Counted'
  BY DEF Counted, OnOrder, Opens
<1>5. Exact'
  BY DEF Exact, InSight, Owns, Paper
<1>. QED  BY <1>1, <1>2, <1>3, <1>4, <1>5 DEF FliesInv

\* A breaker that flattens the book keeps the invariant.
LEMMA SweepBreakerKeeps ==
  ASSUME FliesInv, SweepBreaker
  PROVE  FliesInv'
<1>. USE DEF FliesInv, SweepBreaker, May, CutsInside, Quiet
<1>1. budget' \in [of : Scenarios, left : Nat] /\ budget'.of = budget.of
  BY FaultFacts DEF FlyTypes
<1>2. UNCHANGED <<book, held, stray, entry, exit>> /\ (disk' = disk \/ disk' = book)
  OBVIOUS
<1>3. /\ sweep' \in [pc : SweepPcs, fly : Flies \union {NoFly}, attempt : Nat]
      /\ sweep' = sweep \/ sweep'.pc \notin Opens
  BY DEF FlyTypes, SweepPcs, Opens
<1>4. /\ cutter' \in [pc : CutterPcs, fly : Flies \union {NoFly}, todo : SUBSET Flies]
      /\ cutter' = cutter \/ cutter'.pc # "place"
  BY DEF FlyTypes, CutterPcs, Closes
<1>5. lock' \in {"free", "sweep"} /\ spot' \in Int
  BY IronFlyAssumption DEF FlyTypes
<1>6. OpeningOne'
  BY <1>1, <1>2, <1>3 DEF OpeningOne, Opens, Paper, FlyTypes
<1>7. ClosingOne'
  BY <1>2, <1>4 DEF ClosingOne, Closes, FlyTypes
<1>. QED  BY <1>1, <1>2, <1>3, <1>4, <1>5, <1>6, <1>7, AccountSame

\* A sweep that cuts what it finds breached keeps it.
LEMMA SweepCutKeeps ==
  ASSUME FliesInv, SweepCut
  PROVE  FliesInv'
<1>. USE DEF FliesInv, SweepCut, May, CutsInside, Quiet
<1>1. budget' \in [of : Scenarios, left : Nat] /\ budget'.of = budget.of
  BY FaultFacts DEF FlyTypes
<1>2. UNCHANGED <<book, held, stray, entry, exit>> /\ (disk' = disk \/ disk' = book)
  OBVIOUS
<1>3. /\ sweep' \in [pc : SweepPcs, fly : Flies \union {NoFly}, attempt : Nat]
      /\ sweep' = sweep \/ sweep'.pc \notin Opens
  BY DEF FlyTypes, SweepPcs, Opens
<1>4. /\ cutter' \in [pc : CutterPcs, fly : Flies \union {NoFly}, todo : SUBSET Flies]
      /\ cutter' = cutter \/ cutter'.pc # "place"
  BY DEF FlyTypes, CutterPcs, Closes
<1>5. lock' \in {"free", "sweep"} /\ spot' \in Int
  BY IronFlyAssumption DEF FlyTypes
<1>6. OpeningOne'
  BY <1>1, <1>2, <1>3 DEF OpeningOne, Opens, Paper, FlyTypes
<1>7. ClosingOne'
  BY <1>2, <1>4 DEF ClosingOne, Closes, FlyTypes
<1>. QED  BY <1>1, <1>2, <1>3, <1>4, <1>5, <1>6, <1>7, AccountSame

\* A sweep with nothing to do keeps it.
LEMMA SweepNothingKeeps ==
  ASSUME FliesInv, SweepNothing
  PROVE  FliesInv'
<1>. USE DEF FliesInv, SweepNothing, May, Quiet
<1>1. budget' \in [of : Scenarios, left : Nat] /\ budget'.of = budget.of
  BY FaultFacts DEF FlyTypes
<1>2. UNCHANGED <<book, held, stray, entry, exit>> /\ (disk' = disk \/ disk' = book)
  OBVIOUS
<1>3. /\ sweep' \in [pc : SweepPcs, fly : Flies \union {NoFly}, attempt : Nat]
      /\ sweep' = sweep \/ sweep'.pc \notin Opens
  BY DEF FlyTypes, SweepPcs, Opens
<1>4. /\ cutter' \in [pc : CutterPcs, fly : Flies \union {NoFly}, todo : SUBSET Flies]
      /\ cutter' = cutter \/ cutter'.pc # "place"
  BY DEF FlyTypes, CutterPcs, Closes
<1>5. lock' \in {"free", "sweep"} /\ spot' \in Int
  BY IronFlyAssumption DEF FlyTypes
<1>6. OpeningOne'
  BY <1>1, <1>2, <1>3 DEF OpeningOne, Opens, Paper, FlyTypes
<1>7. ClosingOne'
  BY <1>2, <1>4 DEF ClosingOne, Closes, FlyTypes
<1>. QED  BY <1>1, <1>2, <1>3, <1>4, <1>5, <1>6, <1>7, AccountSame

\* Saving the book keeps it: what is on disk is then what is in memory.
LEMMA SaveKeeps ==
  ASSUME FliesInv, Save
  PROVE  FliesInv'
<1>. USE DEF FliesInv, Save, Saved, Idle
<1>1. budget' \in [of : Scenarios, left : Nat] /\ budget'.of = budget.of
  BY FaultFacts DEF FlyTypes
<1>2. UNCHANGED <<book, held, stray, entry, exit>> /\ (disk' = disk \/ disk' = book)
  OBVIOUS
<1>3. /\ sweep' \in [pc : SweepPcs, fly : Flies \union {NoFly}, attempt : Nat]
      /\ sweep' = sweep \/ sweep'.pc \notin Opens
  BY DEF FlyTypes, SweepPcs, Opens
<1>4. /\ cutter' \in [pc : CutterPcs, fly : Flies \union {NoFly}, todo : SUBSET Flies]
      /\ cutter' = cutter \/ cutter'.pc # "place"
  BY DEF FlyTypes, CutterPcs, Closes
<1>5. lock' \in {"free", "sweep"} /\ spot' \in Int
  BY IronFlyAssumption DEF FlyTypes
<1>6. OpeningOne'
  BY <1>1, <1>2, <1>3 DEF OpeningOne, Opens, Paper, FlyTypes
<1>7. ClosingOne'
  BY <1>2, <1>4 DEF ClosingOne, Closes, FlyTypes
<1>. QED  BY <1>1, <1>2, <1>3, <1>4, <1>5, <1>6, <1>7, AccountSame

\* A settlement without a price keeps it: the loop ends, the book stays.
LEMMA SettleBlindKeeps ==
  ASSUME FliesInv, SettleBlind
  PROVE  FliesInv'
<1>. USE DEF FliesInv, SettleBlind, Saved
<1>1. budget' \in [of : Scenarios, left : Nat] /\ budget'.of = budget.of
  BY FaultFacts DEF FlyTypes
<1>2. UNCHANGED <<book, held, stray, entry, exit>> /\ (disk' = disk \/ disk' = book)
  OBVIOUS
<1>3. /\ sweep' \in [pc : SweepPcs, fly : Flies \union {NoFly}, attempt : Nat]
      /\ sweep' = sweep \/ sweep'.pc \notin Opens
  BY DEF FlyTypes, SweepPcs, Opens
<1>4. /\ cutter' \in [pc : CutterPcs, fly : Flies \union {NoFly}, todo : SUBSET Flies]
      /\ cutter' = cutter \/ cutter'.pc # "place"
  BY DEF FlyTypes, CutterPcs, Closes
<1>5. lock' \in {"free", "sweep"} /\ spot' \in Int
  BY IronFlyAssumption DEF FlyTypes
<1>6. OpeningOne'
  BY <1>1, <1>2, <1>3 DEF OpeningOne, Opens, Paper, FlyTypes
<1>7. ClosingOne'
  BY <1>2, <1>4 DEF ClosingOne, Closes, FlyTypes
<1>. QED  BY <1>1, <1>2, <1>3, <1>4, <1>5, <1>6, <1>7, AccountSame

\* The spot thread's look at the open flies, without the lock, keeps it.
LEMMA LookKeeps ==
  ASSUME FliesInv, Look
  PROVE  FliesInv'
<1>. USE DEF FliesInv, Look, OfCutting, Running, Open
<1>1. budget' \in [of : Scenarios, left : Nat] /\ budget'.of = budget.of
  BY FaultFacts DEF FlyTypes
<1>2. UNCHANGED <<book, held, stray, entry, exit>> /\ (disk' = disk \/ disk' = book)
  OBVIOUS
<1>3. /\ sweep' \in [pc : SweepPcs, fly : Flies \union {NoFly}, attempt : Nat]
      /\ sweep' = sweep \/ sweep'.pc \notin Opens
  BY DEF FlyTypes, SweepPcs, Opens
<1>4. /\ cutter' \in [pc : CutterPcs, fly : Flies \union {NoFly}, todo : SUBSET Flies]
      /\ cutter' = cutter \/ cutter'.pc # "place"
  BY DEF FlyTypes, CutterPcs, Closes
<1>5. lock' \in {"free", "sweep"} /\ spot' \in Int
  BY IronFlyAssumption DEF FlyTypes
<1>6. OpeningOne'
  BY <1>1, <1>2, <1>3 DEF OpeningOne, Opens, Paper, FlyTypes
<1>7. ClosingOne'
  BY <1>2, <1>4 DEF ClosingOne, Closes, FlyTypes
<1>. QED  BY <1>1, <1>2, <1>3, <1>4, <1>5, <1>6, <1>7, AccountSame

\* The end of one look's cuts keeps it.
LEMMA LooksAgainKeeps ==
  ASSUME FliesInv, LooksAgain
  PROVE  FliesInv'
<1>. USE DEF FliesInv, LooksAgain, OfCutting, Looking
<1>1. budget' \in [of : Scenarios, left : Nat] /\ budget'.of = budget.of
  BY FaultFacts DEF FlyTypes
<1>2. UNCHANGED <<book, held, stray, entry, exit>> /\ (disk' = disk \/ disk' = book)
  OBVIOUS
<1>3. /\ sweep' \in [pc : SweepPcs, fly : Flies \union {NoFly}, attempt : Nat]
      /\ sweep' = sweep \/ sweep'.pc \notin Opens
  BY DEF FlyTypes, SweepPcs, Opens
<1>4. /\ cutter' \in [pc : CutterPcs, fly : Flies \union {NoFly}, todo : SUBSET Flies]
      /\ cutter' = cutter \/ cutter'.pc # "place"
  BY DEF FlyTypes, CutterPcs, Closes
<1>5. lock' \in {"free", "sweep"} /\ spot' \in Int
  BY IronFlyAssumption DEF FlyTypes
<1>6. OpeningOne'
  BY <1>1, <1>2, <1>3 DEF OpeningOne, Opens, Paper, FlyTypes
<1>7. ClosingOne'
  BY <1>2, <1>4 DEF ClosingOne, Closes, FlyTypes
<1>. QED  BY <1>1, <1>2, <1>3, <1>4, <1>5, <1>6, <1>7, AccountSame

\* A poll of the closing order keeps it.
LEMMA ClosePollKeeps ==
  ASSUME FliesInv, ClosePoll
  PROVE  FliesInv'
<1>. USE DEF FliesInv, ClosePoll, OfCutting
<1>1. budget' \in [of : Scenarios, left : Nat] /\ budget'.of = budget.of
  BY FaultFacts DEF FlyTypes
<1>2. UNCHANGED <<book, held, stray, entry, exit>> /\ (disk' = disk \/ disk' = book)
  OBVIOUS
<1>3. /\ sweep' \in [pc : SweepPcs, fly : Flies \union {NoFly}, attempt : Nat]
      /\ sweep' = sweep \/ sweep'.pc \notin Opens
  BY DEF FlyTypes, SweepPcs, Opens
<1>4. /\ cutter' \in [pc : CutterPcs, fly : Flies \union {NoFly}, todo : SUBSET Flies]
      /\ cutter' = cutter \/ cutter'.pc # "place"
  BY DEF FlyTypes, CutterPcs, Closes
<1>5. lock' \in {"free", "sweep"} /\ spot' \in Int
  BY IronFlyAssumption DEF FlyTypes
<1>6. OpeningOne'
  BY <1>1, <1>2, <1>3 DEF OpeningOne, Opens, Paper, FlyTypes
<1>7. ClosingOne'
  BY <1>2, <1>4 DEF ClosingOne, Closes, FlyTypes
<1>. QED  BY <1>1, <1>2, <1>3, <1>4, <1>5, <1>6, <1>7, AccountSame

\* The new-risk gate keeps it, latched or cleared.
LEMMA GateKeeps ==
  ASSUME FliesInv, Gate
  PROVE  FliesInv'
<1>. USE DEF FliesInv, Gate
<1>1. budget' \in [of : Scenarios, left : Nat] /\ budget'.of = budget.of
  BY FaultFacts DEF FlyTypes
<1>2. UNCHANGED <<book, held, stray, entry, exit>> /\ (disk' = disk \/ disk' = book)
  OBVIOUS
<1>3. /\ sweep' \in [pc : SweepPcs, fly : Flies \union {NoFly}, attempt : Nat]
      /\ sweep' = sweep \/ sweep'.pc \notin Opens
  BY DEF FlyTypes, SweepPcs, Opens
<1>4. /\ cutter' \in [pc : CutterPcs, fly : Flies \union {NoFly}, todo : SUBSET Flies]
      /\ cutter' = cutter \/ cutter'.pc # "place"
  BY DEF FlyTypes, CutterPcs, Closes
<1>5. lock' \in {"free", "sweep"} /\ spot' \in Int
  BY IronFlyAssumption DEF FlyTypes
<1>6. OpeningOne'
  BY <1>1, <1>2, <1>3 DEF OpeningOne, Opens, Paper, FlyTypes
<1>7. ClosingOne'
  BY <1>2, <1>4 DEF ClosingOne, Closes, FlyTypes
<1>. QED  BY <1>1, <1>2, <1>3, <1>4, <1>5, <1>6, <1>7, AccountSame

\* An exception in the sweep keeps it: the fly stays as it is and the sweep has stopped.
LEMMA ErrorKeeps ==
  ASSUME FliesInv, Error
  PROVE  FliesInv'
<1>. USE DEF FliesInv, Error, Saved, Idle
<1>1. budget' \in [of : Scenarios, left : Nat] /\ budget'.of = budget.of
  BY FaultFacts DEF FlyTypes
<1>2. UNCHANGED <<book, held, stray, entry, exit>> /\ (disk' = disk \/ disk' = book)
  OBVIOUS
<1>3. /\ sweep' \in [pc : SweepPcs, fly : Flies \union {NoFly}, attempt : Nat]
      /\ sweep' = sweep \/ sweep'.pc \notin Opens
  BY DEF FlyTypes, SweepPcs, Opens
<1>4. /\ cutter' \in [pc : CutterPcs, fly : Flies \union {NoFly}, todo : SUBSET Flies]
      /\ cutter' = cutter \/ cutter'.pc # "place"
  BY DEF FlyTypes, CutterPcs, Closes
<1>5. lock' \in {"free", "sweep"} /\ spot' \in Int
  BY IronFlyAssumption DEF FlyTypes
<1>6. OpeningOne'
  BY <1>1, <1>2, <1>3 DEF OpeningOne, Opens, Paper, FlyTypes
<1>7. ClosingOne'
  BY <1>2, <1>4 DEF ClosingOne, Closes, FlyTypes
<1>. QED  BY <1>1, <1>2, <1>3, <1>4, <1>5, <1>6, <1>7, AccountSame

\* A move of the spot keeps it.
LEMMA MoveKeeps ==
  ASSUME FliesInv, NEW at \in Spots, Move(at)
  PROVE  FliesInv'
<1>. USE DEF FliesInv, Move, OfMarket, Trading
<1>1. budget' \in [of : Scenarios, left : Nat] /\ budget'.of = budget.of
  BY FaultFacts DEF FlyTypes
<1>2. UNCHANGED <<book, held, stray, entry, exit>> /\ (disk' = disk \/ disk' = book)
  OBVIOUS
<1>3. /\ sweep' \in [pc : SweepPcs, fly : Flies \union {NoFly}, attempt : Nat]
      /\ sweep' = sweep \/ sweep'.pc \notin Opens
  BY DEF FlyTypes, SweepPcs, Opens
<1>4. /\ cutter' \in [pc : CutterPcs, fly : Flies \union {NoFly}, todo : SUBSET Flies]
      /\ cutter' = cutter \/ cutter'.pc # "place"
  BY DEF FlyTypes, CutterPcs, Closes
<1>5. lock' \in {"free", "sweep"} /\ spot' \in Int
  BY IronFlyAssumption DEF FlyTypes
<1>6. OpeningOne'
  BY <1>1, <1>2, <1>3 DEF OpeningOne, Opens, Paper, FlyTypes
<1>7. ClosingOne'
  BY <1>2, <1>4 DEF ClosingOne, Closes, FlyTypes
<1>. QED  BY <1>1, <1>2, <1>3, <1>4, <1>5, <1>6, <1>7, AccountSame

\* Sending the opening order keeps it: the attempts bound the orders.
LEMMA OpenSendKeeps ==
  ASSUME FliesInv, OpenSend
  PROVE  FliesInv'
<1>. USE DEF FliesInv
<1>0. PICK f \in Flies : f = sweep.fly
  BY DEF OpeningOne, Opens, OpenSend, Sending
<1>1. book[f].st = "OPENING" /\ ~Paper /\ sweep.pc = "send" /\ sweep.attempt < MaxAttempts
  BY <1>0 DEF OpeningOne, Opens, OpenSend, Sending
<1>2. /\ entry' \in [Flies -> Orders] /\ entry'[f] = "working"
      /\ \A g \in Flies : g # f => entry'[g] = entry[g]
  BY <1>0 DEF FlyTypes, Orders, OpenSend
<1>3. UNCHANGED <<book, disk, lock, held, stray, exit, cutter, spot, budget>>
  BY DEF OpenSend, OfOpening
<1>4. /\ sweep' \in [pc : SweepPcs, fly : Flies \union {NoFly}, attempt : Nat]
      /\ sweep'.pc = "poll" /\ sweep'.fly = f /\ sweep'.attempt = sweep.attempt
  BY <1>0 DEF FlyTypes, SweepPcs, OpenSend
<1>. USE <1>0, <1>1, <1>2, <1>3, <1>4
<1>5. FlyTypes'
  BY DEF FlyTypes, Evenly
<1>6. (NoneClash(book))' /\ (NoneClash(disk))'
  BY DEF NoneClash, Standing, Apart
<1>7. InOrder'
  BY DEF InOrder, Numbered
<1>8. OpeningOne'
  BY DEF OpeningOne, Opens, Paper, FlyTypes
<1>9. ClosingOne'
  BY DEF ClosingOne
<1>10. Counted'
  <2>1. entry[f] \notin {"working", "canceling"}
    BY DEF OpeningOne
  <2>2. \A g \in Flies : g # f => (OnOrder(g))' = OnOrder(g)
    BY DEF OnOrder
  <2>3. held'[f] + stray'[f] + 1 <= sweep.attempt + 1
    BY <2>1 DEF Counted, OnOrder, FlyTypes
  <2>4. sweep.attempt + 1 <= MaxAttempts
    BY IronFlyAssumption DEF FlyTypes
  <2>5. (held[f] + stray[f] + 1) <= MaxAttempts
    BY <2>3, <2>4, IronFlyAssumption DEF FlyTypes
  <2>6. \A g \in Flies : (OnOrder(g))' <= MaxAttempts
    BY <2>2, <2>5 DEF Counted, OnOrder
  <2>7. (OnOrder(sweep.fly))' <= sweep'.attempt + 1
    BY <2>3 DEF OnOrder
  <2>8. \A g \in Flies : exit'[g] = "working" => held'[g] > 0
    BY DEF Counted
  <2>. QED  BY <2>6, <2>7, <2>8 DEF Counted
<1>11. Exact'
  <2>1. entry[f] # "filled"
    BY DEF OpeningOne
  <2>. QED  BY <2>1 DEF Exact, InSight, Owns, Paper
<1>. QED  BY <1>5, <1>6, <1>7, <1>8, <1>9, <1>10, <1>11 DEF FliesInv

\* Giving the opening up after its last attempt keeps it.
LEMMA OpenGivesUpKeeps ==
  ASSUME FliesInv, OpenGivesUp
  PROVE  FliesInv'
<1>1. sweep.pc \in Opens /\ Ends(sweep.fly, "FAILED", 0)
  BY DEF OpenGivesUp, Sending, Opens
<1>2. LeavesUnfilled(sweep.fly)
  BY DEF FliesInv, OpeningOne, OpenGivesUp, Sending, LeavesUnfilled
<1>3. UNCHANGED <<disk, held, exit, cutter, spot>>
  BY DEF OpenGivesUp, OfOpening
<1>4. budget' \in [of : Scenarios, left : Nat] /\ budget'.of = budget.of
  BY FaultFacts DEF FliesInv, FlyTypes, OpenGivesUp
<1>. QED  BY <1>1, <1>2, <1>3, <1>4, EndsKeeps

\* A poll of the opening order keeps it.
LEMMA OpenPollKeeps ==
  ASSUME FliesInv, OpenPoll
  PROVE  FliesInv'
<1>1. sweep.pc = "poll" /\ sweep.pc \in Opens
  BY DEF OpenPoll, Opens
<1>2. UNCHANGED <<disk, held, exit, cutter, spot>>
  BY DEF OpenPoll, OfOpening
<1>3. budget' \in [of : Scenarios, left : Nat] /\ budget'.of = budget.of
  BY FaultFacts DEF FliesInv, FlyTypes, OpenPoll
<1>4. PICK f \in Flies : f = sweep.fly /\ book[f].st = "OPENING" /\ ~Paper
  BY <1>1 DEF FliesInv, OpeningOne
<1>5. CASE \E credit \in Credits : entry[f] = "filled" /\ Ends(f, "OPEN", credit) /\ UNCHANGED <<entry, stray>>
  <2>1. PICK credit \in Credits : entry[f] = "filled" /\ Ends(f, "OPEN", credit) /\ UNCHANGED <<entry, stray>>
    BY <1>5
  <2>2. LeavesFilled(f)
    BY <2>1 DEF LeavesFilled
  <2>. QED  BY <1>1, <1>2, <1>3, <1>4, <2>1, <2>2, EndsKeeps
<1>6. CASE entry[f] = "rejected" /\ (Ends(f, "FAILED", 0) \/ Again) /\ UNCHANGED <<entry, stray>>
  <2>1. LeavesUnfilled(f)
    BY <1>6 DEF LeavesUnfilled
  <2>2. CASE Ends(f, "FAILED", 0)
    BY <1>1, <1>2, <1>3, <1>4, <2>1, <2>2, EndsKeeps
  <2>3. CASE Again
    BY <1>1, <1>2, <1>3, <1>4, <2>1, <2>3, AgainKeeps
  <2>. QED  BY <1>6, <2>2, <2>3
<1>7. CASE entry[f] = "working" /\ Fault("query") /\ GivenUp(f) /\ (Ends(f, "FAILED", 0) \/ Again)
  <2>1. LeavesUnfilled(f)
    BY <1>4, <1>7 DEF LeavesUnfilled, InSight, Fault
  <2>2. CASE Ends(f, "FAILED", 0)
    BY <1>1, <1>2, <1>3, <1>4, <2>1, <2>2, EndsKeeps
  <2>3. CASE Again
    BY <1>1, <1>2, <1>3, <1>4, <2>1, <2>3, AgainKeeps
  <2>. QED  BY <1>7, <2>2, <2>3
<1>8. CASE /\ entry[f] \in {"working", "cancelled"}
           /\ entry' = [entry EXCEPT ![f] = IF @ = "working" THEN "canceling" ELSE @]
           /\ sweep' = [sweep EXCEPT !.pc = "after"]
           /\ UNCHANGED <<book, lock, stray>>
  <2>. USE <1>1, <1>2, <1>3, <1>4, <1>8 DEF FliesInv
  <2>1. /\ entry' \in [Flies -> Orders] /\ entry'[f] \in {"canceling", "cancelled"}
        /\ \A g \in Flies : g # f => entry'[g] = entry[g]
        /\ \A g \in Flies : entry'[g] \in {"working", "canceling"} <=> entry[g] \in {"working", "canceling"}
    BY DEF FlyTypes, Orders
  <2>2. /\ sweep' \in [pc : SweepPcs, fly : Flies \union {NoFly}, attempt : Nat]
        /\ sweep'.pc = "after" /\ sweep'.fly = f /\ sweep'.attempt = sweep.attempt
    BY DEF FlyTypes, SweepPcs
  <2>3. FlyTypes'
    BY <2>1, <2>2 DEF FlyTypes, Evenly
  <2>4. (NoneClash(book))' /\ (NoneClash(disk))'
    BY DEF NoneClash, Standing, Apart
  <2>5. InOrder'
    BY <2>1 DEF InOrder, Numbered
  <2>6. OpeningOne'
    BY <2>1, <2>2 DEF OpeningOne, Opens, Paper, FlyTypes
  <2>7. ClosingOne'
    BY DEF ClosingOne
  <2>8. Counted'
    <3>1. \A g \in Flies : (OnOrder(g))' = OnOrder(g)
      BY <2>1 DEF OnOrder
    <3>2. (OnOrder(sweep.fly))' <= sweep'.attempt + 1
      BY <3>1, <2>2 DEF Counted, OnOrder
    <3>3. \A g \in Flies : (OnOrder(g))' <= MaxAttempts /\ (exit'[g] = "working" => held'[g] > 0)
      BY <3>1 DEF Counted
    <3>. QED  BY <2>2, <3>2, <3>3 DEF Counted
  <2>9. Exact'
    BY <2>1 DEF Exact, InSight, Owns, Paper
  <2>. QED  BY <2>3, <2>4, <2>5, <2>6, <2>7, <2>8, <2>9 DEF FliesInv
<1>. QED  BY <1>4, <1>5, <1>6, <1>7, <1>8 DEF OpenPoll

\* What follows the cancel of an opening order keeps it.
LEMMA OpenAfterCancelKeeps ==
  ASSUME FliesInv, OpenAfterCancel
  PROVE  FliesInv'
<1>1. sweep.pc = "after" /\ sweep.pc \in Opens
  BY DEF OpenAfterCancel, Opens
<1>2. UNCHANGED <<disk, held, exit, cutter, spot>>
  BY DEF OpenAfterCancel, OfOpening
<1>3. budget' \in [of : Scenarios, left : Nat] /\ budget'.of = budget.of
  BY FaultFacts DEF FliesInv, FlyTypes, OpenAfterCancel
<1>4. PICK f \in Flies : f = sweep.fly /\ book[f].st = "OPENING" /\ ~Paper
  BY <1>1 DEF FliesInv, OpeningOne
<1>5. CASE \E credit \in Credits : entry[f] = "filled" /\ Ends(f, "OPEN", credit) /\ UNCHANGED <<entry, stray>>
  <2>1. PICK credit \in Credits : entry[f] = "filled" /\ Ends(f, "OPEN", credit) /\ UNCHANGED <<entry, stray>>
    BY <1>5
  <2>2. LeavesFilled(f)
    BY <2>1 DEF LeavesFilled
  <2>. QED  BY <1>1, <1>2, <1>3, <1>4, <2>1, <2>2, EndsKeeps
<1>6. CASE entry[f] = "cancelled" /\ Again /\ UNCHANGED <<entry, stray>>
  <2>1. LeavesUnfilled(f)
    BY <1>6 DEF LeavesUnfilled
  <2>. QED  BY <1>1, <1>2, <1>3, <1>4, <1>6, <2>1, AgainKeeps
<1>7. CASE entry[f] = "canceling" /\ Fault("slow") /\ GivenUp(f) /\ Again
  <2>1. LeavesUnfilled(f)
    BY <1>4, <1>7 DEF LeavesUnfilled, InSight, Fault
  <2>. QED  BY <1>1, <1>2, <1>3, <1>4, <1>7, <2>1, AgainKeeps
<1>. QED  BY <1>4, <1>5, <1>6, <1>7 DEF OpenAfterCancel

\* The settlement keeps it: only the book changes, one fly at a time, from OPEN, CLOSING or EXPIRED on.
LEMMA SettleKeeps ==
  ASSUME FliesInv, Settle
  PROVE  FliesInv'
<1>. USE DEF FliesInv
<1>1. sweep.pc = "idle" /\ lock = "free"
  BY DEF Settle
<1>2. book' = [f \in Flies |-> IF Standing(book, f) /\ book[f].st # "OPENING" THEN [book[f] EXCEPT !.st = "EXPIRED"] ELSE book[f]]
  BY DEF Settle, Open, Standing
<1>3. disk' = disk \/ disk' = book'
  BY DEF Settle, Saved
<1>4. UNCHANGED <<held, entry, stray, exit, cutter, lock, spot, budget>>
  BY DEF Settle
<1>5. /\ sweep' \in [pc : SweepPcs, fly : Flies \union {NoFly}, attempt : Nat]
      /\ sweep'.pc = "stopped"
  BY DEF Settle, FlyTypes, SweepPcs
<1>6. book' \in Books
  <2>1. "EXPIRED" \in States /\ book \in Books
    BY DEF FlyTypes, States, Final
  <2>2. ASSUME NEW f \in Flies
        PROVE  book[f] \in FlyRecords /\ [book[f] EXCEPT !.st = "EXPIRED"] \in FlyRecords
    BY <2>1 DEF Books, FlyRecords
  <2>. QED  BY <1>2, <2>2 DEF Books
<1>7. \A f \in Flies :
        /\ book'[f].center = book[f].center /\ book'[f].cw = book[f].cw
        /\ book'[f].pw = book[f].pw /\ book'[f].credit = book[f].credit
        /\ book'[f].st = IF book[f].st \in {"OPEN", "CLOSING"} THEN "EXPIRED" ELSE book[f].st
  BY <1>2 DEF FlyTypes, Books, FlyRecords, Standing
<1>8. Evenly(book')
  BY <1>7 DEF Evenly, FlyTypes
<1>9. NoneClash(book')
  BY <1>7, ShrinksApart DEF Standing
<1>10. Numbered(book')
  BY <1>7, SameNumbers DEF InOrder
<1>. USE <1>1, <1>3, <1>4, <1>5, <1>6, <1>7
<1>11. FlyTypes'
  BY <1>8 DEF FlyTypes
<1>12. (NoneClash(book))' /\ (NoneClash(disk))'
  BY <1>9
<1>13. InOrder'
  <2>1. \A f \in Flies : book'[f].st = "none" =>
          disk'[f].st = "none" /\ held'[f] = 0 /\ stray'[f] = 0 /\ entry'[f] = "none" /\ exit'[f] = "none"
    BY DEF InOrder
  <2>. QED  BY <1>10, <2>1 DEF InOrder
<1>14. OpeningOne'
  BY DEF OpeningOne, Opens, Paper
<1>15. ClosingOne'
  BY DEF ClosingOne
<1>16. Counted'
  BY DEF Counted, OnOrder
<1>17. Exact'
  BY DEF Exact, InSight, Owns, Paper
<1>. QED  BY <1>11, <1>12, <1>13, <1>14, <1>15, <1>16, <1>17

\* The spot thread's second look at the status, under the lock, keeps it.
LEMMA CutKeeps ==
  ASSUME FliesInv, Cut
  PROVE  FliesInv'
<1>. USE DEF FliesInv
<1>1. UNCHANGED <<disk, held, entry, stray, sweep, spot, exit, lock, budget>>
  BY DEF Cut, OfCutting
<1>2. PICK f \in cutter.todo :
        IF book[f].st = "OPEN"
        THEN /\ book' = [book EXCEPT ![f].st = "CLOSING"]
             /\ cutter' = [pc |-> "place", fly |-> f, todo |-> cutter.todo \ {f}]
        ELSE /\ cutter' = [cutter EXCEPT !.todo = @ \ {f}]
             /\ UNCHANGED book
  BY DEF Cut
<1>3. f \in Flies /\ cutter.pc = "cut"
  BY DEF FlyTypes, Cut
<1>4. CASE book[f].st # "OPEN"
  <2>1. /\ cutter' \in [pc : CutterPcs, fly : Flies \union {NoFly}, todo : SUBSET Flies]
        /\ cutter'.pc = "cut"
    BY <1>2, <1>3, <1>4 DEF FlyTypes
  <2>2. ClosingOne'
    BY <2>1 DEF ClosingOne, Closes
  <2>3. OpeningOne'
    BY <1>1, <1>2, <1>4 DEF OpeningOne, Opens, Paper
  <2>. QED  BY <1>1, <1>2, <1>4, <2>1, <2>2, <2>3, AccountSame DEF FlyTypes
<1>5. CASE book[f].st = "OPEN"
  <2>1. cutter' = [pc |-> "place", fly |-> f, todo |-> cutter.todo \ {f}]
    BY <1>2, <1>5
  <2>2. cutter' \in [pc : CutterPcs, fly : Flies \union {NoFly}, todo : SUBSET Flies]
    BY <1>3, <2>1 DEF FlyTypes, CutterPcs, Closes
  <2>3. "CLOSING" \in States /\ book \in Books /\ book[f].credit \in Int /\ book[f].credit \in Credits \union {0}
    BY <1>3 DEF FlyTypes, Books, FlyRecords, States, Evenly
  <2>4. Sets(book, book', f, "CLOSING", book[f].credit)
    BY <1>2, <1>3, <1>5, <2>3, SetState
  <2>5. Evenly(book') /\ NoneClash(book') /\ Numbered(book')
    BY <1>3, <1>5, <2>3, <2>4, SetsKeeps DEF Standing, FlyTypes, InOrder
  <2>. USE <1>1, <1>3, <1>5, <2>1, <2>4
  <2>6. FlyTypes'
    BY <2>2, <2>5 DEF FlyTypes, Sets
  <2>7. (NoneClash(book))' /\ (NoneClash(disk))'
    BY <2>5
  <2>8. InOrder'
    <3>1. \A g \in Flies : book'[g].st = "none" => book[g].st = "none"
      BY DEF Sets
    <3>. QED  BY <2>5, <3>1 DEF InOrder
  <2>9. OpeningOne'
    BY DEF OpeningOne, Opens, Paper, Sets
  <2>10. ClosingOne'
    BY DEF ClosingOne, Sets
  <2>11. Counted'
    BY DEF Counted, OnOrder
  <2>12. Exact'
    BY DEF Exact, InSight, Owns, Paper, Sets
  <2>. QED  BY <2>6, <2>7, <2>8, <2>9, <2>10, <2>11, <2>12
<1>. QED  BY <1>4, <1>5

\* Recording a closing fill keeps it.
LEMMA RecordedKeeps ==
  ASSUME FliesInv, Recorded
  PROVE  FliesInv'
<1>. USE DEF FliesInv
<1>1. UNCHANGED <<disk, held, entry, stray, sweep, spot, exit, lock, budget>>
  BY DEF Recorded, OfCutting
<1>2. PICK f \in Flies : f = cutter.fly /\ book[f].st \in {"CLOSING", "EXPIRED"} /\ exit[f] = "filled"
  BY DEF ClosingOne, Closes, Recorded
<1>3. /\ cutter' \in [pc : CutterPcs, fly : Flies \union {NoFly}, todo : SUBSET Flies]
      /\ cutter'.pc = "cut"
  <2>. DEFINE a == [cutter EXCEPT !.fly = NoFly]
  <2>1. a \in [pc : CutterPcs, fly : Flies \union {NoFly}, todo : SUBSET Flies]
    BY DEF FlyTypes
  <2>2. cutter' = [a EXCEPT !.pc = "cut"] /\ "cut" \in CutterPcs
    BY DEF Recorded, FlyTypes, CutterPcs
  <2>. HIDE DEF a
  <2>. QED  BY <2>1, <2>2
<1>4. "CLOSED" \in States /\ book \in Books /\ book[f].credit \in Int /\ book[f].credit \in Credits \union {0}
  BY DEF FlyTypes, Books, FlyRecords, States, Final, Evenly
<1>5. Sets(book, book', f, "CLOSED", book[f].credit)
  BY <1>2, <1>4, SetState DEF Recorded
<1>6. Evenly(book') /\ NoneClash(book') /\ Numbered(book')
  BY <1>2, <1>4, <1>5, SetsKeeps DEF Standing, FlyTypes, InOrder
<1>. USE <1>1, <1>2, <1>3, <1>5
<1>7. FlyTypes'
  BY <1>6 DEF FlyTypes, Sets
<1>8. (NoneClash(book))' /\ (NoneClash(disk))'
  BY <1>6
<1>9. InOrder'
  <2>1. \A g \in Flies : book'[g].st = "none" => book[g].st = "none"
    BY DEF Sets
  <2>. QED  BY <1>6, <2>1 DEF InOrder
<1>10. OpeningOne'
  BY DEF OpeningOne, Opens, Paper, Sets
<1>11. ClosingOne'
  BY DEF ClosingOne, Closes
<1>12. Counted'
  BY DEF Counted, OnOrder
<1>13. Exact'
  BY DEF Exact, InSight, Owns, Paper, Sets
<1>. QED  BY <1>7, <1>8, <1>9, <1>10, <1>11, <1>12, <1>13

\* A restart goes back to the saved book.
LEMMA RestartKeeps ==
  ASSUME FliesInv, PaperStays, Restart
  PROVE  FliesInv'
<1>. USE DEF FliesInv
<1>1. /\ budget' \in [of : Scenarios, left : Nat] /\ budget'.of = budget.of
      /\ "crash" \in budget.of /\ ~Paper
  BY FaultFacts DEF FlyTypes, Restart, Fault, PaperStays, Paper
<1>2. UNCHANGED <<disk, spot>> /\ book' = disk /\ sweep' = Idle /\ cutter' = Looking /\ lock' = "free"
  BY DEF Restart
<1>3. /\ held' = [f \in Flies |-> IF disk[f].st = "none" THEN 0 ELSE held[f]]
      /\ stray' = [f \in Flies |-> IF disk[f].st = "none" THEN 0 ELSE stray[f]]
      /\ entry' = [f \in Flies |-> IF disk[f].st = "none" THEN "none" ELSE entry[f]]
      /\ exit' = [f \in Flies |-> IF disk[f].st = "none" THEN "none" ELSE exit[f]]
  BY DEF Restart
<1>4. \A f \in Flies : disk[f].st # "OPENING" /\ (disk[f].st # "none" => book[f].st # "OPENING")
  BY DEF OpeningOne, Restart
<1>5. FlyTypes'
  <2>1. /\ held' \in [Flies -> Nat] /\ stray' \in [Flies -> Nat] /\ entry' \in [Flies -> Orders]
        /\ exit' \in [Flies -> {"none", "working", "filled", "cancelled"}]
    BY <1>3 DEF FlyTypes, Orders
  <2>2. /\ sweep' \in [pc : SweepPcs, fly : Flies \union {NoFly}, attempt : Nat]
        /\ cutter' \in [pc : CutterPcs, fly : Flies \union {NoFly}, todo : SUBSET Flies]
    BY <1>2 DEF Idle, Looking, SweepPcs, CutterPcs
  <2>. QED  BY <1>1, <1>2, <2>1, <2>2 DEF FlyTypes, Evenly
<1>6. (NoneClash(book))' /\ (NoneClash(disk))'
  BY <1>2 DEF NoneClash, Standing, Apart
<1>7. InOrder'
  BY <1>2, <1>3 DEF InOrder, Numbered
<1>8. OpeningOne'
  BY <1>1, <1>2, <1>3, <1>4 DEF OpeningOne, Opens, Paper, Idle
<1>9. ClosingOne'
  BY <1>2 DEF ClosingOne, Closes, Looking
<1>10. Counted'
  <2>1. \A f \in Flies : (OnOrder(f))' <= MaxAttempts
    <3>1. ASSUME NEW f \in Flies PROVE (OnOrder(f))' = 0 \/ (OnOrder(f))' = OnOrder(f)
      BY <1>3 DEF OnOrder
    <3>2. MaxAttempts \in Nat
      BY IronFlyAssumption
    <3>. QED  BY <3>1, <3>2 DEF Counted
  <2>2. \A f \in Flies : exit'[f] = "working" => held'[f] > 0
    BY <1>3 DEF Counted
  <2>. QED  BY <1>2, <2>1, <2>2 DEF Counted, Idle
<1>11. Exact'
  BY <1>1 DEF Exact, InSight
<1>. QED  BY <1>5, <1>6, <1>7, <1>8, <1>9, <1>10, <1>11

\* A fill of the opening order keeps it.
LEMMA EntryFillKeeps ==
  ASSUME FliesInv, NEW f \in Flies, EntryFill(f)
  PROVE  FliesInv'
<1>. USE DEF FliesInv
<1>1. entry[f] \in {"working", "canceling"} /\ book[f].st = "OPENING" /\ ~Paper
  BY DEF EntryFill, OpeningOne
<1>2. /\ entry' \in [Flies -> Orders] /\ entry'[f] = "filled"
      /\ \A g \in Flies : g # f => entry'[g] = entry[g]
  BY <1>1 DEF FlyTypes, Orders, EntryFill
<1>3. /\ held' \in [Flies -> Nat] /\ held'[f] = held[f] + 1
      /\ \A g \in Flies : g # f => held'[g] = held[g]
  BY <1>1 DEF FlyTypes, Orders, EntryFill
<1>4. UNCHANGED <<book, disk, sweep, cutter, lock, stray, exit, spot, budget>>
  BY DEF EntryFill, OfMarket, OfCutting
<1>5. budget' \in [of : Scenarios, left : Nat] /\ budget'.of = budget.of
  BY FaultFacts DEF FlyTypes, EntryFill
<1>. USE <1>1, <1>2, <1>3, <1>4, <1>5
<1>6. FlyTypes'
  BY DEF FlyTypes, Evenly
<1>7. (NoneClash(book))' /\ (NoneClash(disk))'
  BY DEF NoneClash, Standing, Apart
<1>8. InOrder'
  BY DEF InOrder, Numbered
<1>9. OpeningOne'
  BY DEF OpeningOne, Opens, Paper, FlyTypes
<1>10. ClosingOne'
  BY DEF ClosingOne, Closes
<1>11. Counted'
  <2>1. (OnOrder(f))' <= OnOrder(f)
    BY DEF OnOrder, FlyTypes
  <2>2. \A g \in Flies : g # f => (OnOrder(g))' = OnOrder(g)
    BY DEF OnOrder
  <2>3. ASSUME NEW g \in Flies
        PROVE  (OnOrder(g))' <= MaxAttempts /\ (exit'[g] = "working" => held'[g] > 0)
    <3>1. MaxAttempts \in Nat /\ OnOrder(g) <= MaxAttempts /\ OnOrder(g) \in Nat /\ (OnOrder(g))' \in Nat
      BY IronFlyAssumption DEF Counted, OnOrder, FlyTypes
    <3>2. (OnOrder(g))' <= OnOrder(g)
      BY <2>1, <2>2, <3>1
    <3>3. exit'[g] = "working" => held'[g] > 0
      BY DEF Counted, FlyTypes
    <3>. QED  BY <3>1, <3>2, <3>3
  <2>4. sweep.pc \in Opens =>
          /\ sweep.fly \in Flies /\ sweep.attempt \in Nat /\ OnOrder(sweep.fly) \in Nat
          /\ (OnOrder(sweep.fly))' \in Nat /\ (OnOrder(sweep.fly))' <= OnOrder(sweep.fly)
    <3>1. \A g \in Flies : OnOrder(g) \in Nat /\ (OnOrder(g))' \in Nat /\ (OnOrder(g))' <= OnOrder(g)
      BY <2>1, <2>2 DEF OnOrder, FlyTypes
    <3>. QED  BY <3>1 DEF OpeningOne, FlyTypes, OnOrder
  <2>. QED  BY <2>3, <2>4 DEF Counted, Opens
<1>12. Exact'
  BY DEF Exact, InSight, Owns, Paper, FlyTypes
<1>. QED  BY <1>6, <1>7, <1>8, <1>9, <1>10, <1>11, <1>12

\* A late fill of an opening order that was given up keeps it.
LEMMA StrayFillKeeps ==
  ASSUME FliesInv, NEW f \in Flies, StrayFill(f)
  PROVE  FliesInv'
<1>. USE DEF FliesInv
<1>1. stray[f] > 0 /\ book[f].st # "none"
  BY DEF StrayFill, InOrder
<1>2. /\ stray' \in [Flies -> Nat] /\ stray'[f] = stray[f] - 1
      /\ \A g \in Flies : g # f => stray'[g] = stray[g]
  BY <1>1 DEF FlyTypes, Orders, StrayFill
<1>3. /\ held' \in [Flies -> Nat] /\ held'[f] = held[f] + 1
      /\ \A g \in Flies : g # f => held'[g] = held[g]
  BY <1>1 DEF FlyTypes, Orders, StrayFill
<1>4. UNCHANGED <<book, disk, sweep, cutter, lock, entry, exit, spot, budget>>
  BY DEF StrayFill, OfMarket, OfCutting
<1>5. budget' \in [of : Scenarios, left : Nat] /\ budget'.of = budget.of
  BY FaultFacts DEF FlyTypes, StrayFill
<1>. USE <1>1, <1>2, <1>3, <1>4, <1>5
<1>6. FlyTypes'
  BY DEF FlyTypes, Evenly
<1>7. (NoneClash(book))' /\ (NoneClash(disk))'
  BY DEF NoneClash, Standing, Apart
<1>8. InOrder'
  BY DEF InOrder, Numbered
<1>9. OpeningOne'
  BY DEF OpeningOne, Opens, Paper, FlyTypes
<1>10. ClosingOne'
  BY DEF ClosingOne, Closes
<1>11. Counted'
  <2>1. (OnOrder(f))' <= OnOrder(f)
    BY DEF OnOrder, FlyTypes
  <2>2. \A g \in Flies : g # f => (OnOrder(g))' = OnOrder(g)
    BY DEF OnOrder
  <2>3. ASSUME NEW g \in Flies
        PROVE  (OnOrder(g))' <= MaxAttempts /\ (exit'[g] = "working" => held'[g] > 0)
    <3>1. MaxAttempts \in Nat /\ OnOrder(g) <= MaxAttempts /\ OnOrder(g) \in Nat /\ (OnOrder(g))' \in Nat
      BY IronFlyAssumption DEF Counted, OnOrder, FlyTypes
    <3>2. (OnOrder(g))' <= OnOrder(g)
      BY <2>1, <2>2, <3>1
    <3>3. exit'[g] = "working" => held'[g] > 0
      BY DEF Counted, FlyTypes
    <3>. QED  BY <3>1, <3>2, <3>3
  <2>4. sweep.pc \in Opens =>
          /\ sweep.fly \in Flies /\ sweep.attempt \in Nat /\ OnOrder(sweep.fly) \in Nat
          /\ (OnOrder(sweep.fly))' \in Nat /\ (OnOrder(sweep.fly))' <= OnOrder(sweep.fly)
    <3>1. \A g \in Flies : OnOrder(g) \in Nat /\ (OnOrder(g))' \in Nat /\ (OnOrder(g))' <= OnOrder(g)
      BY <2>1, <2>2 DEF OnOrder, FlyTypes
    <3>. QED  BY <3>1 DEF OpeningOne, FlyTypes, OnOrder
  <2>. QED  BY <2>3, <2>4 DEF Counted, Opens
<1>12. Exact'
  BY DEF Exact, InSight, Owns, Paper, FlyTypes
<1>. QED  BY <1>6, <1>7, <1>8, <1>9, <1>10, <1>11, <1>12

\* A cancel that arrives keeps it.
LEMMA EntryCancelledKeeps ==
  ASSUME FliesInv, NEW f \in Flies, EntryCancelled(f)
  PROVE  FliesInv'
<1>. USE DEF FliesInv
<1>1. entry[f] = "canceling" /\ book[f].st = "OPENING" /\ ~Paper
  BY DEF EntryCancelled, OpeningOne
<1>2. /\ entry' \in [Flies -> Orders] /\ entry'[f] = "cancelled"
      /\ \A g \in Flies : g # f => entry'[g] = entry[g]
  BY <1>1 DEF FlyTypes, Orders, EntryCancelled
<1>3. UNCHANGED <<book, disk, sweep, cutter, lock, held, stray, exit, spot, budget>>
  BY DEF EntryCancelled, OfMarket, OfCutting
<1>4. budget' \in [of : Scenarios, left : Nat] /\ budget'.of = budget.of
  BY FaultFacts DEF FlyTypes, EntryCancelled
<1>. USE <1>1, <1>2, <1>3, <1>4
<1>5. FlyTypes'
  BY DEF FlyTypes, Evenly
<1>6. (NoneClash(book))' /\ (NoneClash(disk))'
  BY DEF NoneClash, Standing, Apart
<1>7. InOrder'
  BY DEF InOrder, Numbered
<1>8. OpeningOne'
  BY DEF OpeningOne, Opens, Paper, FlyTypes
<1>9. ClosingOne'
  BY DEF ClosingOne, Closes
<1>10. Counted'
  <2>1. (OnOrder(f))' <= OnOrder(f)
    BY DEF OnOrder, FlyTypes
  <2>2. \A g \in Flies : g # f => (OnOrder(g))' = OnOrder(g)
    BY DEF OnOrder
  <2>3. ASSUME NEW g \in Flies
        PROVE  (OnOrder(g))' <= MaxAttempts /\ (exit'[g] = "working" => held'[g] > 0)
    <3>1. MaxAttempts \in Nat /\ OnOrder(g) <= MaxAttempts /\ OnOrder(g) \in Nat /\ (OnOrder(g))' \in Nat
      BY IronFlyAssumption DEF Counted, OnOrder, FlyTypes
    <3>2. (OnOrder(g))' <= OnOrder(g)
      BY <2>1, <2>2, <3>1
    <3>3. exit'[g] = "working" => held'[g] > 0
      BY DEF Counted, FlyTypes
    <3>. QED  BY <3>1, <3>2, <3>3
  <2>4. sweep.pc \in Opens =>
          /\ sweep.fly \in Flies /\ sweep.attempt \in Nat /\ OnOrder(sweep.fly) \in Nat
          /\ (OnOrder(sweep.fly))' \in Nat /\ (OnOrder(sweep.fly))' <= OnOrder(sweep.fly)
    <3>1. \A g \in Flies : OnOrder(g) \in Nat /\ (OnOrder(g))' \in Nat /\ (OnOrder(g))' <= OnOrder(g)
      BY <2>1, <2>2 DEF OnOrder, FlyTypes
    <3>. QED  BY <3>1 DEF OpeningOne, FlyTypes, OnOrder
  <2>. QED  BY <2>3, <2>4 DEF Counted, Opens
<1>11. Exact'
  BY DEF Exact, InSight, Owns, Paper, FlyTypes
<1>. QED  BY <1>5, <1>6, <1>7, <1>8, <1>9, <1>10, <1>11

\* A rejection of the opening order keeps it.
LEMMA EntryRejectedKeeps ==
  ASSUME FliesInv, NEW f \in Flies, EntryRejected(f)
  PROVE  FliesInv'
<1>. USE DEF FliesInv
<1>1. entry[f] = "working" /\ book[f].st = "OPENING" /\ ~Paper
  BY DEF EntryRejected, OpeningOne
<1>2. /\ entry' \in [Flies -> Orders] /\ entry'[f] = "rejected"
      /\ \A g \in Flies : g # f => entry'[g] = entry[g]
  BY <1>1 DEF FlyTypes, Orders, EntryRejected
<1>3. UNCHANGED <<book, disk, sweep, cutter, lock, held, stray, exit, spot>>
  BY DEF EntryRejected, OfMarket, OfCutting
<1>4. budget' \in [of : Scenarios, left : Nat] /\ budget'.of = budget.of
  BY FaultFacts DEF FlyTypes, EntryRejected
<1>. USE <1>1, <1>2, <1>3, <1>4
<1>5. FlyTypes'
  BY DEF FlyTypes, Evenly
<1>6. (NoneClash(book))' /\ (NoneClash(disk))'
  BY DEF NoneClash, Standing, Apart
<1>7. InOrder'
  BY DEF InOrder, Numbered
<1>8. OpeningOne'
  BY DEF OpeningOne, Opens, Paper, FlyTypes
<1>9. ClosingOne'
  BY DEF ClosingOne, Closes
<1>10. Counted'
  <2>1. (OnOrder(f))' <= OnOrder(f)
    BY DEF OnOrder, FlyTypes
  <2>2. \A g \in Flies : g # f => (OnOrder(g))' = OnOrder(g)
    BY DEF OnOrder
  <2>3. ASSUME NEW g \in Flies
        PROVE  (OnOrder(g))' <= MaxAttempts /\ (exit'[g] = "working" => held'[g] > 0)
    <3>1. MaxAttempts \in Nat /\ OnOrder(g) <= MaxAttempts /\ OnOrder(g) \in Nat /\ (OnOrder(g))' \in Nat
      BY IronFlyAssumption DEF Counted, OnOrder, FlyTypes
    <3>2. (OnOrder(g))' <= OnOrder(g)
      BY <2>1, <2>2, <3>1
    <3>3. exit'[g] = "working" => held'[g] > 0
      BY DEF Counted, FlyTypes
    <3>. QED  BY <3>1, <3>2, <3>3
  <2>4. sweep.pc \in Opens =>
          /\ sweep.fly \in Flies /\ sweep.attempt \in Nat /\ OnOrder(sweep.fly) \in Nat
          /\ (OnOrder(sweep.fly))' \in Nat /\ (OnOrder(sweep.fly))' <= OnOrder(sweep.fly)
    <3>1. \A g \in Flies : OnOrder(g) \in Nat /\ (OnOrder(g))' \in Nat /\ (OnOrder(g))' <= OnOrder(g)
      BY <2>1, <2>2 DEF OnOrder, FlyTypes
    <3>. QED  BY <3>1 DEF OpeningOne, FlyTypes, OnOrder
  <2>. QED  BY <2>3, <2>4 DEF Counted, Opens
<1>11. Exact'
  BY DEF Exact, InSight, Owns, Paper, FlyTypes
<1>. QED  BY <1>5, <1>6, <1>7, <1>8, <1>9, <1>10, <1>11

\* A fill of the closing order keeps it.
LEMMA ExitFillKeeps ==
  ASSUME FliesInv, NEW f \in Flies, ExitFill(f)
  PROVE  FliesInv'
<1>. USE DEF FliesInv
<1>1. exit[f] = "working" /\ held[f] > 0
  BY DEF ExitFill, Counted
<1>2. /\ exit' \in [Flies -> {"none", "working", "filled", "cancelled"}] /\ exit'[f] = "filled"
      /\ \A g \in Flies : g # f => exit'[g] = exit[g]
  BY <1>1 DEF FlyTypes, Orders, ExitFill
<1>3. /\ held' \in [Flies -> Nat] /\ held'[f] = held[f] - 1
      /\ \A g \in Flies : g # f => held'[g] = held[g]
  BY <1>1 DEF FlyTypes, Orders, ExitFill
<1>4. UNCHANGED <<book, disk, sweep, cutter, lock, entry, stray, spot, budget>>
  BY DEF ExitFill, OfMarket, OfCutting
<1>5. budget' \in [of : Scenarios, left : Nat] /\ budget'.of = budget.of
  BY FaultFacts DEF FlyTypes, ExitFill
<1>. USE <1>1, <1>2, <1>3, <1>4, <1>5
<1>6. FlyTypes'
  BY DEF FlyTypes, Evenly
<1>7. (NoneClash(book))' /\ (NoneClash(disk))'
  BY DEF NoneClash, Standing, Apart
<1>8. InOrder'
  BY DEF InOrder, Numbered
<1>9. OpeningOne'
  BY DEF OpeningOne, Opens, Paper, FlyTypes
<1>10. ClosingOne'
  BY DEF ClosingOne, Closes
<1>11. Counted'
  <2>1. (OnOrder(f))' <= OnOrder(f)
    BY DEF OnOrder, FlyTypes
  <2>2. \A g \in Flies : g # f => (OnOrder(g))' = OnOrder(g)
    BY DEF OnOrder
  <2>3. ASSUME NEW g \in Flies
        PROVE  (OnOrder(g))' <= MaxAttempts /\ (exit'[g] = "working" => held'[g] > 0)
    <3>1. MaxAttempts \in Nat /\ OnOrder(g) <= MaxAttempts /\ OnOrder(g) \in Nat /\ (OnOrder(g))' \in Nat
      BY IronFlyAssumption DEF Counted, OnOrder, FlyTypes
    <3>2. (OnOrder(g))' <= OnOrder(g)
      BY <2>1, <2>2, <3>1
    <3>3. exit'[g] = "working" => held'[g] > 0
      BY DEF Counted, FlyTypes
    <3>. QED  BY <3>1, <3>2, <3>3
  <2>4. sweep.pc \in Opens =>
          /\ sweep.fly \in Flies /\ sweep.attempt \in Nat /\ OnOrder(sweep.fly) \in Nat
          /\ (OnOrder(sweep.fly))' \in Nat /\ (OnOrder(sweep.fly))' <= OnOrder(sweep.fly)
    <3>1. \A g \in Flies : OnOrder(g) \in Nat /\ (OnOrder(g))' \in Nat /\ (OnOrder(g))' <= OnOrder(g)
      BY <2>1, <2>2 DEF OnOrder, FlyTypes
    <3>. QED  BY <3>1 DEF OpeningOne, FlyTypes, OnOrder
  <2>. QED  BY <2>3, <2>4 DEF Counted, Opens
<1>12. Exact'
  <2>1. "crash" \notin budget.of => book[f].st \in {"CLOSING", "EXPIRED", "CLOSED"}
    BY DEF Exact
  <2>2. InSight => held'[f] = (IF Owns(f) THEN 1 ELSE 0)'
    BY <2>1 DEF Exact, InSight, Owns, FlyTypes
  <2>3. \A g \in Flies : g # f => ((Owns(g))' <=> Owns(g)) /\ held'[g] = held[g]
    BY DEF Owns
  <2>4. (InSight)' <=> InSight
    BY DEF InSight, Paper
  <2>5. InSight => \A g \in Flies : held'[g] = (IF Owns(g) THEN 1 ELSE 0)' /\ stray'[g] = 0
    BY <2>2, <2>3 DEF Exact
  <2>6. "crash" \notin budget.of =>
          /\ \A g \in Flies : exit'[g] # "none" => book'[g].st \in {"CLOSING", "EXPIRED", "CLOSED"}
          /\ cutter.pc = "place" => exit'[cutter.fly] = "none"
    BY <2>1 DEF Exact, ClosingOne, Closes
  <2>. QED  BY <2>4, <2>5, <2>6 DEF Exact
<1>. QED  BY <1>6, <1>7, <1>8, <1>9, <1>10, <1>11, <1>12


\* A paper close keeps it.
LEMMA PaperCloseKeeps ==
  ASSUME FliesInv, PaperStays, PaperClose
  PROVE  FliesInv'
<1>. USE DEF FliesInv
<1>1. PICK f \in Flies : f = cutter.fly /\ book[f].st \in {"CLOSING", "EXPIRED"}
  BY DEF ClosingOne, Closes, PaperClose
<1>2. cutter.pc = "place" /\ Paper /\ "crash" \notin budget.of /\ InSight
  BY DEF PaperClose, Paper, PaperStays, InSight, FlyTypes
<1>3. exit[f] = "none" /\ held[f] = 1
  BY <1>1, <1>2 DEF Exact, Owns
<1>4. /\ exit' \in [Flies -> {"none", "working", "filled", "cancelled"}] /\ exit'[f] = "filled"
      /\ \A g \in Flies : g # f => exit'[g] = exit[g]
  BY <1>1 DEF PaperClose, FlyTypes
<1>5. /\ held' \in [Flies -> Nat] /\ held'[f] = 0
      /\ \A g \in Flies : g # f => held'[g] = held[g]
  <2>1. held' = [held EXCEPT ![f] = 0]
    BY <1>1, <1>3 DEF PaperClose, FlyTypes
  <2>. QED  BY <2>1 DEF FlyTypes
<1>6. /\ cutter' \in [pc : CutterPcs, fly : Flies \union {NoFly}, todo : SUBSET Flies]
      /\ cutter'.pc = "record" /\ cutter'.fly = f
  BY <1>1 DEF PaperClose, FlyTypes, CutterPcs, Closes
<1>7. UNCHANGED <<book, disk, entry, stray, sweep, lock, spot, budget>>
  BY DEF PaperClose
<1>. USE <1>1, <1>2, <1>3, <1>4, <1>5, <1>6, <1>7
<1>8. FlyTypes'
  BY DEF FlyTypes, Evenly
<1>9. (NoneClash(book))' /\ (NoneClash(disk))'
  BY DEF NoneClash, Standing, Apart
<1>10. InOrder'
  BY DEF InOrder, Numbered
<1>11. OpeningOne'
  BY DEF OpeningOne, Opens, Paper, FlyTypes
<1>12. ClosingOne'
  BY DEF ClosingOne, Closes
<1>13. Counted'
  <2>1. ASSUME NEW g \in Flies
        PROVE  (OnOrder(g))' <= MaxAttempts /\ (exit'[g] = "working" => held'[g] > 0)
    <3>1. MaxAttempts \in Nat /\ OnOrder(g) <= MaxAttempts /\ OnOrder(g) \in Nat /\ (OnOrder(g))' \in Nat
      BY IronFlyAssumption DEF Counted, OnOrder, FlyTypes
    <3>2. (OnOrder(g))' <= OnOrder(g)
      BY DEF OnOrder, FlyTypes
    <3>3. exit'[g] = "working" => held'[g] > 0
      BY DEF Counted, FlyTypes
    <3>. QED  BY <3>1, <3>2, <3>3
  <2>2. sweep.pc \notin Opens
    BY DEF OpeningOne
  <2>. QED  BY <2>1, <2>2 DEF Counted, Opens
<1>14. Exact'
  BY DEF Exact, InSight, Owns, Paper, FlyTypes
<1>. QED  BY <1>8, <1>9, <1>10, <1>11, <1>12, <1>13, <1>14

\* Placing the closing order keeps it.
LEMMA ClosePlaceKeeps ==
  ASSUME FliesInv, ClosePlace
  PROVE  FliesInv'
<1>. USE DEF FliesInv
<1>1. PICK f \in Flies : f = cutter.fly /\ book[f].st \in {"CLOSING", "EXPIRED"} /\ held[f] > 0
  BY DEF ClosingOne, Closes, ClosePlace
<1>2. cutter.pc = "place"
  BY DEF ClosePlace
<1>3. /\ exit' \in [Flies -> {"none", "working", "filled", "cancelled"}] /\ exit'[f] = "working"
      /\ \A g \in Flies : g # f => exit'[g] = exit[g]
  BY <1>1 DEF ClosePlace, FlyTypes
<1>4. /\ cutter' \in [pc : CutterPcs, fly : Flies \union {NoFly}, todo : SUBSET Flies]
      /\ cutter'.pc = "poll" /\ cutter'.fly = f
  BY <1>1 DEF ClosePlace, FlyTypes, CutterPcs, Closes
<1>5. UNCHANGED <<book, disk, held, entry, stray, sweep, lock, spot, budget>>
  BY DEF ClosePlace, OfCutting
<1>. USE <1>1, <1>2, <1>3, <1>4, <1>5
<1>6. FlyTypes'
  BY DEF FlyTypes, Evenly
<1>7. (NoneClash(book))' /\ (NoneClash(disk))'
  BY DEF NoneClash, Standing, Apart
<1>8. InOrder'
  BY DEF InOrder, Numbered
<1>9. OpeningOne'
  BY DEF OpeningOne, Opens, Paper, FlyTypes
<1>10. ClosingOne'
  BY DEF ClosingOne, Closes
<1>11. Counted'
  BY DEF Counted, OnOrder, FlyTypes
<1>12. Exact'
  <2>1. InSight => exit[f] # "filled"
    BY DEF Exact, InSight
  <2>. QED  BY <2>1 DEF Exact, InSight, Owns, Paper, FlyTypes
<1>. QED  BY <1>6, <1>7, <1>8, <1>9, <1>10, <1>11, <1>12

\* Replacing the closing order keeps it.
LEMMA CloseReplaceKeeps ==
  ASSUME FliesInv, CloseReplace
  PROVE  FliesInv'
<1>. USE DEF FliesInv
<1>1. PICK f \in Flies : f = cutter.fly /\ book[f].st \in {"CLOSING", "EXPIRED"}
  BY DEF ClosingOne, Closes, CloseReplace
<1>2. /\ exit' \in [Flies -> {"none", "working", "filled", "cancelled"}]
      /\ exit'[f] = IF exit[f] = "working" THEN "cancelled" ELSE exit[f]
      /\ \A g \in Flies : g # f => exit'[g] = exit[g]
  BY <1>1 DEF CloseReplace, FlyTypes
<1>3. /\ cutter' \in [pc : CutterPcs, fly : Flies \union {NoFly}, todo : SUBSET Flies]
      /\ cutter'.fly = f /\ cutter'.pc = IF exit[f] = "filled" THEN "record" ELSE "poll"
  BY <1>1 DEF CloseReplace, FlyTypes, CutterPcs, Closes
<1>4. UNCHANGED <<book, disk, held, entry, stray, sweep, lock, spot, budget>>
  BY DEF CloseReplace, OfCutting
<1>. USE <1>1, <1>2, <1>3, <1>4
<1>6. FlyTypes'
  BY DEF FlyTypes, Evenly
<1>7. (NoneClash(book))' /\ (NoneClash(disk))'
  BY DEF NoneClash, Standing, Apart
<1>8. InOrder'
  BY DEF InOrder, Numbered
<1>9. OpeningOne'
  BY DEF OpeningOne, Opens, Paper, FlyTypes
<1>10. ClosingOne'
  BY DEF ClosingOne, Closes
<1>11. Counted'
  BY DEF Counted, OnOrder, FlyTypes
<1>12. Exact'
  <2>1. \A g \in Flies : /\ exit'[g] = "filled" <=> exit[g] = "filled"
                         /\ exit'[g] = "none" <=> exit[g] = "none"
    BY DEF FlyTypes
  <2>2. \A g \in Flies : (Owns(g))' <=> Owns(g)
    BY <2>1 DEF Owns
  <2>. QED  BY <2>1, <2>2 DEF Exact, InSight, Paper
<1>. QED  BY <1>6, <1>7, <1>8, <1>9, <1>10, <1>11, <1>12

\* At the bell the orders that work end.
LEMMA BellKeeps ==
  ASSUME FliesInv, Bell
  PROVE  FliesInv'
<1>. USE DEF FliesInv
<1>1. /\ entry' = [f \in Flies |-> IF entry[f] \in {"working", "canceling"} THEN "cancelled" ELSE entry[f]]
      /\ exit' = [f \in Flies |-> IF exit[f] \in {"working", "canceling"} THEN "cancelled" ELSE exit[f]]
      /\ stray' = [f \in Flies |-> 0]
  BY DEF Bell
<1>2. UNCHANGED <<book, disk, held, sweep, cutter, lock, spot, budget>>
  BY DEF Bell, OfMarket
<1>3. entry' \in [Flies -> Orders] /\ exit' \in [Flies -> {"none", "working", "filled", "cancelled"}]
  BY <1>1 DEF FlyTypes, Orders
<1>. USE <1>1, <1>2, <1>3
<1>6. FlyTypes'
  BY DEF FlyTypes, Evenly
<1>7. (NoneClash(book))' /\ (NoneClash(disk))'
  BY DEF NoneClash, Standing, Apart
<1>8. InOrder'
  BY DEF InOrder, Numbered
<1>9. OpeningOne'
  BY DEF OpeningOne, Opens, Paper, FlyTypes
<1>10. ClosingOne'
  BY DEF ClosingOne, Closes
<1>11. Counted'
  <2>1. ASSUME NEW g \in Flies
        PROVE  /\ (OnOrder(g))' \in Nat /\ (OnOrder(g))' <= OnOrder(g) /\ OnOrder(g) \in Nat
               /\ (OnOrder(g))' <= MaxAttempts /\ (exit'[g] = "working" => held'[g] > 0)
    <3>1. MaxAttempts \in Nat /\ OnOrder(g) <= MaxAttempts /\ OnOrder(g) \in Nat
      BY IronFlyAssumption DEF Counted, OnOrder, FlyTypes
    <3>2. (OnOrder(g))' <= OnOrder(g) /\ (OnOrder(g))' \in Nat
      BY DEF OnOrder, FlyTypes
    <3>3. exit'[g] = "working" => held'[g] > 0
      BY DEF Counted, FlyTypes
    <3>. QED  BY <3>1, <3>2, <3>3
  <2>2. sweep.pc \in Opens =>
          /\ sweep.fly \in Flies /\ sweep.attempt \in Nat /\ OnOrder(sweep.fly) \in Nat
          /\ (OnOrder(sweep.fly))' \in Nat /\ (OnOrder(sweep.fly))' <= OnOrder(sweep.fly)
    BY <2>1 DEF OpeningOne, FlyTypes, OnOrder
  <2>. QED  BY <2>1, <2>2 DEF Counted, Opens
<1>12. Exact'
  <2>1. \A g \in Flies : /\ exit'[g] = "filled" <=> exit[g] = "filled"
                         /\ entry'[g] = "filled" <=> entry[g] = "filled"
                         /\ exit'[g] = "none" <=> exit[g] = "none"
    BY DEF FlyTypes
  <2>2. \A g \in Flies : (Owns(g))' <=> Owns(g)
    BY <2>1 DEF Owns
  <2>. QED  BY <2>1, <2>2 DEF Exact, InSight, Paper, ClosingOne, Closes
<1>. QED  BY <1>6, <1>7, <1>8, <1>9, <1>10, <1>11, <1>12

\* The next number is that of the first fly that was never used.
LEMMA NextNumber ==
  ASSUME FliesInv, Cardinality(Used) + 1 \in Flies
  PROVE  \A g \in Flies : book[g].st # "none" <=> g < Cardinality(Used) + 1
<1>1. PICK n \in 0..MaxFlies : \A f \in Flies : book[f].st # "none" <=> f <= n
  BY DEF FliesInv, InOrder, Numbered
<1>2. MaxFlies \in Nat
  BY IronFlyAssumption
<1>3. Used = 1..n
  BY <1>1, <1>2 DEF Used, Flies
<1>4. Cardinality(1..n) = n
  <2>1. 1 \in Int /\ n \in Int
    BY <1>2
  <2>2. Cardinality(1..n) = IF 1 > n THEN 0 ELSE n - 1 + 1
    BY <2>1, FS_Interval
  <2>. QED  BY <1>2, <2>2
<1>. QED  BY <1>1, <1>2, <1>3, <1>4 DEF Flies

\* Strikes are multiples of the interval.
LEMMA AtmEven ==
  ASSUME NEW at \in Int
  PROVE  Atm(at) \in Int /\ Atm(at) % 2 = 0
BY DEF Atm

\* The center tried next is a strike: an even number.
LEMMA CandidateEven ==
  ASSUME FliesInv, NEW f \in Flies, NEW tight \in BOOLEAN
  PROVE  /\ Candidate(f, Trigger(f, tight).offset) \in Int
         /\ Candidate(f, Trigger(f, tight).offset) % 2 = 0
<1>1. Trigger(f, tight).offset \in {2, 4, 6, 8}
  BY DEF Trigger
<1>2. book[f].center \in Int /\ book[f].center % 2 = 0 /\ spot \in Int
  BY DEF FliesInv, FlyTypes, Books, FlyRecords, Evenly
<1>3. Atm(spot) \in Int /\ Atm(spot) % 2 = 0
  BY <1>2, AtmEven
<1>4. ASSUME NEW o \in {2, 4, 6, 8}
      PROVE  Candidate(f, o) \in Int /\ Candidate(f, o) % 2 = 0
  BY <1>2, <1>3 DEF Candidate
<1>. QED  BY <1>1, <1>4

\* A new fly between wings that meet no short strike, around a center where
\* the book is not long.
LEMMA NewApart ==
  ASSUME NEW b \in Books, NEW f \in Flies, NEW r \in FlyRecords, NoneClash(b),
         r.cw # 0, r.pw # 0,
         \A g \in Flies : g # f /\ Standing(b, g) =>
           /\ r.center # b[g].center + b[g].cw /\ r.center # b[g].center - b[g].pw
           /\ b[g].center # r.center + r.cw /\ b[g].center # r.center - r.pw
  PROVE  NoneClash([b EXCEPT ![f] = r])
<1>. DEFINE c == [b EXCEPT ![f] = r]
<1>1. c[f] = r /\ \A g \in Flies : g # f => c[g] = b[g]
  BY DEF Books
<1>2. r.center \in Int /\ r.cw \in Nat /\ r.pw \in Nat
  BY DEF FlyRecords
<1>. HIDE DEF c
<1>3. ASSUME NEW g \in Flies, NEW h \in Flies, Standing(c, g), Standing(c, h)
      PROVE  Apart(c, g, h)
  <2>1. CASE g = f /\ h = f
    BY <1>1, <1>2, <2>1 DEF Apart
  <2>2. CASE g = f /\ h # f
    BY <1>1, <1>3, <2>2 DEF Apart, Standing
  <2>3. CASE g # f /\ h = f
    BY <1>1, <1>3, <2>3 DEF Apart, Standing
  <2>4. CASE g # f /\ h # f
    BY <1>1, <1>3, <2>4 DEF Apart, Standing, NoneClash
  <2>. QED  BY <2>1, <2>2, <2>3, <2>4
<1>. QED  BY <1>3 DEF NoneClash, c

\* _submit_fly at a center and wings that clash with nothing.
LEMMA SubmittedKeeps ==
  ASSUME FliesInv, May, NEW c \in Int, c % 2 = 0,
         NEW w \in (Nat \ {0}) \X (Nat \ {0}), Submitted(c, w),
         ~LongAt(c), ~ShortAt(c + w[1]), ~ShortAt(c - w[2]),
         UNCHANGED <<disk, budget, entry, stray, exit, cutter, spot>>
  PROVE  FliesInv'
<1>. USE DEF FliesInv
<1>1. PICK f \in Flies : f = Cardinality(Used) + 1
  BY DEF Submitted
<1>2. \A g \in Flies : book[g].st # "none" <=> g < f
  BY <1>1, NextNumber
<1>3. book[f].st = "none" /\ f \in 1..MaxFlies /\ MaxFlies \in Nat
  BY <1>2, IronFlyAssumption DEF Flies
<1>4. disk[f].st = "none" /\ held[f] = 0 /\ stray[f] = 0 /\ entry[f] = "none" /\ exit[f] = "none"
  BY <1>3 DEF InOrder
<1>5. sweep.pc = "idle" /\ lock = "free" /\ \A g \in Flies : book[g].st # "OPENING"
  BY DEF May, OpeningOne, Opens
<1>6. PICK st \in {"PENDING_APPROVAL", "OPEN", "OPENING"}, credit \in Credits \union {0} :
        /\ book' = [book EXCEPT ![f] = [st |-> st, center |-> c, cw |-> w[1], pw |-> w[2], credit |-> credit]]
        /\ st = "OPEN" => Paper
        /\ st = "OPENING" => ~Paper
        /\ held' = IF st = "OPEN" THEN [held EXCEPT ![f] = 1] ELSE held
        /\ sweep' = IF st = "OPENING" THEN [pc |-> "send", fly |-> f, attempt |-> 0]
                    ELSE [pc |-> "save", fly |-> NoFly, attempt |-> 0]
        /\ lock' = IF st = "OPENING" THEN "sweep" ELSE "free"
  <2>1. CASE "approve" \in budget.of /\ book' = [book EXCEPT ![f] =
               [st |-> "PENDING_APPROVAL", center |-> c, cw |-> w[1], pw |-> w[2], credit |-> 0]]
             /\ sweep' = [pc |-> "save", fly |-> NoFly, attempt |-> 0] /\ lock' = "free" /\ UNCHANGED held
    BY <2>1
  <2>2. CASE \E credit \in Credits : Paper /\ book' = [book EXCEPT ![f] =
               [st |-> "OPEN", center |-> c, cw |-> w[1], pw |-> w[2], credit |-> credit]]
             /\ sweep' = [pc |-> "save", fly |-> NoFly, attempt |-> 0] /\ lock' = "free"
             /\ held' = [held EXCEPT ![f] = 1]
    BY <2>2
  <2>3. CASE ~Paper /\ book' = [book EXCEPT ![f] =
               [st |-> "OPENING", center |-> c, cw |-> w[1], pw |-> w[2], credit |-> 0]]
             /\ sweep' = [pc |-> "send", fly |-> f, attempt |-> 0] /\ lock' = "sweep" /\ UNCHANGED held
    BY <2>3
  <2>. QED  BY <1>1, <2>1, <2>2, <2>3 DEF Submitted, Paper
<1>. DEFINE r == [st |-> st, center |-> c, cw |-> w[1], pw |-> w[2], credit |-> credit]
<1>7. credit \in Int /\ st \in States
  <2>1. Credits \subseteq Int
    BY IronFlyAssumption
  <2>2. {"PENDING_APPROVAL", "OPEN", "OPENING"} \subseteq States
    BY DEF States
  <2>3. 0 \in Int
    OBVIOUS
  <2>. QED  BY ONLY <1>6, <2>1, <2>2, <2>3, Zenon
<1>8. r \in FlyRecords /\ r.cw # 0 /\ r.pw # 0
  BY <1>7 DEF FlyRecords
<1>9. r.st = st /\ r.center = c /\ r.cw = w[1] /\ r.pw = w[2] /\ r.credit = credit
  OBVIOUS
<1>10. book' = [book EXCEPT ![f] = r]
  BY <1>6
<1>. HIDE DEF r
<1>11. /\ book' \in Books /\ book'[f] = r
       /\ \A g \in Flies : g # f => book'[g] = book[g]
  BY <1>8, <1>10 DEF FlyTypes, Books
<1>12. NoneClash(book')
  <2>1. ASSUME NEW g \in Flies, g # f, Standing(book, g)
        PROVE  /\ r.center # book[g].center + book[g].cw /\ r.center # book[g].center - book[g].pw
               /\ book[g].center # r.center + r.cw /\ book[g].center # r.center - r.pw
    BY <2>1, <1>9 DEF Standing, LongAt, ShortAt, Active
  <2>. QED  BY <1>8, <1>10, <2>1, NewApart DEF FlyTypes
<1>13. Evenly(book')
  BY <1>9, <1>11 DEF Evenly, FlyTypes
<1>14. Numbered(book')
  <2>1. \A g \in Flies : book'[g].st # "none" <=> g <= f
    BY <1>2, <1>3, <1>6, <1>9, <1>11 DEF Flies
  <2>2. f \in 0..MaxFlies
    BY <1>3
  <2>. QED  BY ONLY <2>1, <2>2 DEF Numbered
<1>15. /\ held' \in [Flies -> Nat] /\ held'[f] = IF st = "OPEN" THEN 1 ELSE 0
       /\ \A g \in Flies : g # f => held'[g] = held[g]
  BY <1>4, <1>6 DEF FlyTypes
<1>16. sweep' \in [pc : SweepPcs, fly : Flies \union {NoFly}, attempt : Nat]
  BY <1>6 DEF SweepPcs
<1>. USE <1>3, <1>4, <1>5, <1>6, <1>9, <1>11, <1>15, <1>16
<1>17. FlyTypes'
  BY <1>13 DEF FlyTypes
<1>18. (NoneClash(book))' /\ (NoneClash(disk))'
  BY <1>12
<1>19. InOrder'
  <2>1. \A g \in Flies : book'[g].st = "none" => g # f /\ book[g].st = "none"
    OBVIOUS
  <2>. QED  BY <1>14, <2>1 DEF InOrder
<1>20. OpeningOne'
  <2>1. /\ sweep'.pc = IF st = "OPENING" THEN "send" ELSE "save"
        /\ st = "OPENING" => sweep'.fly = f /\ sweep'.attempt = 0
    OBVIOUS
  <2>2. MaxAttempts \in Nat \ {0}
    BY IronFlyAssumption
  <2>3. \A g \in Flies : book'[g].st = "OPENING" => g = f /\ st = "OPENING"
    OBVIOUS
  <2>4. \A g \in Flies : disk[g].st # "OPENING" /\ entry[g] \notin {"working", "canceling"}
    BY DEF OpeningOne
  <2>. QED  BY <2>1, <2>2, <2>3, <2>4 DEF OpeningOne, Opens, Paper
<1>21. ClosingOne'
  BY DEF ClosingOne
<1>22. Counted'
  <2>1. MaxAttempts \in Nat /\ MaxAttempts >= 1
    BY IronFlyAssumption
  <2>2. (OnOrder(f))' = IF st = "OPEN" THEN 1 ELSE 0
    BY DEF OnOrder
  <2>3. \A g \in Flies : g # f => (OnOrder(g))' = OnOrder(g)
    BY DEF OnOrder
  <2>4. \A g \in Flies : (OnOrder(g))' <= MaxAttempts /\ (exit'[g] = "working" => held'[g] > 0)
    BY <2>1, <2>2, <2>3 DEF Counted
  <2>5. sweep'.pc \in Opens => (OnOrder(sweep.fly))' = 0 /\ sweep'.pc = "send" /\ sweep'.attempt = 0
    BY <2>2 DEF Opens, OnOrder
  <2>. QED  BY <2>4, <2>5 DEF Counted, Opens
<1>23. Exact'
  <2>1. (InSight)' <=> InSight
    BY DEF InSight, Paper
  <2>2. InSight => \A g \in Flies : held'[g] = (IF Owns(g) THEN 1 ELSE 0)' /\ stray'[g] = 0
    BY DEF Exact, Owns
  <2>3. "crash" \notin budget.of =>
          /\ \A g \in Flies : exit'[g] # "none" => book'[g].st \in {"CLOSING", "EXPIRED", "CLOSED"}
          /\ cutter'.pc = "place" => exit'[cutter'.fly] = "none"
    BY DEF Exact
  <2>. QED  BY <2>1, <2>2, <2>3 DEF Exact
<1>. QED  BY <1>17, <1>18, <1>19, <1>20, <1>21, <1>22, <1>23

\* The day's first fly keeps the invariant.
LEMMA SweepFirstKeeps ==
  ASSUME FliesInv, SweepFirst
  PROVE  FliesInv'
<1>1. Active = {}
  BY DEF SweepFirst, MayAdd, May, FliesInv, OpeningOne, Opens, Open, Active
<1>2. spot \in Int /\ FirstWidth \in Nat \ {0}
  BY IronFlyAssumption DEF FliesInv, FlyTypes
<1>3. Atm(spot) \in Int /\ Atm(spot) % 2 = 0
  BY <1>2, AtmEven
<1>4. \A k \in Int : ~LongAt(k) /\ ~ShortAt(k)
  BY <1>1 DEF LongAt, ShortAt
<1>5. DEFINE w == <<FirstWidth, FirstWidth>>
<1>6. w \in (Nat \ {0}) \X (Nat \ {0}) /\ w[1] \in Int /\ w[2] \in Int
  BY <1>2
<1>7. May /\ Submitted(Atm(spot), w) /\ UNCHANGED <<disk, budget, entry, stray, exit, cutter, spot>>
  BY DEF SweepFirst, MayAdd
<1>8. ~LongAt(Atm(spot)) /\ ~ShortAt(Atm(spot) + w[1]) /\ ~ShortAt(Atm(spot) - w[2])
  BY <1>3, <1>4, <1>6
<1>. HIDE DEF w
<1>. QED  BY <1>3, <1>6, <1>7, <1>8, SubmittedKeeps

\* A fly added keeps the invariant: neither its center nor its wings offset another's.
LEMMA SweepAddKeeps ==
  ASSUME FliesInv, SweepAdd
  PROVE  FliesInv'
<1>1. PICK f \in Open, tight \in BOOLEAN :
        LET c == Candidate(f, Trigger(f, tight).offset) IN
          FreeCenter(c) /\ \E w \in Wings(c) : Submitted(c, w)
  BY DEF SweepAdd
<1>2. PICK c \in Int : c = Candidate(f, Trigger(f, tight).offset) /\ c % 2 = 0
  BY CandidateEven DEF Open
<1>3. PICK w \in Wings(c) : Submitted(c, w)
  BY <1>1, <1>2
<1>4. w \in (Nat \ {0}) \X (Nat \ {0}) /\ ~ShortAt(c + w[1]) /\ ~ShortAt(c - w[2])
  BY <1>3, IronFlyAssumption DEF Wings
<1>5. ~LongAt(c)
  BY <1>1, <1>2 DEF FreeCenter
<1>6. May /\ UNCHANGED <<disk, budget, entry, stray, exit, cutter, spot>>
  BY DEF SweepAdd, MayAdd
<1>. QED  BY <1>2, <1>3, <1>4, <1>5, <1>6, SubmittedKeeps

\* The invariant holds at the start.
LEMMA FliesStart ==
  ASSUME Init
  PROVE  FliesInv
<1>. USE DEF Init
<1>1. Blank \in FlyRecords /\ Blank.center % 2 = 0 /\ Blank.credit = 0 /\ Blank.st = "none"
  BY DEF Blank, FlyRecords, States
<1>2. /\ book \in Books /\ disk = book
      /\ \A f \in Flies : book[f] = Blank
  BY <1>1 DEF Books
<1>3. budget \in [of : Scenarios, left : Nat] /\ spot \in Int
  BY IronFlyAssumption
<1>4. /\ sweep \in [pc : SweepPcs, fly : Flies \union {NoFly}, attempt : Nat] /\ sweep.pc = "idle"
      /\ cutter \in [pc : CutterPcs, fly : Flies \union {NoFly}, todo : SUBSET Flies] /\ cutter.pc = "idle"
  BY DEF Idle, Looking, SweepPcs, CutterPcs
<1>5. /\ held \in [Flies -> Nat] /\ stray \in [Flies -> Nat]
      /\ entry \in [Flies -> Orders] /\ exit \in [Flies -> {"none", "working", "filled", "cancelled"}]
      /\ \A f \in Flies : held[f] = 0 /\ stray[f] = 0 /\ entry[f] = "none" /\ exit[f] = "none"
  BY DEF Orders
<1>6. FlyTypes
  BY <1>1, <1>2, <1>3, <1>4, <1>5 DEF FlyTypes, Evenly
<1>7. NoneClash(book) /\ NoneClash(disk)
  BY <1>1, <1>2 DEF NoneClash, Standing
<1>8. InOrder
  <2>1. 0 \in 0..MaxFlies
    BY IronFlyAssumption
  <2>2. \A f \in Flies : ~(f <= 0)
    BY IronFlyAssumption DEF Flies
  <2>3. \E n \in 0..MaxFlies : \A f \in Flies : book[f].st # "none" <=> f <= n
    BY <1>1, <1>2, <2>1, <2>2
  <2>. QED  BY <1>2, <1>5, <2>3 DEF InOrder, Numbered
<1>9. OpeningOne /\ ClosingOne
  BY <1>1, <1>2, <1>4, <1>5 DEF OpeningOne, ClosingOne, Opens, Closes
<1>10. Counted
  BY <1>4, <1>5, IronFlyAssumption DEF Counted, OnOrder
<1>11. Exact
  BY <1>1, <1>2, <1>4, <1>5 DEF Exact, Owns
<1>. QED  BY <1>6, <1>7, <1>8, <1>9, <1>10, <1>11 DEF FliesInv

\* Every step keeps it.
LEMMA FliesStep ==
  ASSUME FliesInv, PaperStays, [Next]_vars
  PROVE  FliesInv'
<1>1. CASE UNCHANGED vars
  BY <1>1, AccountSame DEF vars, FliesInv, FlyTypes, OpeningOne, ClosingOne, Paper
<1>2. CASE Sweep
  BY <1>2, SweepBreakerKeeps, SweepCutKeeps, SweepNothingKeeps, SweepFirstKeeps, SweepAddKeeps,
     OpenSendKeeps, OpenGivesUpKeeps, OpenPollKeeps, OpenAfterCancelKeeps, SaveKeeps, SettleKeeps,
     SettleBlindKeeps DEF Sweep
<1>3. CASE Cutter
  BY <1>3, LookKeeps, CutKeeps, LooksAgainKeeps, PaperCloseKeeps, ClosePlaceKeeps, ClosePollKeeps,
     CloseReplaceKeeps, RecordedKeeps DEF Cutter
<1>4. CASE Outside
  BY <1>4, EntryFillKeeps, StrayFillKeeps, EntryCancelledKeeps, EntryRejectedKeeps, ExitFillKeeps,
     MoveKeeps, BellKeeps, GateKeeps, ErrorKeeps, RestartKeeps DEF Outside
<1>. QED  BY <1>1, <1>2, <1>3, <1>4 DEF Next

\* What the book, the saved book, the orders and both threads agree on holds
\* in every state the strategy reaches.
THEOREM FliesInvariant ==
  ASSUME \A sc \in Scenarios : ~({"paper", "crash"} \subseteq sc)
  PROVE  Spec => []FliesInv
<1>1. Init => FliesInv
  BY FliesStart
<1>2. FliesInv /\ [Next]_vars => FliesInv'
  BY FliesStep DEF PaperStays
<1>. QED  BY <1>1, <1>2, PTL DEF Spec

\* It contains what the strategy promises.
LEMMA FliesPromise ==
  ASSUME FliesInv
  PROVE  FliesSound
<1>. USE DEF FliesInv
<1>1. TypeOK
  <2>1. \A b \in {book, disk}, f \in Flies :
          /\ b[f].st \in Final \union {"none", "PENDING_APPROVAL", "OPENING", "OPEN", "CLOSING"}
          /\ b[f].center % 2 = 0 /\ b[f].credit \in Credits \union {0}
    BY DEF FlyTypes, Books, FlyRecords, States, Evenly
  <2>2. ASSUME NEW f \in Flies
        PROVE  held[f] \in 0..MaxAttempts /\ stray[f] \in 0..MaxAttempts
    <3>1. MaxAttempts \in Nat /\ held[f] \in Nat /\ stray[f] \in Nat /\ OnOrder(f) <= MaxAttempts
      BY IronFlyAssumption DEF FlyTypes, Counted
    <3>. QED  BY <3>1 DEF OnOrder
  <2>3. /\ sweep.pc \in {"idle", "send", "poll", "after", "save", "cutting", "stopped"}
        /\ sweep.fly \in Flies \union {NoFly} /\ cutter.fly \in Flies \union {NoFly}
    BY DEF FlyTypes, SweepPcs
  <2>4. lock = "sweep" <=> sweep.pc \in {"send", "poll", "after", "cutting"}
    BY DEF OpeningOne, Opens
  <2>. QED  BY <2>1, <2>2, <2>3, <2>4 DEF TypeOK
<1>2. NoClash
  BY DEF NoClash, LongAt, Active, NoneClash, Standing, Apart
<1>3. BookIsTrue
  <2>1. SUFFICES ASSUME budget.of \cap {"slow", "query", "crash", "error"} = {}, NEW f \in Flies
                 PROVE  held[f] = CASE book[f].st = "OPEN" -> 1
                                    [] book[f].st = "CLOSING" /\ exit[f] # "filled" -> 1
                                    [] book[f].st = "OPENING" /\ entry[f] = "filled" -> 1
                                    [] book[f].st = "EXPIRED" -> held[f]
                                    [] OTHER -> 0
    BY DEF BookIsTrue
  <2>2. held[f] = IF Owns(f) THEN 1 ELSE 0
    BY <2>1 DEF Exact, InSight
  <2>. QED  BY <2>2 DEF Owns
<1>. QED  BY <1>1, <1>2, <1>3 DEF FliesSound

\* At every moment no strike is both short and long over the flies that count,
\* and the book says what the account holds: for any number of flies, prices,
\* widths and attempts of a strategy that is not restarted on paper.
THEOREM FliesAreSound ==
  ASSUME \A sc \in Scenarios : ~({"paper", "crash"} \subseteq sc)
  PROVE  Spec => []FliesSound
<1>1. FliesInv => FliesSound
  BY FliesPromise
<1>. QED  BY <1>1, FliesInvariant, PTL

\* Without a restart no step revives a fly that has ended.
LEMMA FinalStays ==
  ASSUME FliesInv, [Next]_vars, "crash" \notin budget.of,
         NEW f \in Flies, book[f].st \in Final
  PROVE  book'[f].st \in Final
<1>. USE DEF FliesInv
<1>1. book[f].st \in {"CLOSED", "EXPIRED", "FAILED"} /\ book \in Books
  BY DEF Final, FlyTypes
<1>2. CASE UNCHANGED book
  BY <1>1, <1>2 DEF Final
<1>3. ASSUME NEW c, NEW w, Submitted(c, w)
      PROVE  book'[f].st \in Final
  <2>1. Cardinality(Used) + 1 \in Flies
    BY <1>3 DEF Submitted
  <2>2. f # Cardinality(Used) + 1
    <3>1. PICK n \in Flies : n = Cardinality(Used) + 1
      BY <2>1
    <3>2. f < n
      BY <1>1, <2>1, <3>1, NextNumber
    <3>. QED  BY <3>1, <3>2 DEF Flies
  <2>3. book'[f] = book[f]
    BY <1>1, <1>3, <2>2 DEF Submitted, Books
  <2>. QED  BY <1>1, <2>3 DEF Final
<1>4. ASSUME NEW st, NEW credit, Ends(sweep.fly, st, credit), sweep.pc \in Opens
      PROVE  book'[f].st \in Final
  <2>1. f # sweep.fly
    BY <1>1, <1>4 DEF OpeningOne
  <2>2. book'[f] = book[f]
    BY <1>1, <1>4, <2>1 DEF Ends, Books
  <2>. QED  BY <1>1, <2>2 DEF Final
<1>5. CASE SweepFirst \/ SweepAdd
  BY <1>3, <1>5 DEF SweepFirst, SweepAdd
<1>6. CASE OpenGivesUp \/ OpenPoll \/ OpenAfterCancel
  BY <1>2, <1>4, <1>6 DEF OpenGivesUp, OpenPoll, OpenAfterCancel, Sending, Opens, Again
<1>7. CASE Settle
  BY <1>1, <1>7 DEF Settle, Open, Final
<1>8. CASE Cut
  <2>1. PICK g \in Flies : \/ UNCHANGED book
                           \/ book[g].st = "OPEN" /\ book' = [book EXCEPT ![g].st = "CLOSING"]
    BY <1>8 DEF Cut, FlyTypes
  <2>. QED  BY <1>1, <1>2, <2>1 DEF Books, Final
<1>9. CASE Recorded
  <2>1. book' = [book EXCEPT ![cutter.fly].st = "CLOSED"]
    BY <1>9 DEF Recorded
  <2>2. book'[f].st = book[f].st \/ book'[f].st = "CLOSED"
    BY <1>1, <2>1 DEF Books, FlyRecords
  <2>. QED  BY <1>1, <2>2 DEF Final
<1>10. ~Restart
  BY DEF Restart, Fault
<1>11. \/ UNCHANGED book \/ SweepFirst \/ SweepAdd \/ OpenGivesUp \/ OpenPoll \/ OpenAfterCancel
       \/ Settle \/ Cut \/ Recorded
  <2>1. CASE UNCHANGED vars
    BY <2>1 DEF vars
  <2>2. CASE Sweep
    BY <2>2 DEF Sweep, SweepBreaker, SweepCut, SweepNothing, CutsInside, OpenSend, Save, SettleBlind
  <2>3. CASE Cutter
    BY <2>3 DEF Cutter, Look, LooksAgain, PaperClose, ClosePlace, ClosePoll, CloseReplace
  <2>4. CASE Outside
    BY <1>10, <2>4 DEF Outside, EntryFill, StrayFill, EntryCancelled, EntryRejected, ExitFill, Move,
       Bell, Gate, Error, OfMarket
  <2>. QED  BY <2>1, <2>2, <2>3, <2>4 DEF Next
<1>. QED  BY <1>2, <1>5, <1>6, <1>7, <1>8, <1>9, <1>11

\* A fly that has ended stays ended, although the spot thread decides by a list
\* of flies that it read without the lock.
THEOREM EndsForGood ==
  ASSUME \A sc \in Scenarios : ~({"paper", "crash"} \subseteq sc)
  PROVE  Spec => ClosedForGood
<1>1. FliesInv /\ [Next]_vars =>
        [ "crash" \notin budget.of =>
            \A f \in Flies : book[f].st \in Final => book'[f].st \in Final ]_vars
  BY FinalStays
<1>. QED  BY <1>1, FliesInvariant, PTL DEF Spec, ClosedForGood

(* --- DrmaHm: the invariant of the sleeves -------------------------------- *)
Sides == Biases \cup {"NEUTRAL"}
FileStates == {"none", "open", "closing", "closed"}
TradeFiles == [st : FileStates, sleeve : Sleeves, side : Sides, paper : BOOLEAN, late : BOOLEAN,
               day : {0, 1}, oid : BOOLEAN]
OrderStates == {"none", "working", "canceling", "cancelled", "filled", "expired"}
ChasePcs == {"send", "poll", "recheck", "final"}
PassPcs == {"work"} \cup ChasePcs
EntryPcs == {"place", "record"}
Passes == {"none", "resume", "halt", "pre", "prep", "warmup", "manage", "night", "eod"}
Threads == [pc : {"off", "top"} \cup PassPcs \cup EntryPcs, pass : Passes, day : {0, 1},
            todo : SUBSET Trades, seen : SUBSET Sleeves, cur : 0..MaxTrades, n : 0..Rounds + 1,
            plan : SUBSET Sleeves, bias : Sides]

StrategyTypes ==
  /\ file \in [Trades -> TradeFiles] /\ pos \in [Sleeves -> Sides \cup {"flat"}]
  /\ sim \in [Sleeves -> BOOLEAN] /\ conf \in [Sleeves -> BOOLEAN]
  /\ count \in [Sleeves -> Nat] /\ hour \in 1..7 /\ s \in Threads
AccountTypes ==
  /\ wish \in [Sleeves -> BOOLEAN] /\ drmascene \in [of : DrmaScenarios, left : Nat]
  /\ opening \in [Trades -> OrderStates] /\ oco \in [Trades -> OrderStates]
  /\ close \in [Trades -> OrderStates] /\ owned \in [Trades -> {0, 1}]

\* Where the thread is: no trade of its own outside a chase and a record, a live
\* one in a chase.
OwnTrade ==
  /\ s.pc \in {"off", "top", "work", "place"} => s.cur = 0
  /\ s.pc \in {"off", "top"} => s.pass = "none"
  /\ s.pc \in ChasePcs => s.cur \in Live /\ s.cur \notin s.todo
  /\ s.pc \in {"poll", "recheck"} => s.n \in 1..Rounds
  /\ s.pc \notin PassPcs => s.todo = {}
  /\ s.todo \subseteq Live

\* A running thread knows its live trades, but for those it has still to resume;
\* a condor may be resumed as a bear.
Remembers(f) ==
  /\ sim[f.sleeve] = f.paper
  /\ pos[f.sleeve] = f.side \/ (f.side = "NEUTRAL" /\ pos[f.sleeve] = "BEAR")
Known ==
  /\ s.pc # "off" => \A t \in Live : (s.pass = "resume" /\ t \in s.todo) \/ Remembers(file[t])
  /\ s.pc \in PassPcs => \A t \in Live : t \in s.todo \/ file[t].sleeve \in s.seen

\* What is live never gets in another's way.
Beside(f, x, side, paper) ==
  /\ f.sleeve # x
  /\ ~(x = "dir" /\ f.sleeve = "credit" /\ f.side = side /\ f.paper = paper)
  /\ ~(x = "credit" /\ f.sleeve = "dir" /\ f.side = side /\ f.paper = paper)
SideBySide == \A t, u \in Live : t # u => Beside(file[t], file[u].sleeve, file[u].side, file[u].paper)
Directed == \A t \in Live : file[t].sleeve = "dir" => file[t].side \in Biases

\* What is planned may be entered, for as long as it is planned.
On(x, d) == {t \in Trades : file[t].st # "none" /\ file[t].sleeve = x /\ file[t].day = d}
Of(x) == {t \in Trades : file[t].st # "none" /\ file[t].sleeve = x}
Plannable ==
  s.pc \in EntryPcs =>
    /\ s.plan # {} /\ ~({"dir", "credit"} \subseteq s.plan)
    /\ "dir" \in s.plan => s.bias \in Biases
    /\ \A x \in s.plan : /\ \A t \in Live : Beside(file[t], x, s.bias, conf[x])
                         /\ Cardinality(On(x, Day(hour))) < Limit

\* Trades are used in the order of their numbers, and there is one for every
\* planned sleeve.
InTurn == \E m \in 0..MaxTrades : \A t \in Trades : t \in UsedTrades <=> t <= m
Room ==
  /\ s.pc = "place" \/ (s.pc = "record" /\ s.cur = 0) => Cardinality(UsedTrades) + Cardinality(s.plan) <= MaxTrades
  /\ s.pc = "record" /\ s.cur # 0 =>
       /\ s.cur \in UsedTrades /\ file[s.cur].st = "none" /\ ~conf[Turn]
       /\ Cardinality(UsedTrades) + Cardinality(s.plan) <= MaxTrades + 1

\* The counters are those of the day the thread is on; when the day has turned
\* since, nothing was entered on the new one before the entries of this pass.
Dated ==
  /\ s.day <= Day(hour) /\ (s.pass = "warmup" => s.day = 1)
  /\ \A t \in Trades : file[t].st # "none" => file[t].day <= Day(hour)
  /\ \A x \in Sleeves : count[x] <= Cardinality(Of(x))
  /\ \A x \in Sleeves, d \in {0, 1} : Cardinality(On(x, d)) <= Limit
  /\ s.pc # "off" /\ s.day = Day(hour) => \A x \in Sleeves : count[x] = Cardinality(On(x, s.day))
  /\ s.pc \in PassPcs /\ s.day # Day(hour) => \A x \in Sleeves : On(x, Day(hour)) = {}

\* What is on paper has no orders.  Without opening orders that linger, an order
\* that may close a spread finds it in the account, there is one such order at a
\* time, and a spread whose file is closed is gone.
Resting(order) == order \in {"working", "canceling"}
Backed(f, buy, stop, sell, n) ==
  /\ buy = "none" => n = 0
  /\ f.st = "none" => stop = "none" /\ sell = "none"
  /\ f.st # "none" /\ f.paper => buy = "none"
Covered(f, buy, stop, sell, n) ==
  /\ buy # "working"
  /\ f.sleeve # "fut" =>
       /\ Resting(stop) => n = 1 /\ ~Resting(sell)
       /\ Resting(sell) => n = 1
       /\ stop = "filled" \/ sell = "filled" => n = 0
       /\ f.st = "closed" => n = 0
AccountAgrees(t) ==
  /\ Backed(file[t], opening[t], oco[t], close[t], owned[t])
  /\ "slow" \notin drmascene.of => Covered(file[t], opening[t], oco[t], close[t], owned[t])

Strategy == /\ StrategyTypes /\ OwnTrade /\ Known /\ SideBySide /\ Directed /\ Plannable
            /\ InTurn /\ Room /\ Dated
Account == AccountTypes /\ \A t \in Trades : AccountAgrees(t)
DrmaInv == Strategy /\ Account
\* The constants, and what is derived from the clock.
LEMMA DrmaConstants ==
  /\ MaxTrades \in Nat \ {0} /\ Rounds \in Nat \ {0} /\ DrmaFaults \in Nat
  /\ Trades \subseteq Nat \ {0} /\ IsFiniteSet(Trades) /\ Cardinality(Trades) = MaxTrades
<1>1. MaxTrades \in Nat \ {0} /\ Rounds \in Nat \ {0} /\ DrmaFaults \in Nat
  BY DrmaAssumption
<1>2. IsFiniteSet(1..MaxTrades) /\ Cardinality(1..MaxTrades) = MaxTrades
  BY <1>1, FS_Interval
<1> QED
  BY <1>1, <1>2 DEF Trades

\* The clock's phases, and the pass of each.
LEMMA NowFacts ==
  ASSUME NEW h \in 1..7
  PROVE  Phase[h] \in {"night", "pre", "prep", "regular", "eod", "halt"} /\ Day(h) \in {0, 1}
<1>1. h = 1 \/ h = 2 \/ h = 3 \/ h = 4 \/ h = 5 \/ h = 6 \/ h = 7
  OBVIOUS
<1>2. Phase[h] \in {"night", "pre", "prep", "regular", "eod", "halt"}
  BY <1>1 DEF Phase
<1> QED
  BY <1>2 DEF Day

\* The limit of a day is within the trades there are.
LEMMA LimitFacts == Limit \in 1..MaxTrades
BY DrmaConstants DEF Limit

\* The sets that are counted are finite.
LEMMA CountFacts ==
  /\ UsedTrades \subseteq Trades /\ IsFiniteSet(UsedTrades) /\ Cardinality(UsedTrades) \in 0..MaxTrades
  /\ \A x \in Sleeves : Of(x) \subseteq UsedTrades /\ IsFiniteSet(Of(x)) /\ Cardinality(Of(x)) \in 0..MaxTrades
  /\ \A x \in Sleeves, d \in {0, 1} : On(x, d) \subseteq Of(x) /\ IsFiniteSet(On(x, d)) /\ Cardinality(On(x, d)) \in 0..MaxTrades
<1>1. ASSUME NEW S \in SUBSET Trades PROVE IsFiniteSet(S) /\ Cardinality(S) \in 0..MaxTrades
  <2>1. IsFiniteSet(S) /\ Cardinality(S) <= Cardinality(Trades)
    BY DrmaConstants, FS_Subset
  <2>2. Cardinality(S) \in Nat
    BY <2>1, FS_CardinalityType
  <2> QED
    BY <2>1, <2>2, DrmaConstants
<1>2. UsedTrades \subseteq Trades /\ \A x \in Sleeves : Of(x) \subseteq UsedTrades
  BY DEF UsedTrades, Of
<1>3. \A x \in Sleeves, d \in {0, 1} : On(x, d) \subseteq Of(x) /\ On(x, d) \subseteq Trades
  BY DEF On, Of
<1> QED
  BY <1>1, <1>2, <1>3, Zenon

\* The number of the next trade, where there is room for one.
LEMMA NextFacts ==
  ASSUME InTurn, Cardinality(UsedTrades) < MaxTrades
  PROVE  /\ Next1 \in Trades /\ Next1 \notin UsedTrades
         /\ \A t \in Trades : t \in UsedTrades \cup {Next1} <=> t <= Cardinality(UsedTrades) + 1
<1>1. PICK m \in 0..MaxTrades : \A t \in Trades : t \in UsedTrades <=> t <= m
  BY DEF InTurn
<1>2. UsedTrades = 1..m
  BY <1>1, DrmaConstants DEF UsedTrades, Trades
<1>3. Cardinality(UsedTrades) = m
  <2>1. m >= 1 => Cardinality(1..m) = m
    BY FS_Interval, DrmaConstants
  <2>2. m = 0 => 1..m = {}
    OBVIOUS
  <2> QED
    BY <1>1, <1>2, <2>1, <2>2, FS_EmptySet, DrmaConstants
<1> QED
  BY <1>1, <1>2, <1>3, DrmaConstants DEF Next1, Trades

\* What is counted does not change with what a file says otherwise.
LEMMA CountsSame ==
  ASSUME \A t \in Trades : /\ file'[t].st # "none" <=> file[t].st # "none"
                           /\ file[t].st # "none" => file'[t].sleeve = file[t].sleeve /\ file'[t].day = file[t].day,
         \A t \in Trades : opening'[t] # "none" <=> opening[t] # "none"
  PROVE  /\ UsedTrades' = UsedTrades
         /\ \A x \in Sleeves : Of(x)' = Of(x)
         /\ \A x \in Sleeves, d \in {0, 1} : On(x, d)' = On(x, d)
BY DEF UsedTrades, Of, On

\* A pass that is done with a trade: the thread's record.
LEMMA DoneFacts ==
  ASSUME StrategyTypes, NEW t \in Trades
  PROVE  /\ Done(t) \in Threads
         /\ Done(t).pc = "work" /\ Done(t).pass = s.pass /\ Done(t).day = s.day /\ Done(t).cur = 0 /\ Done(t).n = 0
         /\ Done(t).todo = s.todo \ {t} /\ Done(t).plan = s.plan /\ Done(t).bias = s.bias
         /\ Done(t).seen = Seen(t)
<1>1. Seen(t) \in SUBSET Sleeves /\ s \in Threads
  BY DEF Seen, StrategyTypes, Threads, TradeFiles
<1>2. 0 \in 0..MaxTrades /\ 0 \in 0..Rounds + 1
  BY DrmaConstants
<1> QED
  BY <1>1, <1>2 DEF Done, Threads, PassPcs

\* A pass that goes into a chase: the thread's record.
LEMMA ForthFacts ==
  ASSUME StrategyTypes, NEW t \in Trades, NEW pc \in ChasePcs, NEW n \in 0..Rounds + 1
  PROVE  /\ Forth(t, pc, n) \in Threads
         /\ Forth(t, pc, n).pc = pc /\ Forth(t, pc, n).pass = s.pass /\ Forth(t, pc, n).day = s.day
         /\ Forth(t, pc, n).cur = t /\ Forth(t, pc, n).n = n
         /\ Forth(t, pc, n).todo = s.todo \ {t} /\ Forth(t, pc, n).plan = s.plan /\ Forth(t, pc, n).bias = s.bias
         /\ Forth(t, pc, n).seen = Seen(t)
<1>1. Seen(t) \in SUBSET Sleeves /\ s \in Threads
  BY DEF Seen, StrategyTypes, Threads, TradeFiles
<1>2. t \in 0..MaxTrades
  BY DrmaConstants DEF Trades
<1> QED
  BY <1>1, <1>2 DEF Forth, Threads, PassPcs

\* The thread at rest.
LEMMA OffFacts ==
  ASSUME NEW pc \in {"off", "top"}, NEW d \in {0, 1}
  PROVE  LET r == [Off EXCEPT !.pc = pc, !.day = d] IN
         /\ r \in Threads /\ r.pc = pc /\ r.pass = "none" /\ r.day = d /\ r.todo = {} /\ r.seen = {} /\ r.cur = 0
<1>1. 0 \in 0..MaxTrades /\ 0 \in 0..Rounds + 1
  BY DrmaConstants
<1> QED
  BY <1>1 DEF Off, Threads, Passes, Sides, Biases
\* What follows from files that stay as they are.
LEMMA FilesSame ==
  ASSUME DrmaInv, UNCHANGED <<file, opening>>, drmascene'.of = drmascene.of
  PROVE  /\ Live' = Live /\ SideBySide' /\ Directed' /\ InTurn' /\ UsedTrades' = UsedTrades /\ Limit' = Limit
         /\ \A x \in Sleeves : Of(x)' = Of(x)
         /\ \A x \in Sleeves, d \in {0, 1} : On(x, d)' = On(x, d)
<1>1. Live' = Live /\ UsedTrades' = UsedTrades
  BY DEF Live, UsedTrades
<1>2. Limit' = Limit
  BY DEF Limit
<1>3. SideBySide' /\ Directed'
  BY <1>1 DEF DrmaInv, Strategy, SideBySide, Directed, Beside
<1>4. InTurn'
  BY <1>1 DEF DrmaInv, Strategy, InTurn
<1>5. /\ \A x \in Sleeves : Of(x)' = Of(x)
      /\ \A x \in Sleeves, d \in {0, 1} : On(x, d)' = On(x, d)
  BY CountsSame
<1> QED
  BY <1>1, <1>2, <1>3, <1>4, <1>5

\* A step of a pass that moves one trade on, and remembers it.
LEMMA ResumedKeeps ==
  ASSUME DrmaInv, NEW t \in Live, s.pc = "work", t \in s.todo,
         Resumed(t) \/ (UNCHANGED <<pos, sim>> /\ s.pass # "resume"),
         s' = Done(t) \/ s' = Forth(t, "send", 0) \/ s' = Forth(t, "poll", 1),
         UNCHANGED <<file, count, conf, hour, opening>>, drmascene'.of = drmascene.of
  PROVE  Strategy'
<1>. USE DEF DrmaInv, Strategy
<1>1. /\ Live' = Live /\ SideBySide' /\ Directed' /\ InTurn' /\ UsedTrades' = UsedTrades /\ Limit' = Limit
      /\ \A x \in Sleeves : Of(x)' = Of(x)
      /\ \A x \in Sleeves, d \in {0, 1} : On(x, d)' = On(x, d)
  BY FilesSame
<1>2. t \in Trades /\ file[t] \in TradeFiles /\ file[t].st \in {"open", "closing"} /\ file[t].sleeve \in Sleeves
      /\ file[t].side \in Sides /\ file[t].paper \in BOOLEAN
  BY DEF Live, StrategyTypes, TradeFiles
<1>3. /\ s' \in Threads /\ s'.pass = s.pass /\ s'.day = s.day /\ s'.todo = s.todo \ {t}
      /\ s'.seen = s.seen \cup {file[t].sleeve}
      /\ \/ s'.pc = "work" /\ s'.cur = 0
         \/ s'.pc = "send" /\ s'.cur = t
         \/ s'.pc = "poll" /\ s'.cur = t /\ s'.n = 1
  <2>1. Seen(t) = s.seen \cup {file[t].sleeve}
    BY <1>2 DEF Seen
  <2>2. "send" \in ChasePcs /\ "poll" \in ChasePcs /\ 0 \in 0..Rounds + 1 /\ 1 \in 0..Rounds + 1
    BY DrmaConstants DEF ChasePcs
  <2>3. CASE s' = Done(t)
    BY <1>2, <2>1, <2>3, DoneFacts
  <2>4. CASE s' = Forth(t, "send", 0)
    BY <1>2, <2>1, <2>2, <2>4, ForthFacts
  <2>5. CASE s' = Forth(t, "poll", 1)
    BY <1>2, <2>1, <2>2, <2>5, ForthFacts
  <2> QED
    BY <2>3, <2>4, <2>5
<1>4. /\ pos' \in [Sleeves -> Sides \cup {"flat"}] /\ sim' \in [Sleeves -> BOOLEAN]
      /\ \A x \in Sleeves : x # file[t].sleeve => pos'[x] = pos[x] /\ sim'[x] = sim[x]
      /\ Remembers(file[t])'
  <2>1. CASE s.pass = "resume"
    <3>1. /\ pos' = [pos EXCEPT ![file[t].sleeve] = IF file[t].side = "BULL" THEN "BULL" ELSE "BEAR"]
          /\ sim' = [sim EXCEPT ![file[t].sleeve] = file[t].paper]
      BY <1>2, <2>1 DEF Resumed, Regains
    <3>2. /\ pos' \in [Sleeves -> Sides \cup {"flat"}] /\ sim' \in [Sleeves -> BOOLEAN]
          /\ \A x \in Sleeves : x # file[t].sleeve => pos'[x] = pos[x] /\ sim'[x] = sim[x]
          /\ pos'[file[t].sleeve] = (IF file[t].side = "BULL" THEN "BULL" ELSE "BEAR")
          /\ sim'[file[t].sleeve] = file[t].paper
      BY <1>2, <3>1 DEF StrategyTypes, Sides, Biases
    <3> QED
      BY <1>2, <3>2 DEF Remembers, Sides, Biases
  <2>2. CASE s.pass # "resume"
    <3>1. pos' = pos /\ (sim' = sim \/ sim' = [sim EXCEPT ![file[t].sleeve] = file[t].paper])
      BY <2>2 DEF Resumed
    <3>2. Remembers(file[t])
      BY <2>2, <1>2 DEF Known
    <3>3. sim' = sim
      BY <1>2, <3>1, <3>2 DEF Remembers, StrategyTypes
    <3> QED
      BY <3>1, <3>2, <3>3 DEF Remembers, StrategyTypes
  <2> QED
    BY <2>1, <2>2
<1>5. StrategyTypes'
  BY <1>3, <1>4 DEF StrategyTypes
<1>6. OwnTrade'
  BY <1>1, <1>2, <1>3, DrmaConstants DEF OwnTrade, ChasePcs, PassPcs
<1>7. Known'
  <2>1. ASSUME NEW u \in Live, u # t, Remembers(file[u]) PROVE Remembers(file[u])'
    <3>1. file[u].sleeve # file[t].sleeve /\ file[u].sleeve \in Sleeves
      BY <2>1 DEF SideBySide, Beside, Live, StrategyTypes, TradeFiles
    <3> QED
      BY <2>1, <3>1, <1>4 DEF Remembers
  <2>2. s.pc # "off"
    OBVIOUS
  <2>3. \A u \in Live : (s'.pass = "resume" /\ u \in s'.todo) \/ Remembers(file[u])'
    BY <1>3, <1>4, <2>1, <2>2 DEF Known
  <2>4. \A u \in Live : u \in s'.todo \/ file[u].sleeve \in s'.seen
    BY <1>3 DEF Known, PassPcs
  <2> QED
    BY <1>1, <2>3, <2>4 DEF Known, Remembers
<1>8. Plannable' /\ Room'
  BY <1>3 DEF Plannable, Room, EntryPcs
<1>9. Dated'
  BY <1>1, <1>3 DEF Dated, PassPcs, ChasePcs, StrategyTypes, Threads, Day
<1> QED
  BY <1>1, <1>5, <1>6, <1>7, <1>8, <1>9

\* A trade that is finished frees its sleeve.
LEMMA FinalizedKeeps ==
  ASSUME DrmaInv, NEW t \in Live, s.pc = "work" \/ (s.pc \in ChasePcs /\ s.cur = t),
         Finalized(t), UNCHANGED <<count, conf, hour, opening>>, drmascene'.of = drmascene.of
  PROVE  Strategy'
<1>. USE DEF DrmaInv, Strategy
<1>1. t \in Trades /\ file[t] \in TradeFiles /\ file[t].st \in {"open", "closing"} /\ file[t].sleeve \in Sleeves
  BY DEF Live, StrategyTypes, TradeFiles
<1>2. /\ file' \in [Trades -> TradeFiles] /\ file'[t].st = "closed"
      /\ \A u \in Trades : u # t => file'[u] = file[u]
      /\ file'[t].sleeve = file[t].sleeve /\ file'[t].day = file[t].day
  BY <1>1 DEF Finalized, StrategyTypes, TradeFiles, FileStates
<1>3. Live' = Live \ {t}
  BY <1>1, <1>2 DEF Live
<1>4. /\ UsedTrades' = UsedTrades
      /\ \A x \in Sleeves : Of(x)' = Of(x)
      /\ \A x \in Sleeves, d \in {0, 1} : On(x, d)' = On(x, d)
  <2>1. /\ \A u \in Trades : /\ file'[u].st # "none" <=> file[u].st # "none"
                             /\ file[u].st # "none" => file'[u].sleeve = file[u].sleeve /\ file'[u].day = file[u].day
        /\ \A u \in Trades : opening'[u] # "none" <=> opening[u] # "none"
    BY <1>1, <1>2
  <2> QED
    BY <2>1, CountsSame
<1>5. Limit' = Limit
  BY DEF Limit
<1>6. /\ s' \in Threads /\ s'.pass = s.pass /\ s'.day = s.day /\ s'.todo = s.todo \ {t}
      /\ s'.seen = s.seen \cup {file[t].sleeve} /\ s'.pc = "work" /\ s'.cur = 0
  BY <1>1, DoneFacts DEF Finalized, Seen
<1>7. /\ pos' \in [Sleeves -> Sides \cup {"flat"}] /\ sim' \in [Sleeves -> BOOLEAN]
      /\ \A x \in Sleeves : x # file[t].sleeve => pos'[x] = pos[x] /\ sim'[x] = sim[x]
  BY <1>1 DEF Finalized, StrategyTypes
<1>8. StrategyTypes'
  BY <1>2, <1>6, <1>7 DEF StrategyTypes
<1>9. OwnTrade'
  BY <1>3, <1>6 DEF OwnTrade, ChasePcs, PassPcs
<1>10. Known'
  <2>1. ASSUME NEW u \in Live, u # t
        PROVE  /\ file'[u] = file[u] /\ (Remembers(file[u]) => Remembers(file[u])')
    <3>1. file[u].sleeve # file[t].sleeve /\ file[u].sleeve \in Sleeves /\ u \in Trades
      BY <2>1 DEF SideBySide, Beside, Live, StrategyTypes, TradeFiles
    <3>2. file'[u] = file[u]
      BY <2>1, <3>1, <1>2
    <3> QED
      BY <2>1, <3>1, <3>2, <1>7 DEF Remembers
  <2>2. s.pc # "off" /\ s.pc \in PassPcs
    BY DEF PassPcs, ChasePcs
  <2>3. \A u \in Live' : (s'.pass = "resume" /\ u \in s'.todo) \/ Remembers(file[u])'
    BY <1>3, <1>6, <2>1, <2>2 DEF Known
  <2>4. \A u \in Live' : u \in s'.todo \/ file'[u].sleeve \in s'.seen
    BY <1>3, <1>6, <2>1, <2>2 DEF Known
  <2> QED
    BY <2>3, <2>4 DEF Known, Remembers
<1>11. SideBySide' /\ Directed'
  BY <1>2, <1>3 DEF SideBySide, Directed, Beside, Live
<1>12. Plannable' /\ Room'
  BY <1>6 DEF Plannable, Room, EntryPcs
<1>13. InTurn'
  BY <1>4 DEF InTurn
<1>14. Dated'
  <2>1. \A u \in Trades : file'[u].st # "none" => file'[u].day <= Day(hour)
    BY <1>1, <1>2 DEF Dated
  <2> QED
    BY <2>1, <1>4, <1>5, <1>6 DEF Dated, PassPcs, ChasePcs, StrategyTypes, Threads, Day
<1> QED
  BY <1>8, <1>9, <1>10, <1>11, <1>12, <1>13, <1>14
\* The chase gives up for now: the trade stays in CLOSING.
LEMMA PendingKeeps ==
  ASSUME DrmaInv, s.pc \in ChasePcs, NEW oid \in BOOLEAN, Pending(s.cur, oid),
         UNCHANGED <<count, conf, hour, opening>>, drmascene'.of = drmascene.of
  PROVE  Strategy'
<1>. USE DEF DrmaInv, Strategy
<1>. DEFINE t == s.cur
<1>1. t \in Live /\ t \notin s.todo /\ t \in Trades /\ file[t] \in TradeFiles /\ file[t].st \in {"open", "closing"}
  BY DEF OwnTrade, Live, StrategyTypes
<1>2. /\ file' \in [Trades -> TradeFiles] /\ file'[t].st = "closing"
      /\ \A u \in Trades : u # t => file'[u] = file[u]
      /\ file'[t].sleeve = file[t].sleeve /\ file'[t].day = file[t].day /\ file'[t].side = file[t].side
      /\ file'[t].paper = file[t].paper
  <2>. DEFINE f == [file[t] EXCEPT !.st = "closing"]
              g == [f EXCEPT !.oid = oid]
  <2>1. f \in TradeFiles /\ f.st = "closing" /\ f.sleeve = file[t].sleeve /\ f.day = file[t].day
        /\ f.side = file[t].side /\ f.paper = file[t].paper
    BY <1>1 DEF TradeFiles, FileStates
  <2>2. g \in TradeFiles /\ g.st = f.st /\ g.sleeve = f.sleeve /\ g.day = f.day /\ g.side = f.side /\ g.paper = f.paper
    <3>. HIDE DEF f
    <3> QED  BY <2>1 DEF TradeFiles
  <2>3. file' = [file EXCEPT ![t] = g]
    BY <1>1 DEF Pending, StrategyTypes
  <2>. HIDE DEF g, f, t
  <2> QED
    BY <1>1, <2>1, <2>2, <2>3 DEF StrategyTypes
<1>3. /\ s' \in Threads /\ s'.pass = s.pass /\ s'.day = s.day /\ s'.todo = s.todo /\ s'.seen = s.seen
      /\ s'.pc = "work" /\ s'.cur = 0
  <2>1. 0 \in 0..MaxTrades /\ 0 \in 0..Rounds + 1 /\ s \in Threads
    BY DrmaConstants DEF StrategyTypes
  <2> QED
    BY <2>1 DEF Pending, Threads, PassPcs
<1>4. pos' = pos /\ sim' = sim
  BY DEF Pending
<1>5. Live' = Live /\ Limit' = Limit
  BY <1>1, <1>2 DEF Live, Limit
<1>6. /\ UsedTrades' = UsedTrades
      /\ \A x \in Sleeves : Of(x)' = Of(x)
      /\ \A x \in Sleeves, d \in {0, 1} : On(x, d)' = On(x, d)
  <2>1. /\ \A u \in Trades : /\ file'[u].st # "none" <=> file[u].st # "none"
                             /\ file[u].st # "none" => file'[u].sleeve = file[u].sleeve /\ file'[u].day = file[u].day
        /\ \A u \in Trades : opening'[u] # "none" <=> opening[u] # "none"
    BY <1>1, <1>2
  <2> QED
    BY <2>1, CountsSame
<1>7. \A u \in Trades : /\ file'[u].sleeve = file[u].sleeve /\ file'[u].day = file[u].day
                        /\ file'[u].side = file[u].side /\ file'[u].paper = file[u].paper
  BY <1>2
<1>. HIDE DEF t
<1>8. StrategyTypes'
  BY <1>2, <1>3, <1>4 DEF StrategyTypes
<1>9. OwnTrade'
  BY <1>3, <1>5 DEF OwnTrade, ChasePcs, PassPcs
<1>10. Known'
  <2>1. \A u \in Live : u \in Trades
    BY DEF Live
  <2>2. s.pc # "off" /\ s.pc \in PassPcs
    BY DEF PassPcs, ChasePcs
  <2> QED
    BY <1>3, <1>4, <1>5, <1>7, <2>1, <2>2 DEF Known, Remembers
<1>11. SideBySide' /\ Directed'
  BY <1>5, <1>7 DEF SideBySide, Directed, Beside, Live
<1>12. Plannable' /\ Room'
  BY <1>3 DEF Plannable, Room, EntryPcs
<1>13. InTurn'
  BY <1>6 DEF InTurn
<1>14. Dated'
  <2>1. \A u \in Trades : file'[u].st # "none" => file'[u].day <= Day(hour)
    BY <1>1, <1>2 DEF Dated
  <2> QED
    BY <2>1, <1>5, <1>6, <1>3 DEF Dated, PassPcs, ChasePcs, StrategyTypes, Threads, Day
<1> QED
  BY <1>8, <1>9, <1>10, <1>11, <1>12, <1>13, <1>14

\* The chase goes on.
LEMMA ChaseGoesOn ==
  ASSUME DrmaInv, s.pc \in ChasePcs, NEW pc \in ChasePcs \ {"send"}, NEW n \in 1..Rounds + 1, pc # "final" => n <= Rounds,
         s' = [s EXCEPT !.pc = pc, !.n = n],
         UNCHANGED <<file, pos, sim, count, conf, hour, opening>>, drmascene'.of = drmascene.of
  PROVE  Strategy'
<1>. USE DEF DrmaInv, Strategy
<1>1. /\ Live' = Live /\ SideBySide' /\ Directed' /\ InTurn' /\ UsedTrades' = UsedTrades /\ Limit' = Limit
      /\ \A x \in Sleeves : Of(x)' = Of(x)
      /\ \A x \in Sleeves, d \in {0, 1} : On(x, d)' = On(x, d)
  BY FilesSame
<1>2. /\ s' \in Threads /\ s'.pass = s.pass /\ s'.day = s.day /\ s'.todo = s.todo /\ s'.seen = s.seen
      /\ s'.pc = pc /\ s'.cur = s.cur /\ s'.n = n
  <2>1. n \in 0..Rounds + 1 /\ s \in Threads
    BY DrmaConstants DEF StrategyTypes
  <2> QED
    BY <2>1 DEF Threads, PassPcs
<1>3. StrategyTypes'
  BY <1>2 DEF StrategyTypes
<1>4. OwnTrade'
  BY <1>1, <1>2, DrmaConstants DEF OwnTrade, ChasePcs, PassPcs
<1>5. Known'
  BY <1>1, <1>2 DEF Known, Remembers, PassPcs, ChasePcs
<1>6. Plannable' /\ Room'
  BY <1>2 DEF Plannable, Room, EntryPcs, ChasePcs
<1>7. Dated'
  BY <1>1, <1>2 DEF Dated, PassPcs, ChasePcs, StrategyTypes, Threads, Day
<1> QED
  BY <1>1, <1>3, <1>4, <1>5, <1>6, <1>7

\* What goes wrong uses the scenario up and leaves it what it is.
LEMMA DrmaFaultFacts ==
  ASSUME AccountTypes
  PROVE  /\ \A f : DrmaFault(f) => /\ drmascene' \in [of : DrmaScenarios, left : Nat]
                                   /\ drmascene'.of = drmascene.of /\ f \in drmascene.of
         /\ UNCHANGED drmascene => drmascene' \in [of : DrmaScenarios, left : Nat] /\ drmascene'.of = drmascene.of
<1>1. ASSUME NEW f, DrmaFault(f)
      PROVE  drmascene' \in [of : DrmaScenarios, left : Nat] /\ drmascene'.of = drmascene.of /\ f \in drmascene.of
  <2>1. drmascene \in [of : DrmaScenarios, left : Nat] /\ drmascene.left - 1 \in Nat
    BY <1>1 DEF AccountTypes, DrmaFault
  <2> QED
    BY <1>1, <2>1 DEF DrmaFault
<1> QED
  BY <1>1 DEF AccountTypes

\* It is enough to look at the one trade whose file or orders move.
LEMMA AccountOne ==
  ASSUME DrmaInv, NEW t \in Trades, AccountTypes', drmascene'.of = drmascene.of,
         \A u \in Trades : u # t => /\ file'[u] = file[u] /\ opening'[u] = opening[u] /\ oco'[u] = oco[u]
                                    /\ close'[u] = close[u] /\ owned'[u] = owned[u],
         AccountAgrees(t)'
  PROVE  Account'
<1>1. ASSUME NEW u \in Trades, u # t PROVE AccountAgrees(u)'
  BY <1>1 DEF DrmaInv, Account, AccountAgrees, Backed, Covered, Resting
<1> QED
  BY <1>1 DEF Account

\* Orders that rest where no file moves.
LEMMA OrdersSame ==
  ASSUME DrmaInv, wish' \in [Sleeves -> BOOLEAN], drmascene' \in [of : DrmaScenarios, left : Nat],
         drmascene'.of = drmascene.of, UNCHANGED <<file, orders>>
  PROVE  Account'
BY DEF DrmaInv, Account, AccountTypes, AccountAgrees, Backed, Covered, Resting, orders

\* A finished trade: a spread that is not in the account any more.
LEMMA AccountFinal ==
  ASSUME DrmaInv, NEW t \in Live, Finalized(t), UNCHANGED <<wish, orders>>,
         drmascene' \in [of : DrmaScenarios, left : Nat], drmascene'.of = drmascene.of,
         "slow" \notin drmascene.of /\ file[t].sleeve # "fut" => owned[t] = 0
  PROVE  Account'
<1>1. t \in Trades /\ file[t] \in TradeFiles /\ file[t].st # "none"
  BY DEF Live, DrmaInv, Strategy, StrategyTypes
<1>2. /\ file'[t].st = "closed" /\ file'[t].sleeve = file[t].sleeve /\ file'[t].paper = file[t].paper
      /\ \A u \in Trades : u # t => file'[u] = file[u]
  BY <1>1 DEF Finalized, DrmaInv, Strategy, StrategyTypes, TradeFiles
<1>3. AccountTypes'
  BY DEF DrmaInv, Account, AccountTypes, orders
<1>4. AccountAgrees(t)'
  BY <1>1, <1>2 DEF DrmaInv, Account, AccountAgrees, Backed, Covered, Resting, orders
<1> QED
  BY <1>1, <1>2, <1>3, <1>4, AccountOne DEF orders
\* What a pass works on is live, and the resume sends no exits.
LEMMA DoingFacts ==
  ASSUME DrmaInv, NEW t \in Trades, NEW work \in {"none", "manage", "exit", "chase"}, Doing(t, work)
  PROVE  /\ s.pc = "work" /\ t \in s.todo /\ t \in Live /\ file[t] \in TradeFiles
         /\ file[t].st \in {"open", "closing"} /\ file[t].sleeve \in Sleeves
         /\ work = "exit" => s.pass # "resume"
<1>1. s.pc = "work" /\ t \in s.todo /\ t \in Live /\ Work(t) = work
  BY DEF Doing, DrmaInv, Strategy, OwnTrade
<1>2. file[t] \in TradeFiles /\ file[t].st \in {"open", "closing"} /\ file[t].sleeve \in Sleeves
  BY <1>1 DEF Live, DrmaInv, Strategy, StrategyTypes, TradeFiles
<1>3. s.pass = "resume" => Work(t) # "exit"
  BY DEF Work
<1> QED
  BY <1>1, <1>2, <1>3

\* A trade that a pass leaves alone is remembered.
LEMMA LeaveKeeps ==
  ASSUME DrmaInv, NEW t \in Trades, Leave(t)
  PROVE  DrmaInv'
<1>1. t \in Live /\ s.pc = "work" /\ t \in s.todo
  BY DoingFacts DEF Leave
<1>2. UNCHANGED <<file, count, conf, hour, opening>> /\ drmascene' = drmascene
  BY DEF Leave, orders
<1>3. Strategy'
  BY <1>1, <1>2, ResumedKeeps DEF Leave
<1>4. Account'
  BY <1>2, OrdersSame, DrmaFaultFacts DEF Leave, DrmaInv, Account, AccountTypes
<1> QED
  BY <1>3, <1>4 DEF DrmaInv

\* So is an open trade that has no reason to leave.
LEMMA StayKeeps ==
  ASSUME DrmaInv, NEW t \in Trades, Stay(t)
  PROVE  DrmaInv'
<1>1. t \in Live /\ s.pc = "work" /\ t \in s.todo
  BY DoingFacts DEF Stay
<1>2. UNCHANGED <<file, count, wish, conf, hour, orders, opening>> /\ Resumed(t) /\ s' = Done(t)
  BY DEF Stay, orders
<1>3. drmascene' \in [of : DrmaScenarios, left : Nat] /\ drmascene'.of = drmascene.of
  BY DrmaFaultFacts DEF Stay, DrmaInv, Account
<1>4. Strategy'
  BY <1>1, <1>2, <1>3, ResumedKeeps
<1>5. Account'
  BY <1>2, <1>3, OrdersSame DEF DrmaInv, Account, AccountTypes
<1> QED
  BY <1>4, <1>5 DEF DrmaInv

\* The protective order has closed the spread.
LEMMA OcoDoneKeeps ==
  ASSUME DrmaInv, NEW t \in Trades, OcoDone(t)
  PROVE  DrmaInv'
<1>1. t \in Live /\ s.pc = "work"
  BY DoingFacts DEF OcoDone
<1>2. UNCHANGED <<count, wish, conf, hour, orders, opening, drmascene>> /\ Finalized(t) /\ oco[t] = "filled"
  BY DEF OcoDone, orders
<1>3. drmascene' \in [of : DrmaScenarios, left : Nat] /\ drmascene'.of = drmascene.of
  BY <1>2, DrmaFaultFacts DEF DrmaInv, Account
<1>4. Strategy'
  BY <1>1, <1>2, <1>3, FinalizedKeeps
<1>5. "slow" \notin drmascene.of /\ file[t].sleeve # "fut" => owned[t] = 0
  BY <1>2 DEF DrmaInv, Account, AccountAgrees, Covered
<1>6. Account'
  BY <1>1, <1>2, <1>3, <1>5, AccountFinal
<1> QED
  BY <1>4, <1>6 DEF DrmaInv

\* A paper trade ends without an order.
LEMMA PaperExitKeeps ==
  ASSUME DrmaInv, NEW t \in Trades, PaperExit(t)
  PROVE  DrmaInv'
<1>1. t \in Live /\ s.pc = "work" /\ file[t].st # "none"
  BY DoingFacts DEF PaperExit
<1>2. UNCHANGED <<count, wish, conf, hour, orders, opening, drmascene>> /\ Finalized(t) /\ file[t].paper
  BY DEF PaperExit, orders
<1>3. drmascene' \in [of : DrmaScenarios, left : Nat] /\ drmascene'.of = drmascene.of
  BY <1>2, DrmaFaultFacts DEF DrmaInv, Account
<1>4. Strategy'
  BY <1>1, <1>2, <1>3, FinalizedKeeps
<1>5. owned[t] = 0
  BY <1>1, <1>2 DEF DrmaInv, Account, AccountAgrees, Backed
<1>6. Account'
  BY <1>1, <1>2, <1>3, <1>5, AccountFinal
<1> QED
  BY <1>4, <1>6 DEF DrmaInv

\* A future ends with a market order.
LEMMA FuturesExitKeeps ==
  ASSUME DrmaInv, NEW t \in Trades, FuturesExit(t)
  PROVE  DrmaInv'
<1>1. t \in Live /\ s.pc = "work" /\ file[t].st # "none" /\ file[t] \in TradeFiles
  BY DoingFacts DEF FuturesExit
<1>2. UNCHANGED <<count, wish, conf, hour, opening, oco, owned>> /\ Finalized(t) /\ file[t].sleeve = "fut"
  BY DEF FuturesExit
<1>3. drmascene' \in [of : DrmaScenarios, left : Nat] /\ drmascene'.of = drmascene.of
  BY DrmaFaultFacts DEF FuturesExit, DrmaInv, Account
<1>4. Strategy'
  BY <1>1, <1>2, <1>3, FinalizedKeeps
<1>5. /\ close' \in [Trades -> OrderStates] /\ close'[t] \in {"working", close[t]}
      /\ \A u \in Trades : u # t => close'[u] = close[u]
  BY DEF FuturesExit, DrmaInv, Account, AccountTypes, OrderStates
<1>6. /\ file'[t].st = "closed" /\ file'[t].sleeve = "fut" /\ file'[t].paper = file[t].paper
      /\ \A u \in Trades : u # t => file'[u] = file[u]
  BY <1>1, <1>2 DEF Finalized, DrmaInv, Strategy, StrategyTypes, TradeFiles
<1>7. AccountTypes'
  BY <1>2, <1>3, <1>5 DEF DrmaInv, Account, AccountTypes
<1>8. AccountAgrees(t)'
  BY <1>1, <1>2, <1>3, <1>6 DEF DrmaInv, Account, AccountAgrees, Backed, Covered
<1>9. Account'
  BY <1>2, <1>3, <1>5, <1>6, <1>7, <1>8, AccountOne
<1> QED
  BY <1>4, <1>9 DEF DrmaInv

\* An exit signal asks for the cancel of the protective order.
LEMMA SignalExitKeeps ==
  ASSUME DrmaInv, NEW t \in Trades, SignalExit(t)
  PROVE  DrmaInv'
<1>1. t \in Live /\ s.pc = "work" /\ t \in s.todo /\ file[t].st # "none"
  BY DoingFacts DEF SignalExit
<1>2. UNCHANGED <<file, count, wish, conf, hour, opening, close, owned>> /\ Resumed(t) /\ s' = Forth(t, "send", 0)
  BY DEF SignalExit
<1>3. drmascene' \in [of : DrmaScenarios, left : Nat] /\ drmascene'.of = drmascene.of
  BY DrmaFaultFacts DEF SignalExit, DrmaInv, Account
<1>4. Strategy'
  BY <1>1, <1>2, <1>3, ResumedKeeps
<1>5. /\ oco' \in [Trades -> OrderStates] /\ oco'[t] \in {Asked(oco[t]), oco[t]}
      /\ \A u \in Trades : u # t => oco'[u] = oco[u]
  BY DEF SignalExit, Asked, DrmaInv, Account, AccountTypes, OrderStates
<1>6. AccountTypes'
  BY <1>2, <1>3, <1>5 DEF DrmaInv, Account, AccountTypes
<1>7. AccountAgrees(t)'
  BY <1>1, <1>2, <1>3, <1>5 DEF DrmaInv, Account, AccountAgrees, Backed, Covered, Asked, Resting
<1>8. Account'
  BY <1>2, <1>3, <1>5, <1>6, <1>7, AccountOne
<1> QED
  BY <1>4, <1>8 DEF DrmaInv

\* The cutoffs leave it alone.
LEMMA CutoffExitKeeps ==
  ASSUME DrmaInv, NEW t \in Trades, CutoffExit(t)
  PROVE  DrmaInv'
<1>1. t \in Live /\ s.pc = "work" /\ t \in s.todo /\ s.pass # "resume"
  BY DoingFacts DEF CutoffExit
<1>2. UNCHANGED <<file, pos, sim, count, wish, conf, hour, orders, opening, drmascene>> /\ s' = Forth(t, "send", 0)
  BY DEF CutoffExit, memory, orders
<1>3. drmascene' \in [of : DrmaScenarios, left : Nat] /\ drmascene'.of = drmascene.of
  BY <1>2, DrmaFaultFacts DEF DrmaInv, Account
<1>4. Strategy'
  BY <1>1, <1>2, <1>3, ResumedKeeps
<1>5. Account'
  BY <1>2, <1>3, OrdersSame DEF DrmaInv, Account, AccountTypes
<1> QED
  BY <1>4, <1>5 DEF DrmaInv

\* A closing trade is chased again, or found to be gone.
LEMMA ClosingChaseKeeps ==
  ASSUME DrmaInv, NEW t \in Trades, ClosingChase(t)
  PROVE  DrmaInv'
<1>1. t \in Live /\ s.pc = "work" /\ t \in s.todo
  BY DoingFacts DEF ClosingChase
<1>2. UNCHANGED <<count, wish, conf, hour, orders, opening>>
  BY DEF ClosingChase, orders
<1>3. drmascene' \in [of : DrmaScenarios, left : Nat] /\ drmascene'.of = drmascene.of
  BY DrmaFaultFacts DEF ClosingChase, DrmaInv, Account
<1>4. CASE close[t] = "filled" /\ Finalized(t)
  <2>1. Strategy'
    BY <1>1, <1>2, <1>3, <1>4, FinalizedKeeps
  <2>2. "slow" \notin drmascene.of /\ file[t].sleeve # "fut" => owned[t] = 0
    BY <1>4 DEF DrmaInv, Account, AccountAgrees, Covered
  <2>3. Account'
    BY <1>1, <1>2, <1>3, <1>4, <2>2, AccountFinal
  <2> QED
    BY <2>1, <2>3 DEF DrmaInv
<1>5. CASE Resumed(t) /\ s' = Forth(t, "poll", 1) /\ UNCHANGED file
  <2>1. Strategy'
    BY <1>1, <1>2, <1>3, <1>5, ResumedKeeps
  <2>2. Account'
    BY <1>2, <1>3, <1>5, OrdersSame DEF DrmaInv, Account, AccountTypes
  <2> QED
    BY <2>1, <2>2 DEF DrmaInv
<1> QED
  BY <1>4, <1>5 DEF ClosingChase
\* The trade of a chase, and what a step of the chase leaves alone.
LEMMA ChaseFacts ==
  ASSUME DrmaInv, NEW pc \in ChasePcs, Chasing(pc)
  PROVE  /\ s.pc = pc /\ s.cur \in Live /\ s.cur \in Trades /\ file[s.cur].st \in {"open", "closing"}
         /\ UNCHANGED <<count, wish, conf, hour, opening, oco, owned>>
         /\ (pc \in {"poll", "recheck"} => s.n \in 1..Rounds)
BY DEF Chasing, DrmaInv, Strategy, OwnTrade, Live

\* A chase that ends with the trade finished.
LEMMA ChaseEnds ==
  ASSUME DrmaInv, NEW pc \in ChasePcs, Chasing(pc), Finalized(s.cur), UNCHANGED close,
         drmascene' \in [of : DrmaScenarios, left : Nat], drmascene'.of = drmascene.of,
         close[s.cur] = "filled" \/ Flat(s.cur)
  PROVE  DrmaInv'
<1>1. /\ s.pc = pc /\ s.cur \in Live /\ s.cur \in Trades
      /\ UNCHANGED <<count, wish, conf, hour, opening, oco, owned>>
  BY ChaseFacts
<1>2. Strategy'
  BY <1>1, FinalizedKeeps
<1>3. "slow" \notin drmascene.of /\ file[s.cur].sleeve # "fut" => owned[s.cur] = 0
  BY <1>1 DEF Flat, DrmaInv, Account, AccountAgrees, Covered
<1>4. Account'
  BY <1>1, <1>3, AccountFinal DEF orders
<1> QED
  BY <1>2, <1>4 DEF DrmaInv

\* A chase that leaves the trade in CLOSING.
LEMMA ChasePends ==
  ASSUME DrmaInv, NEW pc \in ChasePcs, Chasing(pc), NEW oid \in BOOLEAN, Pending(s.cur, oid), UNCHANGED close,
         drmascene' \in [of : DrmaScenarios, left : Nat], drmascene'.of = drmascene.of
  PROVE  DrmaInv'
<1>0. PICK t \in Trades : t = s.cur
  BY ChaseFacts
<1>1. /\ s.pc \in ChasePcs /\ t \in Trades /\ file[t].st \in {"open", "closing"}
      /\ UNCHANGED <<count, wish, conf, hour, opening, oco, owned>>
  BY <1>0, ChaseFacts
<1>2. Strategy'
  BY <1>0, <1>1, PendingKeeps
<1>3. /\ file'[t].st = "closing" /\ file'[t].sleeve = file[t].sleeve /\ file'[t].paper = file[t].paper
      /\ \A u \in Trades : u # t => file'[u] = file[u]
  <2>. DEFINE f == [file[t] EXCEPT !.st = "closing"]
  <2>1. f.st = "closing" /\ f.sleeve = file[t].sleeve /\ f.paper = file[t].paper /\ DOMAIN f = DOMAIN file[t]
    BY <1>1 DEF DrmaInv, Strategy, StrategyTypes, TradeFiles
  <2>2. file' = [file EXCEPT ![t] = [f EXCEPT !.oid = oid]]
    BY <1>0, <1>1 DEF Pending, DrmaInv, Strategy, StrategyTypes
  <2>. HIDE DEF f
  <2> QED
    BY <1>1, <2>1, <2>2 DEF DrmaInv, Strategy, StrategyTypes, TradeFiles
<1>4. AccountTypes'
  BY <1>1 DEF DrmaInv, Account, AccountTypes
<1>5. AccountAgrees(t)'
  BY <1>1, <1>3 DEF DrmaInv, Account, AccountAgrees, Backed, Covered, Resting
<1>6. Account'
  BY <1>1, <1>3, <1>4, <1>5, AccountOne
<1> QED
  BY <1>2, <1>6 DEF DrmaInv

\* A chase that goes on: its order as it was, asked to cancel, or a new one for
\* a position that nothing else reserves.
LEMMA ChaseStays ==
  ASSUME DrmaInv, NEW now \in ChasePcs, Chasing(now), NEW pc \in ChasePcs \ {"send"},
         NEW n \in 1..Rounds + 1, pc # "final" => n <= Rounds,
         s' = [s EXCEPT !.pc = pc, !.n = n], UNCHANGED <<file, pos, sim>>,
         drmascene' \in [of : DrmaScenarios, left : Nat], drmascene'.of = drmascene.of,
         \/ UNCHANGED close
         \/ close' = [close EXCEPT ![s.cur] = Asked(@)]
         \/ close' = [close EXCEPT ![s.cur] = "working"] /\ ~Flat(s.cur) /\ ~Reserved(s.cur)
  PROVE  DrmaInv'
<1>0. PICK t \in Trades : t = s.cur
  BY ChaseFacts
<1>1. /\ s.pc \in ChasePcs /\ t \in Trades /\ file[t].st \in {"open", "closing"}
      /\ UNCHANGED <<count, wish, conf, hour, opening, oco, owned>>
  BY <1>0, ChaseFacts
<1>2. Strategy'
  BY <1>1, ChaseGoesOn
<1>3. /\ close' \in [Trades -> OrderStates] /\ \A u \in Trades : u # t => close'[u] = close[u]
      /\ \/ close'[t] \in {close[t], Asked(close[t])}
         \/ close'[t] = "working" /\ ~Flat(t) /\ ~Reserved(t)
  BY <1>0, <1>1 DEF Asked, DrmaInv, Account, AccountTypes, OrderStates
<1>4. AccountTypes'
  BY <1>1, <1>3 DEF DrmaInv, Account, AccountTypes
<1>5. AccountAgrees(t)'
  <2>1. owned[t] \in {0, 1} /\ Backed(file[t], opening[t], oco[t], close[t], owned[t])
        /\ ("slow" \notin drmascene.of => Covered(file[t], opening[t], oco[t], close[t], owned[t]))
    BY DEF DrmaInv, Account, AccountTypes, AccountAgrees
  <2>2. CASE close'[t] \in {close[t], Asked(close[t])}
    BY <1>1, <2>1, <2>2 DEF AccountAgrees, Backed, Covered, Resting, Asked
  <2>3. CASE close'[t] = "working" /\ owned[t] = 1 /\ ~Resting(oco[t])
    BY <1>1, <2>1, <2>3 DEF AccountAgrees, Backed, Covered, Resting
  <2> QED
    BY <1>3, <2>1, <2>2, <2>3 DEF Flat, Reserved, Resting
<1>6. Account'
  BY <1>1, <1>3, <1>4, <1>5, AccountOne
<1> QED
  BY <1>2, <1>6 DEF DrmaInv

\* The first order of a chase.
LEMMA ChaseSendKeeps ==
  ASSUME DrmaInv, ChaseSend
  PROVE  DrmaInv'
<1>1. Chasing("send") /\ "send" \in ChasePcs /\ "poll" \in ChasePcs \ {"send"}
  BY DEF ChaseSend, ChasePcs
<1>2. drmascene' \in [of : DrmaScenarios, left : Nat] /\ drmascene'.of = drmascene.of
  BY DrmaFaultFacts DEF ChaseSend, DrmaInv, Account
<1>3. CASE Flat(s.cur) /\ Finalized(s.cur) /\ UNCHANGED close
  BY <1>1, <1>2, <1>3, ChaseEnds
<1>4. CASE Pending(s.cur, FALSE) /\ UNCHANGED close
  BY <1>1, <1>2, <1>4, ChasePends
<1>5. CASE /\ ~Flat(s.cur) /\ ~Reserved(s.cur) /\ close' = [close EXCEPT ![s.cur] = "working"]
           /\ s' = [s EXCEPT !.pc = "poll", !.n = 1] /\ UNCHANGED <<file, pos, sim>>
  <2>1. 1 \in 1..Rounds + 1 /\ 1 <= Rounds
    BY DrmaConstants
  <2> QED
    BY <1>1, <1>2, <1>5, <2>1, ChaseStays
<1> QED
  BY <1>3, <1>4, <1>5 DEF ChaseSend

\* The status of a closing order, and the request to cancel it.
LEMMA ChasePollKeeps ==
  ASSUME DrmaInv, ChasePoll
  PROVE  DrmaInv'
<1>1. Chasing("poll") /\ "poll" \in ChasePcs /\ "recheck" \in ChasePcs \ {"send"}
  BY DEF ChasePoll, ChasePcs
<1>2. drmascene' \in [of : DrmaScenarios, left : Nat] /\ drmascene'.of = drmascene.of
  BY DrmaFaultFacts DEF ChasePoll, DrmaInv, Account
<1>3. CASE DoneWhenFilled(s.cur) /\ Finalized(s.cur) /\ UNCHANGED close
  BY <1>1, <1>2, <1>3, ChaseEnds DEF DoneWhenFilled
<1>4. CASE /\ close' = [close EXCEPT ![s.cur] = Asked(@)] \/ UNCHANGED close
           /\ Goto("recheck") /\ UNCHANGED <<file, pos, sim>>
  <2>1. s.n \in 1..Rounds + 1 /\ s.n <= Rounds
    BY <1>1, ChaseFacts, DrmaConstants
  <2>2. s' = [s EXCEPT !.pc = "recheck", !.n = s.n]
    BY <1>4 DEF Goto, DrmaInv, Strategy, StrategyTypes, Threads
  <2> QED
    BY <1>1, <1>2, <1>4, <2>1, <2>2, ChaseStays
<1> QED
  BY <1>3, <1>4 DEF ChasePoll

\* A second later: filled after all, gone, or a new order.
LEMMA ChaseRecheckKeeps ==
  ASSUME DrmaInv, ChaseRecheck
  PROVE  DrmaInv'
<1>1. Chasing("recheck") /\ "recheck" \in ChasePcs
  BY DEF ChaseRecheck, ChasePcs
<1>2. drmascene' \in [of : DrmaScenarios, left : Nat] /\ drmascene'.of = drmascene.of
  BY DrmaFaultFacts DEF ChaseRecheck, DrmaInv, Account
<1>3. CASE (close[s.cur] = "filled" \/ Flat(s.cur)) /\ Finalized(s.cur) /\ UNCHANGED close
  BY <1>1, <1>2, <1>3, ChaseEnds
<1>4. CASE /\ \/ UNCHANGED close
              \/ ~Flat(s.cur) /\ ~Reserved(s.cur) /\ close' = [close EXCEPT ![s.cur] = "working"]
           /\ NextRound /\ UNCHANGED <<file, pos, sim>>
  <2>1. s.n \in 1..Rounds
    BY <1>1, ChaseFacts
  <2>2. PICK pc \in ChasePcs \ {"send"} : pc = (IF AttemptsOver THEN "final" ELSE "poll")
    BY DEF ChasePcs
  <2>3. s.n + 1 \in 1..Rounds + 1 /\ (pc # "final" => s.n + 1 <= Rounds)
    BY <2>1, <2>2, DrmaConstants DEF AttemptsOver
  <2>4. s' = [s EXCEPT !.pc = pc, !.n = s.n + 1]
    BY <1>4, <2>2 DEF NextRound
  <2> QED
    BY <1>1, <1>2, <1>4, <2>3, <2>4, ChaseStays
<1> QED
  BY <1>3, <1>4 DEF ChaseRecheck, DoneWhenFilled

\* The last look of a chase.
LEMMA ChaseFinalKeeps ==
  ASSUME DrmaInv, ChaseFinal
  PROVE  DrmaInv'
<1>1. Chasing("final") /\ "final" \in ChasePcs /\ UNCHANGED close
  BY DEF ChaseFinal, ChasePcs
<1>2. drmascene' \in [of : DrmaScenarios, left : Nat] /\ drmascene'.of = drmascene.of
  BY DrmaFaultFacts DEF ChaseFinal, DrmaInv, Account
<1>3. CASE close[s.cur] = "filled" /\ Finalized(s.cur)
  BY <1>1, <1>2, <1>3, ChaseEnds
<1>4. CASE Pending(s.cur, TRUE)
  BY <1>1, <1>2, <1>4, ChasePends
<1> QED
  BY <1>3, <1>4 DEF ChaseFinal, DoneWhenFilled
\* The counters of a day, counted again.
LEMMA RecountFacts ==
  ASSUME NEW d \in {0, 1}
  PROVE  /\ Recount(d) \in [Sleeves -> Nat]
         /\ \A x \in Sleeves : Recount(d)[x] = Cardinality(On(x, d)) /\ Recount(d)[x] <= Cardinality(Of(x))
<1>1. \A x \in Sleeves : Recount(d)[x] = Cardinality(On(x, d))
  BY DEF Recount, On
<1>2. ASSUME NEW x \in Sleeves PROVE Cardinality(On(x, d)) <= Cardinality(Of(x)) /\ Cardinality(On(x, d)) \in Nat
  <2>1. IsFiniteSet(Of(x)) /\ On(x, d) \subseteq Of(x) /\ Cardinality(On(x, d)) \in 0..MaxTrades
    BY CountFacts
  <2>2. Cardinality(On(x, d)) <= Cardinality(Of(x))
    BY <2>1, FS_Subset
  <2> QED
    BY <2>1, <2>2, DrmaConstants
<1>3. Recount(d) \in [Sleeves -> Nat]
  BY <1>1, <1>2 DEF Recount, On
<1> QED
  BY <1>1, <1>2, <1>3

\* A start reads the files: everything live is still to be resumed.
LEMMA StartKeeps ==
  ASSUME DrmaInv, Start
  PROVE  DrmaInv'
<1>. USE DEF DrmaInv, Strategy
<1>1. UNCHANGED <<file, opening, orders, sim, hour, wish, drmascene>> /\ conf' = wish
  BY DEF Start, orders
<1>2. /\ Live' = Live /\ SideBySide' /\ Directed' /\ InTurn' /\ UsedTrades' = UsedTrades /\ Limit' = Limit
      /\ \A x \in Sleeves : Of(x)' = Of(x)
      /\ \A x \in Sleeves, d \in {0, 1} : On(x, d)' = On(x, d)
  BY <1>1, FilesSame
<1>3. hour \in 1..7 /\ Day(hour) \in {0, 1}
  BY NowFacts DEF StrategyTypes
<1>4. /\ s' \in Threads /\ s'.pc = "work" /\ s'.pass = "resume" /\ s'.day = Day(hour) /\ s'.todo = Live /\ s'.cur = 0
  <2>1. 0 \in 0..MaxTrades /\ 0 \in 0..Rounds + 1 /\ Live \subseteq Trades
    BY DrmaConstants DEF Live
  <2> QED
    BY <1>3, <2>1 DEF Start, Off, Threads, PassPcs, Passes, Sides, Biases
<1>5. /\ count' \in [Sleeves -> Nat]
      /\ \A x \in Sleeves : count'[x] = Cardinality(On(x, Day(hour))) /\ count'[x] <= Cardinality(Of(x))
  BY <1>3, RecountFacts DEF Start
<1>6. StrategyTypes'
  BY <1>1, <1>3, <1>4, <1>5 DEF StrategyTypes, Start, Sides, Account, AccountTypes
<1>7. OwnTrade'
  BY <1>2, <1>4 DEF OwnTrade, ChasePcs, PassPcs
<1>8. Known'
  BY <1>2, <1>4 DEF Known
<1>9. Plannable' /\ Room'
  BY <1>4 DEF Plannable, Room, EntryPcs
<1>10. Dated'
  BY <1>1, <1>2, <1>3, <1>4, <1>5 DEF Dated, PassPcs, ChasePcs, Day
<1>11. Account'
  BY <1>1, OrdersSame, DrmaFaultFacts DEF Account, AccountTypes
<1> QED
  BY <1>2, <1>6, <1>7, <1>8, <1>9, <1>10, <1>11

\* What the top of the loop does to the counters.
LEMMA RolledFacts ==
  ASSUME DrmaInv, Rolled
  PROVE  /\ s.pc = "top" /\ UNCHANGED <<file, opening, orders, pos, sim, wish, hour, drmascene>> /\ conf' = wish
         /\ hour \in 1..7 /\ Day(hour) \in {0, 1} /\ s.todo = {} /\ s.pass = "none" /\ s.cur = 0 /\ s \in Threads
         /\ conf' \in [Sleeves -> BOOLEAN] /\ count' \in [Sleeves -> Nat]
         /\ \A x \in Sleeves : count'[x] = Cardinality(On(x, Day(hour))) /\ count'[x] <= Cardinality(Of(x))
<1>. USE DEF DrmaInv, Strategy
<1>1. s.pc = "top" /\ UNCHANGED <<file, opening, orders, pos, sim, wish, hour, drmascene>> /\ conf' = wish
  BY DEF Rolled, orders
<1>2. hour \in 1..7 /\ Day(hour) \in {0, 1} /\ s.todo = {} /\ s.pass = "none" /\ s.cur = 0 /\ s \in Threads
      /\ conf' \in [Sleeves -> BOOLEAN]
  BY <1>1, NowFacts DEF OwnTrade, StrategyTypes, PassPcs, ChasePcs, Account, AccountTypes
<1>3. /\ count' \in [Sleeves -> Nat]
      /\ \A x \in Sleeves : count'[x] = Cardinality(On(x, Day(hour))) /\ count'[x] <= Cardinality(Of(x))
  <2>1. CASE Day(hour) # s.day
    BY <1>2, <2>1, RecountFacts DEF Rolled
  <2>2. CASE Day(hour) = s.day
    BY <1>1, <2>2 DEF Rolled, Dated, StrategyTypes
  <2> QED
    BY <2>1, <2>2
<1> QED
  BY <1>1, <1>2, <1>3

\* A pass begins with every live trade to look at.
LEMMA PassBegins ==
  ASSUME DrmaInv, Rolled, NEW p \in Passes \ {"none", "resume"}, Pass(p, Live), p = "warmup" => Day(hour) = 1
  PROVE  DrmaInv'
<1>. USE DEF DrmaInv, Strategy
<1>1. /\ s.pc = "top" /\ UNCHANGED <<file, opening, orders, pos, sim, wish, hour, drmascene>> /\ conf' = wish
      /\ hour \in 1..7 /\ Day(hour) \in {0, 1} /\ s.todo = {} /\ s.pass = "none" /\ s.cur = 0 /\ s \in Threads
      /\ conf' \in [Sleeves -> BOOLEAN] /\ count' \in [Sleeves -> Nat]
      /\ \A x \in Sleeves : count'[x] = Cardinality(On(x, Day(hour))) /\ count'[x] <= Cardinality(Of(x))
  BY RolledFacts
<1>2. /\ Live' = Live /\ SideBySide' /\ Directed' /\ InTurn' /\ UsedTrades' = UsedTrades /\ Limit' = Limit
      /\ \A x \in Sleeves : Of(x)' = Of(x)
      /\ \A x \in Sleeves, d \in {0, 1} : On(x, d)' = On(x, d)
  BY <1>1, FilesSame
<1>3. /\ s' \in Threads /\ s'.pc = "work" /\ s'.pass = p /\ s'.day = Day(hour) /\ s'.todo = Live /\ s'.cur = 0
  <2>1. Live \subseteq Trades
    BY DEF Live
  <2> QED
    BY <1>1, <2>1 DEF Pass, Threads, PassPcs
<1>4. StrategyTypes'
  BY <1>1, <1>3 DEF StrategyTypes
<1>5. OwnTrade'
  BY <1>2, <1>3 DEF OwnTrade, ChasePcs, PassPcs
<1>6. Known'
  BY <1>1, <1>2, <1>3 DEF Known, Remembers
<1>7. Plannable' /\ Room'
  BY <1>3 DEF Plannable, Room, EntryPcs
<1>8. Dated'
  BY <1>1, <1>2, <1>3 DEF Dated, PassPcs, ChasePcs, Day
<1>9. Account'
  BY <1>1, OrdersSame, DrmaFaultFacts DEF Account, AccountTypes
<1> QED
  BY <1>2, <1>4, <1>5, <1>6, <1>7, <1>8, <1>9

\* The phases that only flatten.
LEMMA HaltKeeps ==
  ASSUME DrmaInv, Halt
  PROVE  DrmaInv'
<1>1. Now \in Passes \ {"none", "resume"} /\ Now # "warmup"
  BY DEF Halt, Passes
<1> QED
  BY <1>1, PassBegins DEF Halt

\* The phases with bars.
LEMMA BarsKeeps ==
  ASSUME DrmaInv, Bars
  PROVE  DrmaInv'
<1>1. Now \in {"night", "pre", "prep", "regular", "eod", "halt"}
  BY NowFacts DEF Now, DrmaInv, Strategy, StrategyTypes
<1>2. PICK p \in Passes \ {"none", "resume"} :
        p = CASE Now = "prep" -> "warmup" [] Now = "regular" -> "manage" [] OTHER -> Now
  <2>1. CASE Now = "prep"
    BY <2>1 DEF Passes
  <2>2. CASE Now = "regular"
    BY <2>2 DEF Passes
  <2>3. CASE Now \in {"night", "eod"}
    BY <2>3 DEF Passes
  <2> QED
    BY <1>1, <2>1, <2>2, <2>3 DEF Bars
<1>3. Now = "prep" => Day(hour) = 1
  <2>1. hour \in 1..7 /\ Phase[1] # "prep"
    BY DEF DrmaInv, Strategy, StrategyTypes, Phase
  <2> QED
    BY <2>1 DEF Now, Day
<1>4. p = "warmup" => Now = "prep"
  BY <1>1, <1>2
<1> QED
  BY <1>2, <1>3, <1>4, PassBegins DEF Bars

\* Without bars only the day is noted.
LEMMA NoBarsKeeps ==
  ASSUME DrmaInv, NoBars
  PROVE  DrmaInv'
<1>. USE DEF DrmaInv, Strategy
<1>1. /\ s.pc = "top" /\ UNCHANGED <<file, opening, orders, pos, sim, wish, hour, drmascene>> /\ conf' = wish
      /\ hour \in 1..7 /\ Day(hour) \in {0, 1} /\ s.todo = {} /\ s.pass = "none" /\ s.cur = 0 /\ s \in Threads
      /\ conf' \in [Sleeves -> BOOLEAN] /\ count' \in [Sleeves -> Nat]
      /\ \A x \in Sleeves : count'[x] = Cardinality(On(x, Day(hour))) /\ count'[x] <= Cardinality(Of(x))
  BY RolledFacts DEF NoBars
<1>2. /\ Live' = Live /\ SideBySide' /\ Directed' /\ InTurn' /\ UsedTrades' = UsedTrades /\ Limit' = Limit
      /\ \A x \in Sleeves : Of(x)' = Of(x)
      /\ \A x \in Sleeves, d \in {0, 1} : On(x, d)' = On(x, d)
  BY <1>1, FilesSame
<1>3. /\ s' \in Threads /\ s'.pc = "top" /\ s'.pass = "none" /\ s'.day = Day(hour) /\ s'.todo = {} /\ s'.cur = 0
  BY <1>1 DEF NoBars, Threads
<1>4. StrategyTypes'
  BY <1>1, <1>3 DEF StrategyTypes
<1>5. OwnTrade'
  BY <1>2, <1>3 DEF OwnTrade, ChasePcs, PassPcs
<1>6. Known'
  BY <1>1, <1>2, <1>3 DEF Known, Remembers, PassPcs, ChasePcs
<1>7. Plannable' /\ Room'
  BY <1>3 DEF Plannable, Room, EntryPcs
<1>8. Dated'
  BY <1>1, <1>2, <1>3 DEF Dated, PassPcs, ChasePcs, Day
<1>9. Account'
  BY <1>1, OrdersSame, DrmaFaultFacts DEF Account, AccountTypes
<1> QED
  BY <1>2, <1>4, <1>5, <1>6, <1>7, <1>8, <1>9
\* At the end of a pass every live trade was seen and is remembered, and what is
\* forgotten is of sleeves without one.
LEMMA PassEndFacts ==
  ASSUME DrmaInv, PassEnds
  PROVE  /\ s.pc = "work" /\ s.todo = {} /\ s.cur = 0 /\ s \in Threads
         /\ UNCHANGED <<file, opening, orders, count, wish, conf, hour, drmascene>>
         /\ pos' \in [Sleeves -> Sides \cup {"flat"}] /\ sim' \in [Sleeves -> BOOLEAN]
         /\ \A t \in Live : /\ file[t].sleeve \in s.seen /\ Remembers(file[t])
                            /\ pos'[file[t].sleeve] = pos[file[t].sleeve] /\ sim'[file[t].sleeve] = sim[file[t].sleeve]
<1>. USE DEF DrmaInv, Strategy
<1>1. s.pc = "work" /\ s.todo = {} /\ UNCHANGED <<file, opening, orders, count, wish, conf, hour, drmascene>>
      /\ pos' = [x \in Sleeves |-> IF Empty(x) THEN "flat" ELSE pos[x]]
      /\ sim' = [x \in Sleeves |-> sim[x] /\ ~Empty(x)]
  BY DEF PassEnds, orders
<1>2. s.cur = 0 /\ s \in Threads
  BY <1>1 DEF OwnTrade, StrategyTypes
<1>3. pos' \in [Sleeves -> Sides \cup {"flat"}]
  BY <1>1 DEF StrategyTypes
<1>4. sim' \in [Sleeves -> BOOLEAN]
  <2>1. \A x \in Sleeves : (sim[x] /\ ~Empty(x)) \in BOOLEAN
    BY Zenon
  <2> QED
    BY <1>1, <2>1, Zenon
<1>5. ASSUME NEW t \in Live
      PROVE  /\ file[t].sleeve \in s.seen /\ Remembers(file[t])
             /\ pos'[file[t].sleeve] = pos[file[t].sleeve] /\ sim'[file[t].sleeve] = sim[file[t].sleeve]
  <2>1. file[t].sleeve \in s.seen /\ Remembers(file[t])
    BY <1>1 DEF Known, PassPcs
  <2>2. file[t].sleeve \in Sleeves
    BY DEF Live, StrategyTypes, TradeFiles
  <2>3. ~Empty(file[t].sleeve) /\ sim[file[t].sleeve] \in BOOLEAN
    BY <2>1, <2>2 DEF Empty, StrategyTypes
  <2>4. pos'[file[t].sleeve] = pos[file[t].sleeve]
    BY <1>1, <2>2, <2>3
  <2>5. sim'[file[t].sleeve] = sim[file[t].sleeve]
    BY <1>1, <2>2, <2>3, Zenon
  <2> QED
    BY <2>1, <2>4, <2>5
<1> QED
  BY <1>1, <1>2, <1>3, <1>4, <1>5

\* What a signal asks for may be entered.
LEMMA SignalFacts ==
  ASSUME DrmaInv, s.pc = "work", s.todo = {}, NEW p \in SUBSET Sleeves, NEW b \in Sides, Signal(p, b)
  PROVE  /\ p # {} /\ ~({"dir", "credit"} \subseteq p) /\ ("dir" \in p => b \in Biases)
         /\ Cardinality(UsedTrades) + Cardinality(p) <= MaxTrades
         /\ \A x \in p : /\ \A t \in Live : Beside(file[t], x, b, conf[x])
                         /\ Cardinality(On(x, Day(hour))) < Limit
<1>. USE DEF DrmaInv, Strategy
<1>1. /\ p # {} /\ ~({"dir", "credit"} \subseteq p) /\ ("dir" \in p => b \in Biases)
      /\ Cardinality(UsedTrades) + Cardinality(p) <= MaxTrades
      /\ "dir" \in p => ~SameSide("dir", "credit", b)
      /\ "credit" \in p /\ b # "NEUTRAL" => ~SameSide("credit", "dir", b)
      /\ \A x \in p : MayEnter(x)
  BY DEF Signal, Sides
<1>2. \A t \in Live : /\ file[t].sleeve \in Sleeves /\ file[t].side \in Sides /\ file[t].sleeve \in s.seen
                      /\ Remembers(file[t]) /\ file[t].paper \in BOOLEAN
  BY DEF Live, StrategyTypes, TradeFiles, Known, PassPcs
<1>3. ASSUME NEW x \in p, NEW t \in Live PROVE Beside(file[t], x, b, conf[x])
  <2>1. file[t].sleeve # x
    <3>1. Empty(x) \/ pos[x] = "flat"
      BY <1>1 DEF MayEnter
    <3> QED
      BY <1>2, <3>1 DEF Empty, Remembers, Sides, Biases
  <2>2. ~(x = "dir" /\ file[t].sleeve = "credit" /\ file[t].side = b /\ file[t].paper = conf[x])
    BY <1>1, <1>2 DEF SameSide, Empty, Remembers, ModeOf, Biases
  <2>3. ~(x = "credit" /\ file[t].sleeve = "dir" /\ file[t].side = b /\ file[t].paper = conf[x])
    <3>1. file[t].sleeve = "dir" => file[t].side \in Biases
      BY DEF Directed
    <3> QED
      BY <1>1, <1>2, <3>1 DEF SameSide, Empty, Remembers, ModeOf, Biases
  <2> QED
    BY <2>1, <2>2, <2>3 DEF Beside
<1>4. ASSUME NEW x \in p PROVE Cardinality(On(x, Day(hour))) < Limit
  <2>1. count[x] < Limit
    BY <1>1 DEF MayEnter
  <2>2. CASE s.day = Day(hour)
    BY <2>1, <2>2 DEF Dated
  <2>3. CASE s.day # Day(hour)
    <3>1. On(x, Day(hour)) = {}
      BY <2>3 DEF Dated, PassPcs
    <3> QED
      BY <3>1, FS_EmptySet, LimitFacts, DrmaConstants
  <2> QED
    BY <2>2, <2>3
<1> QED
  BY <1>1, <1>3, <1>4

\* What every way out of a pass shares.
LEMMA PassLeft ==
  ASSUME DrmaInv, PassEnds, s' \in Threads, s'.pc \in {"top", "work", "place"}, s'.cur = 0,
         s'.pc = "top" => s'.pass = "none" /\ s'.todo = {} /\ s'.day = s.day,
         s'.pc = "work" => s'.pass = "prep" /\ s'.todo = Live /\ s'.day = Day(hour) /\ s.day = Day(hour),
         s'.pc = "place" => s'.todo = {} /\ s'.day = s.day /\ s'.pass = s.pass
  PROVE  (s'.pc = "place" => Plannable' /\ Room') => DrmaInv'
<1>. USE DEF DrmaInv, Strategy
<1>1. /\ s.pc = "work" /\ s.todo = {} /\ s.cur = 0 /\ s \in Threads
      /\ UNCHANGED <<file, opening, orders, count, wish, conf, hour, drmascene>>
      /\ pos' \in [Sleeves -> Sides \cup {"flat"}] /\ sim' \in [Sleeves -> BOOLEAN]
      /\ \A t \in Live : /\ file[t].sleeve \in s.seen /\ Remembers(file[t])
                         /\ pos'[file[t].sleeve] = pos[file[t].sleeve] /\ sim'[file[t].sleeve] = sim[file[t].sleeve]
  BY PassEndFacts
<1>2. /\ Live' = Live /\ SideBySide' /\ Directed' /\ InTurn' /\ UsedTrades' = UsedTrades /\ Limit' = Limit
      /\ \A x \in Sleeves : Of(x)' = Of(x)
      /\ \A x \in Sleeves, d \in {0, 1} : On(x, d)' = On(x, d)
  BY <1>1, FilesSame
<1>3. StrategyTypes'
  BY <1>1 DEF StrategyTypes
<1>4. OwnTrade'
  BY <1>1, <1>2 DEF OwnTrade, ChasePcs, PassPcs
<1>5. Known'
  <2>1. \A t \in Live : Remembers(file[t])'
    BY <1>1 DEF Remembers
  <2> QED
    BY <1>1, <1>2, <2>1 DEF Known, Remembers, PassPcs, ChasePcs
<1>6. s'.pc # "place" => Plannable' /\ Room'
  BY DEF Plannable, Room, EntryPcs
<1>7. Dated'
  BY <1>1, <1>2 DEF Dated, PassPcs, ChasePcs, StrategyTypes, Threads, Day
<1>8. Account'
  BY <1>1, OrdersSame, DrmaFaultFacts DEF Account, AccountTypes
<1> QED
  BY <1>2, <1>3, <1>4, <1>5, <1>6, <1>7, <1>8

\* A pass that is over: what it did not see is forgotten, and entries are planned
\* only where the sleeve is free and the other sleeve allows it.
LEMMA PassEndsKeeps ==
  ASSUME DrmaInv, PassEnds
  PROVE  DrmaInv'
<1>. USE DEF DrmaInv, Strategy
<1>1. /\ s.pc = "work" /\ s.todo = {} /\ s.cur = 0 /\ s \in Threads
      /\ UNCHANGED <<file, opening, orders, conf, hour, drmascene>>
  BY PassEndFacts
<1>2. hour \in 1..7 /\ Day(hour) \in {0, 1} /\ s.day \in {0, 1} /\ Live \subseteq Trades
  BY NowFacts DEF StrategyTypes, Threads, Live
<1>3. CASE s.pass = "warmup" /\ Pass("prep", Live)
  <2>1. s' \in Threads /\ s'.pc = "work" /\ s'.pass = "prep" /\ s'.todo = Live /\ s'.day = Day(hour) /\ s'.cur = 0
    BY <1>1, <1>2, <1>3 DEF Pass, Threads, PassPcs, Passes
  <2>2. s.day = Day(hour)
    BY <1>2, <1>3 DEF Dated
  <2> QED
    BY <2>1, <2>2, PassLeft
<1>4. CASE ToTop
  <2>1. s' \in Threads /\ s'.pc = "top" /\ s'.pass = "none" /\ s'.todo = {} /\ s'.day = s.day /\ s'.cur = 0
    BY <1>2, <1>4, OffFacts DEF ToTop
  <2> QED
    BY <2>1, PassLeft
<1>5. CASE \E x \in SUBSET Sleeves, b \in Biases \cup {"NEUTRAL"} :
             Signal(x, b) /\ s' = [s EXCEPT !.pc = "place", !.seen = {}, !.plan = x, !.bias = b]
  <2>1. PICK p \in SUBSET Sleeves, b \in Sides :
          Signal(p, b) /\ s' = [s EXCEPT !.pc = "place", !.seen = {}, !.plan = p, !.bias = b]
    BY <1>5 DEF Sides
  <2>2. /\ s' \in Threads /\ s'.pc = "place" /\ s'.todo = {} /\ s'.day = s.day /\ s'.pass = s.pass
        /\ s'.plan = p /\ s'.bias = b /\ s'.cur = 0
    BY <1>1, <2>1 DEF Threads, EntryPcs
  <2>3. /\ p # {} /\ ~({"dir", "credit"} \subseteq p) /\ ("dir" \in p => b \in Biases)
        /\ Cardinality(UsedTrades) + Cardinality(p) <= MaxTrades
        /\ \A x \in p : /\ \A t \in Live : Beside(file[t], x, b, conf[x])
                        /\ Cardinality(On(x, Day(hour))) < Limit
    BY <1>1, <2>1, SignalFacts
  <2>4. /\ Live' = Live /\ UsedTrades' = UsedTrades /\ Limit' = Limit
        /\ \A x \in Sleeves, d \in {0, 1} : On(x, d)' = On(x, d)
    BY <1>1, FilesSame
  <2>5. Plannable'
    BY <1>1, <1>2, <2>2, <2>3, <2>4 DEF Plannable
  <2>6. Room'
    BY <2>2, <2>3, <2>4 DEF Room
  <2> QED
    BY <2>2, <2>5, <2>6, PassLeft
<1> QED
  BY <1>3, <1>4, <1>5 DEF PassEnds
\* The sleeve whose turn it is is planned.
LEMMA TurnFacts ==
  ASSUME DrmaInv, s.pc \in EntryPcs
  PROVE  /\ Turn \in s.plan /\ s.plan \subseteq Sleeves /\ IsFiniteSet(s.plan) /\ Cardinality(s.plan) \in Nat \ {0}
         /\ \A p \in SUBSET s.plan : IsFiniteSet(p) /\ Cardinality(p) <= Cardinality(s.plan) /\ Cardinality(p) \in Nat
         /\ \A x \in s.plan : Cardinality(s.plan \ {x}) = Cardinality(s.plan) - 1
<1>1. s.plan # {} /\ s.plan \subseteq Sleeves
  BY DEF DrmaInv, Strategy, Plannable, StrategyTypes, Threads
<1>2. Turn \in s.plan
  BY <1>1 DEF Turn, Sleeves
<1>3. IsFiniteSet(Sleeves)
  <2>1. IsFiniteSet({}) /\ IsFiniteSet({} \cup {"dir"}) /\ IsFiniteSet({} \cup {"dir"} \cup {"credit"})
        /\ IsFiniteSet({} \cup {"dir"} \cup {"credit"} \cup {"fut"})
    BY FS_EmptySet, FS_AddElement
  <2>2. Sleeves = {} \cup {"dir"} \cup {"credit"} \cup {"fut"}
    BY DEF Sleeves
  <2> QED
    BY <2>1, <2>2
<1>4. IsFiniteSet(s.plan) /\ Cardinality(s.plan) \in Nat
  BY <1>1, <1>3, FS_Subset, FS_CardinalityType
<1>5. Cardinality(s.plan) # 0
  BY <1>1, <1>4, FS_EmptySet
<1>6. \A p \in SUBSET s.plan : IsFiniteSet(p) /\ Cardinality(p) <= Cardinality(s.plan) /\ Cardinality(p) \in Nat
  BY <1>4, FS_Subset, FS_CardinalityType
<1>7. \A x \in s.plan : Cardinality(s.plan \ {x}) = Cardinality(s.plan) - 1
  BY <1>4, FS_RemoveElement
<1> QED
  BY <1>1, <1>2, <1>4, <1>5, <1>6, <1>7

\* The entries go on without an order: recorded on paper, or refused.
LEMMA PlaceGoesOn ==
  ASSUME DrmaInv, s.pc = "place", UNCHANGED <<file, memory, wish, hour, orders>>,
         drmascene' \in [of : DrmaScenarios, left : Nat], drmascene'.of = drmascene.of,
         Goto("record") \/ \E p \in SUBSET s.plan : Planned(p)
  PROVE  DrmaInv'
<1>. USE DEF DrmaInv, Strategy
<1>1. UNCHANGED <<file, pos, sim, count, conf, wish, hour, opening>>
  BY DEF memory, orders
<1>2. /\ Live' = Live /\ SideBySide' /\ Directed' /\ InTurn' /\ UsedTrades' = UsedTrades /\ Limit' = Limit
      /\ \A x \in Sleeves : Of(x)' = Of(x)
      /\ \A x \in Sleeves, d \in {0, 1} : On(x, d)' = On(x, d)
  BY <1>1, FilesSame
<1>3. s \in Threads /\ s.todo = {} /\ s.cur = 0 /\ s.day \in {0, 1} /\ Day(hour) \in {0, 1} /\ s.plan \subseteq Sleeves
  BY NowFacts DEF StrategyTypes, OwnTrade, PassPcs, ChasePcs, Threads
<1>4. /\ s' \in Threads /\ s'.day = s.day /\ s'.todo = {} /\ s'.cur = 0
      /\ \/ s'.pc = "top" /\ s'.pass = "none"
         \/ /\ s'.pc \in EntryPcs /\ s'.plan \subseteq s.plan /\ s'.plan # {} /\ s'.bias = s.bias /\ s'.pass = s.pass
            /\ (s'.pc = "record" => s'.plan = s.plan)
  <2>1. CASE Goto("record")
    <3>1. s' \in Threads /\ s'.pc = "record" /\ s'.day = s.day /\ s'.todo = {} /\ s'.cur = 0 /\ s'.plan = s.plan
          /\ s'.bias = s.bias /\ s'.pass = s.pass
      BY <1>3, <2>1 DEF Goto, Threads, EntryPcs
    <3>2. s.plan # {}
      BY DEF Plannable, EntryPcs
    <3> QED
      BY <3>1, <3>2 DEF EntryPcs
  <2>2. CASE ToTop
    BY <1>3, <2>2, OffFacts DEF ToTop
  <2>3. ASSUME NEW p \in SUBSET s.plan, p # {}, s' = [s EXCEPT !.pc = "place", !.plan = p, !.cur = 0]
        PROVE  /\ s' \in Threads /\ s'.pc = "place" /\ s'.day = s.day /\ s'.todo = {} /\ s'.cur = 0 /\ s'.plan = p
               /\ s'.bias = s.bias /\ s'.pass = s.pass
    <3>1. 0 \in 0..MaxTrades /\ p \in SUBSET Sleeves
      BY <1>3, <2>3, DrmaConstants
    <3> QED
      BY <1>3, <2>3, <3>1 DEF Threads, EntryPcs
  <2> QED
    BY <2>1, <2>2, <2>3 DEF Planned, EntryPcs
<1>5. StrategyTypes'
  BY <1>1, <1>4 DEF StrategyTypes
<1>6. OwnTrade'
  BY <1>2, <1>4 DEF OwnTrade, ChasePcs, PassPcs, EntryPcs
<1>7. Known'
  BY <1>1, <1>2, <1>3, <1>4 DEF Known, Remembers, PassPcs, ChasePcs, EntryPcs
<1>8. Plannable'
  <2>1. s'.pc \in EntryPcs => s'.plan \subseteq s.plan /\ s'.plan # {} /\ s'.bias = s.bias
    BY <1>4 DEF EntryPcs
  <2>2. s.pc \in EntryPcs
    BY DEF EntryPcs
  <2> QED
    BY <1>1, <1>2, <1>3, <2>1, <2>2 DEF Plannable
<1>9. Room'
  <2>1. s'.pc \in EntryPcs => Cardinality(s'.plan) <= Cardinality(s.plan) /\ Cardinality(s'.plan) \in Nat
    BY <1>4, TurnFacts DEF EntryPcs
  <2>2. Cardinality(UsedTrades) + Cardinality(s.plan) <= MaxTrades /\ Cardinality(UsedTrades) \in Nat
        /\ Cardinality(s.plan) \in Nat /\ MaxTrades \in Nat
    BY CountFacts, TurnFacts, DrmaConstants DEF Room, EntryPcs
  <2>3. s'.pc \in EntryPcs => Cardinality(UsedTrades) + Cardinality(s'.plan) <= MaxTrades
    BY <2>1, <2>2
  <2> QED
    BY <1>2, <1>4, <2>3 DEF Room, EntryPcs
<1>10. Dated'
  BY <1>1, <1>2, <1>3, <1>4 DEF Dated, PassPcs, ChasePcs, EntryPcs, Day
<1>11. Account'
  BY OrdersSame DEF Account, AccountTypes
<1> QED
  BY <1>2, <1>5, <1>6, <1>7, <1>8, <1>9, <1>10, <1>11

\* An opening order takes the next number.
LEMMA BoughtKeeps ==
  ASSUME DrmaInv, s.pc = "place", ~conf[Turn], UNCHANGED <<file, memory, wish, hour, oco, close>>,
         drmascene' \in [of : DrmaScenarios, left : Nat], drmascene'.of = drmascene.of,
         Bought("filled", 1) \/ (Bought("working", 0) /\ "slow" \in drmascene.of)
  PROVE  DrmaInv'
<1>. USE DEF DrmaInv, Strategy
<1>1. UNCHANGED <<file, pos, sim, count, conf, wish, hour, oco, close>>
  BY DEF memory
<1>2. s.pc \in EntryPcs /\ s \in Threads /\ s.todo = {} /\ s.cur = 0 /\ s.day \in {0, 1} /\ Day(hour) \in {0, 1}
      /\ s.plan \subseteq Sleeves
  BY NowFacts DEF StrategyTypes, OwnTrade, PassPcs, ChasePcs, Threads, EntryPcs
<1>3. /\ Cardinality(UsedTrades) + Cardinality(s.plan) <= MaxTrades /\ Cardinality(UsedTrades) \in Nat
      /\ Cardinality(s.plan) \in Nat \ {0} /\ MaxTrades \in Nat
  BY <1>2, CountFacts, TurnFacts, DrmaConstants DEF Room
<1>4. PICK e \in Trades : /\ e = Next1 /\ e \notin UsedTrades
                          /\ \A t \in Trades : t \in UsedTrades \cup {e} <=> t <= Cardinality(UsedTrades) + 1
  BY <1>3, NextFacts
<1>5. file[e].st = "none" /\ opening[e] = "none"
  BY <1>4 DEF UsedTrades
<1>6. /\ opening' \in [Trades -> OrderStates] /\ owned' \in [Trades -> {0, 1}]
      /\ \A t \in Trades : t # e => opening'[t] = opening[t] /\ owned'[t] = owned[t]
      /\ \/ opening'[e] = "filled" /\ owned'[e] = 1
         \/ opening'[e] = "working" /\ owned'[e] = 0 /\ "slow" \in drmascene.of
  BY <1>4 DEF Bought, Account, AccountTypes, OrderStates
<1>7. /\ s' \in Threads /\ s'.pc = "record" /\ s'.cur = e /\ s'.day = s.day /\ s'.todo = {} /\ s'.plan = s.plan
      /\ s'.bias = s.bias /\ s'.pass = s.pass
  <2>1. s' = [s EXCEPT !.pc = "record", !.cur = e] /\ e \in 0..MaxTrades
    BY <1>4 DEF Bought, Trades
  <2> QED
    BY <1>2, <2>1 DEF Threads, EntryPcs
<1>8. UsedTrades' = UsedTrades \cup {e} /\ Live' = Live /\ Limit' = Limit
  BY <1>1, <1>5, <1>6 DEF UsedTrades, Live, Limit
<1>9. Cardinality(UsedTrades') = Cardinality(UsedTrades) + 1
  BY <1>4, <1>8, CountFacts, FS_AddElement
<1>10. /\ \A x \in Sleeves : Of(x)' = Of(x)
       /\ \A x \in Sleeves, d \in {0, 1} : On(x, d)' = On(x, d)
  BY <1>1 DEF Of, On
<1>11. StrategyTypes'
  BY <1>1, <1>7 DEF StrategyTypes
<1>12. OwnTrade'
  BY <1>7, <1>8 DEF OwnTrade, ChasePcs, PassPcs, EntryPcs
<1>13. Known' /\ SideBySide' /\ Directed'
  BY <1>1, <1>2, <1>7, <1>8 DEF Known, Remembers, PassPcs, ChasePcs, EntryPcs, SideBySide, Directed, Beside
<1>14. Plannable'
  BY <1>1, <1>2, <1>7, <1>8, <1>10 DEF Plannable, EntryPcs
<1>15. InTurn'
  <2>1. Cardinality(UsedTrades) + 1 \in 0..MaxTrades
    BY <1>3
  <2> QED
    BY <1>4, <1>8, <2>1 DEF InTurn
<1>16. Room'
  <2>1. Turn' = Turn
    BY <1>7 DEF Turn
  <2>2. e # 0 /\ ~conf'[Turn'] /\ file'[e].st = "none" /\ e \in UsedTrades'
    BY <1>1, <1>5, <1>8, <2>1, DrmaConstants
  <2> QED
    BY <1>3, <1>7, <1>9, <2>2 DEF Room
<1>17. Dated'
  BY <1>1, <1>2, <1>7, <1>8, <1>10 DEF Dated, PassPcs, ChasePcs, EntryPcs, Day
<1>18. AccountTypes'
  BY <1>1, <1>6 DEF Account, AccountTypes
<1>19. AccountAgrees(e)'
  BY <1>1, <1>5, <1>6 DEF Account, AccountAgrees, Backed, Covered, Resting
<1>20. Account'
  BY <1>1, <1>6, <1>18, <1>19, AccountOne
<1> QED
  BY <1>11, <1>12, <1>13, <1>14, <1>15, <1>16, <1>17, <1>20
\* An opening order of a sleeve: on paper, bought, lingering or refused.
LEMMA PlaceKeeps ==
  ASSUME DrmaInv, PlaceDir \/ PlaceFut \/ PlaceCredit
  PROVE  DrmaInv'
<1>1. PICK x \in Sleeves : Opening(x)
  BY DEF PlaceDir, PlaceFut, PlaceCredit, Sleeves
<1>2. s.pc = "place" /\ Turn = x /\ UNCHANGED <<file, memory, wish, hour, oco, close>> /\ conf[x] \in BOOLEAN
  BY <1>1 DEF Opening, DrmaInv, Strategy, StrategyTypes
<1>3. Ordered(x) \/ (Refused(x) /\ (Goto("record") \/ \E p \in SUBSET s.plan : Planned(p)))
  <2>1. \A y \in Sleeves : Opening(y) => y = x
    BY <1>1 DEF Opening
  <2>2. {} \in SUBSET s.plan /\ s.plan \ {"dir"} \in SUBSET s.plan
    OBVIOUS
  <2>3. CASE PlaceDir
    BY <2>1, <2>2, <2>3 DEF PlaceDir, Sleeves
  <2>4. CASE PlaceFut
    BY <2>1, <2>2, <2>4 DEF PlaceFut, Sleeves
  <2>5. CASE PlaceCredit
    BY <2>1, <2>2, <2>5 DEF PlaceCredit, Sleeves
  <2> QED
    BY <2>3, <2>4, <2>5
<1>4. AccountTypes
  BY DEF DrmaInv, Account
<1>5. CASE Goto("record") /\ UNCHANGED <<opening, owned, drmascene>>
  BY <1>2, <1>4, <1>5, DrmaFaultFacts, PlaceGoesOn DEF orders
<1>6. CASE ~conf[x] /\ Bought("filled", 1) /\ UNCHANGED drmascene
  BY <1>2, <1>4, <1>6, DrmaFaultFacts, BoughtKeeps
<1>7. CASE ~conf[x] /\ DrmaFault("slow") /\ Bought("working", 0)
  BY <1>2, <1>4, <1>7, DrmaFaultFacts, BoughtKeeps
<1>8. CASE Refused(x) /\ (Goto("record") \/ \E p \in SUBSET s.plan : Planned(p))
  <2>1. DrmaFault("refuse") /\ UNCHANGED <<opening, owned>>
    BY <1>8 DEF Refused
  <2>2. drmascene' \in [of : DrmaScenarios, left : Nat] /\ drmascene'.of = drmascene.of
    BY <1>4, <2>1, DrmaFaultFacts
  <2>3. UNCHANGED <<file, memory, wish, hour, orders>>
    BY <1>2, <2>1 DEF orders
  <2> QED
    BY <1>2, <1>8, <2>2, <2>3, PlaceGoesOn
<1> QED
  BY <1>3, <1>5, <1>6, <1>7, <1>8 DEF Ordered

\* The trade that is recorded has a number of its own.
LEMMA EnteredFacts ==
  ASSUME DrmaInv, s.pc = "record"
  PROVE  /\ Entered \in Trades /\ file[Entered].st = "none" /\ oco[Entered] = "none" /\ close[Entered] = "none"
         /\ conf[Turn] => opening[Entered] = "none"
         /\ Cardinality(UsedTrades \cup {Entered}) + Cardinality(s.plan) <= MaxTrades + 1
         /\ \E m \in 0..MaxTrades : \A t \in Trades : t \in UsedTrades \cup {Entered} <=> t <= m
<1>. USE DEF DrmaInv, Strategy
<1>1. /\ Cardinality(UsedTrades) \in Nat /\ Cardinality(s.plan) \in Nat \ {0} /\ MaxTrades \in Nat
      /\ IsFiniteSet(UsedTrades)
  BY CountFacts, TurnFacts, DrmaConstants DEF EntryPcs
<1>2. CASE s.cur = 0
  <2>1. Cardinality(UsedTrades) + Cardinality(s.plan) <= MaxTrades
    BY <1>2 DEF Room
  <2>2. PICK e \in Trades : /\ e = Next1 /\ e \notin UsedTrades
                            /\ \A t \in Trades : t \in UsedTrades \cup {e} <=> t <= Cardinality(UsedTrades) + 1
    BY <1>1, <2>1, NextFacts
  <2>3. Entered = e /\ file[e].st = "none" /\ opening[e] = "none"
    BY <1>2, <2>2 DEF Entered, UsedTrades
  <2>4. Cardinality(UsedTrades \cup {e}) = Cardinality(UsedTrades) + 1
    BY <1>1, <2>2, FS_AddElement
  <2>5. oco[e] = "none" /\ close[e] = "none"
    BY <2>3 DEF Account, AccountAgrees, Backed
  <2>6. Cardinality(UsedTrades) + 1 \in 0..MaxTrades
    BY <1>1, <2>1
  <2>7. Cardinality(UsedTrades \cup {e}) + Cardinality(s.plan) <= MaxTrades + 1
    BY <1>1, <2>1, <2>4
  <2> QED
    BY <2>2, <2>3, <2>5, <2>6, <2>7
<1>3. CASE s.cur # 0
  <2>1. PICK e \in Trades : e = s.cur
    BY <1>3 DEF Room, UsedTrades
  <2>2. /\ Entered = e /\ e \in UsedTrades /\ file[e].st = "none" /\ ~conf[Turn]
        /\ Cardinality(UsedTrades) + Cardinality(s.plan) <= MaxTrades + 1
    BY <1>3, <2>1 DEF Room, Entered
  <2>3. UsedTrades \cup {e} = UsedTrades
    BY <2>2
  <2>4. oco[e] = "none" /\ close[e] = "none"
    BY <2>2 DEF Account, AccountAgrees, Backed
  <2> QED
    BY <2>1, <2>2, <2>3, <2>4 DEF InTurn
<1> QED
  BY <1>2, <1>3

\* A trade that is recorded keeps the sleeves in order.
LEMMA RecordKeeps ==
  ASSUME DrmaInv, NEW x \in Sleeves, RecordTrade(x),
         drmascene' \in [of : DrmaScenarios, left : Nat], drmascene'.of = drmascene.of
  PROVE  Strategy'
<1>. USE DEF DrmaInv, Strategy
<1>1. s.pc = "record" /\ Turn = x /\ s.pc \in EntryPcs /\ UNCHANGED <<wish, conf, hour, opening, close, owned>>
  BY DEF RecordTrade, EntryPcs
<1>2. /\ s \in Threads /\ s.todo = {} /\ s.day \in {0, 1} /\ hour \in 1..7 /\ Day(hour) \in {0, 1}
      /\ s.bias \in Sides /\ conf[x] \in BOOLEAN
  BY <1>1, NowFacts DEF StrategyTypes, OwnTrade, PassPcs, ChasePcs, Threads
<1>3. x \in s.plan /\ s.plan \subseteq Sleeves
  BY <1>1, TurnFacts
<1>4. PICK e \in Trades : e = Entered
  BY <1>1, EnteredFacts
<1>5. /\ file[e].st = "none" /\ e \notin Live
      /\ Cardinality(UsedTrades \cup {e}) + Cardinality(s.plan) <= MaxTrades + 1
      /\ \E m \in 0..MaxTrades : \A t \in Trades : t \in UsedTrades \cup {e} <=> t <= m
  BY <1>1, <1>4, EnteredFacts DEF Live
<1>6. /\ file' \in [Trades -> TradeFiles] /\ \A t \in Trades : t # e => file'[t] = file[t]
      /\ file'[e].st = "open" /\ file'[e].sleeve = x /\ file'[e].side = s.bias /\ file'[e].paper = conf[x]
      /\ file'[e].day = Day(hour)
  <2>. DEFINE r == [st |-> "open", sleeve |-> x, side |-> s.bias, paper |-> conf[x],
                    late |-> x = "fut" /\ Now = "night", day |-> Day(hour), oid |-> FALSE]
  <2>1. file' = [file EXCEPT ![e] = r]
    BY <1>4 DEF RecordTrade
  <2>2. (x = "fut" /\ Now = "night") \in BOOLEAN /\ FALSE \in BOOLEAN /\ "open" \in FileStates
    BY Zenon DEF FileStates
  <2>3. r \in TradeFiles
    <3>. HIDE DEF Now
    <3> QED  BY <1>2, <2>2, Zenon DEF TradeFiles
  <2>4. r.st = "open" /\ r.sleeve = x /\ r.side = s.bias /\ r.paper = conf[x] /\ r.day = Day(hour)
    BY Zenon
  <2>. HIDE DEF r
  <2> QED
    BY <2>1, <2>3, <2>4 DEF StrategyTypes
<1>7. /\ pos' \in [Sleeves -> Sides \cup {"flat"}] /\ sim' \in [Sleeves -> BOOLEAN] /\ count' \in [Sleeves -> Nat]
      /\ pos'[x] = s.bias /\ sim'[x] = conf[x] /\ count'[x] = count[x] + 1
      /\ \A y \in Sleeves : y # x => pos'[y] = pos[y] /\ sim'[y] = sim[y] /\ count'[y] = count[y]
  BY <1>2 DEF RecordTrade, StrategyTypes
<1>8. /\ s' \in Threads /\ s'.day = s.day /\ s'.todo = {} /\ s'.cur = 0
      /\ \/ s'.pc = "top" /\ s'.pass = "none"
         \/ /\ s'.pc = "place" /\ s'.plan = s.plan \ {x} /\ s'.plan # {} /\ s'.bias = s.bias /\ s'.pass = s.pass
  <2>1. Planned(s.plan \ {x})
    BY DEF RecordTrade
  <2>2. CASE s.plan \ {x} = {}
    BY <1>2, <2>1, <2>2, OffFacts, ZenonT(60) DEF Planned, ToTop
  <2>3. CASE s.plan \ {x} # {}
    <3>1. s' = [s EXCEPT !.pc = "place", !.plan = s.plan \ {x}, !.cur = 0]
      BY <2>1, <2>3 DEF Planned
    <3>2. 0 \in 0..MaxTrades /\ s.plan \ {x} \in SUBSET Sleeves
      BY <1>3, DrmaConstants
    <3> QED
      BY <1>2, <2>3, <3>1, <3>2 DEF Threads, EntryPcs
  <2> QED
    BY <2>2, <2>3
<1>9. Live' = Live \cup {e} /\ UsedTrades' = UsedTrades \cup {e} /\ Limit' = Limit
  BY <1>1, <1>5, <1>6 DEF Live, UsedTrades, Limit
<1>10. \A t \in Live : /\ t \in Trades /\ t # e /\ file'[t] = file[t] /\ file[t].sleeve \in Sleeves
                       /\ Beside(file[t], x, s.bias, conf[x])
  BY <1>1, <1>3, <1>5, <1>6 DEF Plannable, Live, StrategyTypes, TradeFiles
<1>11. StrategyTypes'
  BY <1>1, <1>6, <1>7, <1>8 DEF StrategyTypes
<1>12. OwnTrade'
  BY <1>8 DEF OwnTrade, ChasePcs, PassPcs
<1>13. Known'
  <2>1. Remembers(file[e])'
    BY <1>6, <1>7 DEF Remembers
  <2>2. ASSUME NEW t \in Live PROVE Remembers(file[t])'
    <3>1. Remembers(file[t])
      BY <1>1, <1>2 DEF Known
    <3>2. file[t].sleeve # x
      BY <1>10 DEF Beside
    <3> QED
      BY <1>7, <1>10, <3>1, <3>2 DEF Remembers
  <2> QED
    BY <1>8, <1>9, <2>1, <2>2 DEF Known, Remembers, PassPcs, ChasePcs
<1>14. SideBySide'
  <2>1. \A t \in Live : Beside(file'[t], x, s.bias, conf[x])
    BY <1>10
  <2>2. \A t \in Live : Beside(file'[e], file'[t].sleeve, file'[t].side, file'[t].paper)
    BY <1>6, <2>1 DEF Beside
  <2>3. \A t, u \in Live : t # u => Beside(file'[t], file'[u].sleeve, file'[u].side, file'[u].paper)
    BY <1>10 DEF SideBySide
  <2>4. \A t, u \in Live \cup {e} : t # u => Beside(file'[t], file'[u].sleeve, file'[u].side, file'[u].paper)
    BY <1>6, <2>1, <2>2, <2>3
  <2> QED
    BY <1>9, <2>4 DEF SideBySide, Beside
<1>15. Directed'
  <2>1. x = "dir" => s.bias \in Biases
    BY <1>1, <1>3 DEF Plannable
  <2> QED
    BY <1>6, <1>9, <1>10, <2>1 DEF Directed
<1>16. \A y \in Sleeves \ {x} : Of(y)' = Of(y)
  BY <1>5, <1>6 DEF Of
<1>17. \A y \in Sleeves, d \in {0, 1} : y # x \/ d # Day(hour) => On(y, d)' = On(y, d)
  BY <1>5, <1>6 DEF On
<1>18. /\ Cardinality(Of(x)') = Cardinality(Of(x)) + 1
       /\ Cardinality(On(x, Day(hour))') = Cardinality(On(x, Day(hour))) + 1
  <2>1. Of(x)' = Of(x) \cup {e} /\ On(x, Day(hour))' = On(x, Day(hour)) \cup {e}
    BY <1>1, <1>5, <1>6 DEF Of, On
  <2>2. e \notin Of(x) /\ e \notin On(x, Day(hour))
    BY <1>5 DEF Of, On
  <2>3. IsFiniteSet(Of(x)) /\ IsFiniteSet(On(x, Day(hour)))
    BY <1>2, CountFacts
  <2> QED
    BY <2>1, <2>2, <2>3, FS_AddElement
<1>19. Plannable'
  <2>1. CASE s'.pc = "top"
    BY <2>1 DEF Plannable, EntryPcs
  <2>2. CASE s'.pc = "place"
    <3>1. /\ s'.plan = s.plan \ {x} /\ s'.plan # {} /\ s'.bias = s.bias
      BY <1>8, <2>2
    <3>2. /\ ~({"dir", "credit"} \subseteq s'.plan) /\ ("dir" \in s'.plan => s'.bias \in Biases)
      BY <1>1, <3>1 DEF Plannable
    <3>3. ASSUME NEW y \in s'.plan
          PROVE  /\ \A t \in Live' : Beside(file'[t], y, s'.bias, conf'[y])
                 /\ Cardinality(On(y, Day(hour))') < Limit'
      <4>1. y \in s.plan /\ y # x /\ y \in Sleeves
        BY <3>1, <3>3, <1>3
      <4>2. \A t \in Live : Beside(file[t], y, s.bias, conf[y])
        BY <1>1, <4>1 DEF Plannable
      <4>3. Beside(file'[e], y, s.bias, conf[y])
        <5>1. ~(x = "dir" /\ y = "credit") /\ ~(x = "credit" /\ y = "dir")
          BY <1>1, <1>3, <4>1 DEF Plannable
        <5> QED
          BY <1>6, <4>1, <5>1 DEF Beside
      <4>4. Cardinality(On(y, Day(hour))) < Limit
        BY <1>1, <4>1 DEF Plannable
      <4> QED
        BY <1>1, <1>2, <1>9, <1>10, <1>17, <3>1, <4>1, <4>2, <4>3, <4>4
    <3> QED
      BY <1>1, <3>1, <3>2, <3>3 DEF Plannable, Beside
  <2> QED
    BY <1>8, <2>1, <2>2
<1>20. InTurn'
  BY <1>5, <1>9 DEF InTurn
<1>21. Room'
  <2>1. Cardinality(s.plan \ {x}) = Cardinality(s.plan) - 1 /\ Cardinality(s.plan) \in Nat
    BY <1>1, <1>3, TurnFacts
  <2>2. Cardinality(UsedTrades \cup {e}) \in Nat
    <3>1. IsFiniteSet(UsedTrades \cup {e})
      BY CountFacts, FS_AddElement
    <3> QED
      BY <3>1, FS_CardinalityType
  <2>3. Cardinality(UsedTrades \cup {e}) + Cardinality(s.plan \ {x}) <= MaxTrades
    BY <1>5, <2>1, <2>2, DrmaConstants
  <2> QED
    BY <1>8, <1>9, <2>3 DEF Room
<1>22. Dated'
  <2>1. \A t \in Trades : file'[t].st # "none" => file'[t].day <= Day(hour)
    BY <1>2, <1>6 DEF Dated
  <2>2. \A y \in Sleeves : Cardinality(Of(y)) \in Nat /\ \A d \in {0, 1} : Cardinality(On(y, d)) \in Nat
    BY CountFacts, DrmaConstants
  <2>3. \A y \in Sleeves : count'[y] <= Cardinality(Of(y)')
    BY <1>7, <1>16, <1>18, <2>2 DEF Dated, StrategyTypes
  <2>4. Cardinality(On(x, Day(hour))) < Limit /\ Limit \in Nat
    BY <1>1, <1>3, LimitFacts, DrmaConstants DEF Plannable
  <2>5. ASSUME NEW y \in Sleeves, NEW d \in {0, 1} PROVE Cardinality(On(y, d)') <= Limit
    <3>1. CASE y = x /\ d = Day(hour)
      <4>1. On(y, d)' = On(x, Day(hour))'
        BY <1>1, <3>1 DEF On, Day
      <4>2. Cardinality(On(x, Day(hour))) \in Nat
        BY <1>2, <2>2
      <4> QED
        BY <1>18, <2>4, <4>1, <4>2
    <3>2. CASE ~(y = x /\ d = Day(hour))
      BY <1>17, <3>2 DEF Dated
    <3> QED
      BY <3>1, <3>2
  <2>6. ASSUME s.day = Day(hour), NEW y \in Sleeves PROVE count'[y] = Cardinality(On(y, s.day)')
    <3>1. count[y] = Cardinality(On(y, s.day)) /\ s.day \in {0, 1}
      BY <1>1, <1>2, <2>6 DEF Dated
    <3>2. CASE y = x
      <4>1. On(y, s.day)' = On(x, Day(hour))' /\ On(y, s.day) = On(x, Day(hour))
        BY <1>1, <1>8, <2>6, <3>2 DEF On, Day
      <4> QED
        BY <1>7, <1>18, <3>1, <3>2, <4>1
    <3>3. CASE y # x
      <4>1. On(y, s.day)' = On(y, s.day)
        BY <1>5, <1>6, <1>8, <3>3 DEF On
      <4> QED
        BY <1>7, <3>1, <3>3, <4>1
    <3> QED
      BY <3>2, <3>3
  <2>7. s.day <= Day(hour) /\ (s'.pass = "warmup" => s.day = 1)
    BY <1>8 DEF Dated
  <2> QED
    BY <1>1, <1>8, <1>9, <2>1, <2>3, <2>5, <2>6, <2>7 DEF Dated, PassPcs, ChasePcs
<1> QED
  BY <1>11, <1>12, <1>13, <1>14, <1>15, <1>19, <1>20, <1>21, <1>22
\* A trade that is recorded keeps its account.
LEMMA OpenedKeeps ==
  ASSUME DrmaInv, NEW x \in Sleeves, RecordTrade(x),
         drmascene' \in [of : DrmaScenarios, left : Nat], drmascene'.of = drmascene.of,
         \/ UNCHANGED oco
         \/ oco' = [oco EXCEPT ![Entered] = "working"] /\ owned[Entered] # 0
  PROVE  DrmaInv'
<1>1. Strategy'
  BY RecordKeeps
<1>2. s.pc = "record" /\ Turn = x /\ UNCHANGED <<wish, conf, hour, opening, close, owned>>
  BY DEF RecordTrade
<1>3. PICK e \in Trades : /\ e = Entered /\ file[e].st = "none" /\ oco[e] = "none" /\ close[e] = "none"
                          /\ (conf[x] => opening[e] = "none")
  BY <1>2, EnteredFacts
<1>4. /\ \A t \in Trades : t # e => file'[t] = file[t]
      /\ file'[e].st = "open" /\ file'[e].sleeve = x /\ file'[e].paper = conf[x]
  BY <1>3 DEF RecordTrade, DrmaInv, Strategy, StrategyTypes
<1>5. AccountTypes'
  BY <1>2, <1>3 DEF DrmaInv, Account, AccountTypes, OrderStates
<1>6. /\ \A t \in Trades : t # e => oco'[t] = oco[t]
      /\ oco'[e] = "none" \/ (oco'[e] = "working" /\ owned[e] = 1)
  BY <1>3 DEF DrmaInv, Account, AccountTypes
<1>7. AccountAgrees(e)'
  <2>1. Backed(file[e], opening[e], oco[e], close[e], owned[e])'
    BY <1>2, <1>3, <1>4 DEF DrmaInv, Account, AccountAgrees, Backed
  <2>2. "slow" \notin drmascene.of => Covered(file[e], opening[e], oco[e], close[e], owned[e])'
    BY <1>2, <1>3, <1>4, <1>6 DEF DrmaInv, Account, AccountAgrees, Covered, Resting
  <2> QED
    BY <2>1, <2>2 DEF AccountAgrees
<1>8. Account'
  BY <1>2, <1>4, <1>5, <1>6, <1>7, AccountOne
<1> QED
  BY <1>1, <1>8 DEF DrmaInv

\* The trade file, the position, the counter, and the OCO order.
LEMMA RecordsKeep ==
  ASSUME DrmaInv, RecordDir \/ RecordFut \/ RecordCondor \/ RecordCredit
  PROVE  DrmaInv'
<1>1. AccountTypes /\ {"dir", "fut", "credit"} \subseteq Sleeves
  BY DEF DrmaInv, Account, Sleeves
<1>2. CASE RecordDir \/ RecordFut \/ RecordCondor
  BY <1>1, <1>2, OpenedKeeps, DrmaFaultFacts DEF RecordDir, RecordFut, RecordCondor
<1>3. CASE RecordCredit
  <2>1. /\ RecordTrade("credit")
        /\ drmascene' \in [of : DrmaScenarios, left : Nat] /\ drmascene'.of = drmascene.of
        /\ \/ UNCHANGED oco
           \/ oco' = [oco EXCEPT ![Entered] = "working"] /\ owned[Entered] # 0
    BY <1>1, <1>3, DrmaFaultFacts DEF RecordCredit
  <2> QED
    BY <1>1, <2>1, OpenedKeeps
<1> QED
  BY <1>2, <1>3

\* What the brokerage fills or cancels leaves the thread and the files alone.
LEMMA OuterKeeps ==
  ASSUME DrmaInv, UNCHANGED <<file, memory, wish, hour, s>>, drmascene'.of = drmascene.of,
         \A t \in Trades : opening'[t] # "none" <=> opening[t] # "none"
  PROVE  Strategy'
<1>. USE DEF DrmaInv, Strategy
<1>1. UNCHANGED <<file, pos, sim, count, conf, wish, hour, s>>
  BY DEF memory
<1>2. /\ UsedTrades' = UsedTrades
      /\ \A x \in Sleeves : Of(x)' = Of(x)
      /\ \A x \in Sleeves, d \in {0, 1} : On(x, d)' = On(x, d)
  BY <1>1, CountsSame
<1>3. Live' = Live /\ Limit' = Limit /\ Turn' = Turn
  BY <1>1 DEF Live, Limit, Turn
<1>4. StrategyTypes' /\ OwnTrade'
  BY <1>1, <1>3 DEF StrategyTypes, OwnTrade
<1>5. Known'
  BY <1>1, <1>3 DEF Known, Remembers
<1>6. SideBySide' /\ Directed'
  BY <1>1, <1>3 DEF SideBySide, Directed, Beside
<1>7. Plannable'
  <2>1. ASSUME NEW x \in s.plan, s.pc \in EntryPcs
        PROVE  /\ \A t \in Live' : Beside(file'[t], x, s'.bias, conf'[x])
               /\ Cardinality(On(x, Day(hour)))' < Limit'
    <3>1. Cardinality(On(x, Day(hour))) < Limit
      BY <2>1 DEF Plannable
    <3>2. On(x, Day(hour))' = On(x, Day(hour))
      BY <1>1 DEF On, Day
    <3>3. \A t \in Live : Beside(file[t], x, s.bias, conf[x])
      BY <2>1 DEF Plannable
    <3> QED
      BY <1>1, <1>3, <3>1, <3>2, <3>3
  <2> QED
    BY <1>1, <2>1 DEF Plannable, Beside
<1>8. InTurn' /\ Room'
  BY <1>1, <1>2, <1>3 DEF InTurn, Room
<1>9. Dated'
  BY <1>1, <1>2, <1>3 DEF Dated, On, Of, Day
<1> QED
  BY <1>4, <1>5, <1>6, <1>7, <1>8, <1>9

\* An opening order that lingered is filled: only where some linger.
LEMMA OpenFillKeeps ==
  ASSUME DrmaInv, NEW t \in Trades, OpenFill(t)
  PROVE  DrmaInv'
<1>1. /\ opening[t] = "working" /\ UNCHANGED <<file, memory, wish, hour, s, oco, close, drmascene>>
      /\ opening' = [opening EXCEPT ![t] = "filled"] /\ owned' = [owned EXCEPT ![t] = 1]
  BY DEF OpenFill, Outer
<1>2. /\ \A u \in Trades : u # t => opening'[u] = opening[u] /\ owned'[u] = owned[u]
      /\ opening'[t] = "filled" /\ owned'[t] = 1
  BY <1>1 DEF DrmaInv, Account, AccountTypes
<1>3. Strategy'
  BY <1>1, <1>2, OuterKeeps
<1>4. AccountTypes'
  BY <1>1 DEF DrmaInv, Account, AccountTypes, OrderStates
<1>5. AccountAgrees(t)'
  BY <1>1, <1>2 DEF DrmaInv, Account, AccountAgrees, Backed, Covered
<1>6. Account'
  BY <1>1, <1>2, <1>4, <1>5, AccountOne
<1> QED
  BY <1>3, <1>6 DEF DrmaInv

\* An OCO order or a closing order is filled: the spread is gone.
LEMMA CloseFillKeeps ==
  ASSUME DrmaInv, NEW t \in Trades, OcoFill(t) \/ CloseFill(t)
  PROVE  DrmaInv'
<1>1. /\ owned[t] = 1 /\ UNCHANGED <<file, memory, wish, hour, s, opening, drmascene>>
      /\ owned' = [owned EXCEPT ![t] = 0]
      /\ \/ /\ Resting(oco[t]) /\ oco' = [oco EXCEPT ![t] = "filled"] /\ UNCHANGED close
         \/ /\ Resting(close[t]) /\ close' = [close EXCEPT ![t] = "filled"] /\ UNCHANGED oco
  BY DEF OcoFill, CloseFill, Outer, Resting
<1>2. AccountTypes
  BY DEF DrmaInv, Account
<1>3. /\ \A u \in Trades : u # t => oco'[u] = oco[u] /\ close'[u] = close[u] /\ owned'[u] = owned[u]
      /\ owned'[t] = 0
      /\ \/ Resting(oco[t]) /\ oco'[t] = "filled" /\ close'[t] = close[t]
         \/ Resting(close[t]) /\ close'[t] = "filled" /\ oco'[t] = oco[t]
  BY <1>1, <1>2 DEF AccountTypes
<1>4. Strategy'
  BY <1>1, OuterKeeps
<1>5. AccountTypes'
  BY <1>1, <1>2 DEF AccountTypes, OrderStates
<1>6. AccountAgrees(t)'
  BY <1>1, <1>3 DEF DrmaInv, Account, AccountAgrees, Backed, Covered, Resting
<1>7. Account'
  BY <1>1, <1>3, <1>5, <1>6, AccountOne
<1> QED
  BY <1>4, <1>7 DEF DrmaInv

\* An order is cancelled, as it was asked to be.
LEMMA CancelledKeeps ==
  ASSUME DrmaInv, NEW t \in Trades, Cancelled(t)
  PROVE  DrmaInv'
<1>1. /\ UNCHANGED <<file, memory, wish, hour, s, opening, owned, drmascene>>
      /\ \/ /\ oco[t] = "canceling" /\ oco' = [oco EXCEPT ![t] = "cancelled"] /\ UNCHANGED close
         \/ /\ close[t] = "canceling" /\ close' = [close EXCEPT ![t] = "cancelled"] /\ UNCHANGED oco
  BY DEF Cancelled, Outer
<1>2. AccountTypes
  BY DEF DrmaInv, Account
<1>3. /\ \A u \in Trades : u # t => oco'[u] = oco[u] /\ close'[u] = close[u]
      /\ \/ oco[t] = "canceling" /\ oco'[t] = "cancelled" /\ close'[t] = close[t]
         \/ close[t] = "canceling" /\ close'[t] = "cancelled" /\ oco'[t] = oco[t]
  BY <1>1, <1>2 DEF AccountTypes
<1>4. Strategy'
  BY <1>1, OuterKeeps
<1>5. AccountTypes'
  BY <1>1, <1>2 DEF AccountTypes, OrderStates
<1>6. AccountAgrees(t)'
  BY <1>1, <1>3 DEF DrmaInv, Account, AccountAgrees, Backed, Covered, Resting
<1>7. Account'
  BY <1>1, <1>3, <1>5, <1>6, AccountOne
<1> QED
  BY <1>4, <1>7 DEF DrmaInv
\* The clock goes on; with the day, the counts of the new one begin at nothing.
LEMMA TickKeeps ==
  ASSUME DrmaInv, Tick
  PROVE  DrmaInv'
<1>. USE DEF DrmaInv, Strategy
<1>1. /\ UNCHANGED <<file, pos, sim, count, conf, wish, s, opening, orders, drmascene>> /\ hour \in 1..7
      /\ hour' = hour + 1 /\ hour' \in 1..7 /\ s.pc \in {"off", "top", "work", "record"}
  BY DEF Tick, memory, orders, StrategyTypes
<1>2. Account'
  BY <1>1, OrdersSame DEF Account, AccountTypes
<1>3. /\ Live' = Live /\ SideBySide' /\ Directed' /\ InTurn' /\ UsedTrades' = UsedTrades /\ Limit' = Limit
      /\ \A x \in Sleeves : Of(x)' = Of(x)
      /\ \A x \in Sleeves, d \in {0, 1} : On(x, d)' = On(x, d)
  BY <1>1, FilesSame
<1>4. StrategyTypes' /\ OwnTrade'
  BY <1>1, <1>3 DEF StrategyTypes, OwnTrade
<1>5. Known'
  BY <1>1, <1>3 DEF Known, Remembers
<1>6. Room'
  BY <1>1, <1>3 DEF Room, Turn
<1>7. CASE hour = 1
  <2>1. Day(hour) = 0 /\ Day(hour') = 1
    BY <1>1, <1>7 DEF Day
  <2>2. \A x \in Sleeves : On(x, 1) = {}
    BY <2>1 DEF Dated, On, StrategyTypes, TradeFiles
  <2>3. Plannable'
    <3>1. ASSUME NEW x \in s.plan, s.pc \in EntryPcs
          PROVE  /\ \A t \in Live' : Beside(file'[t], x, s'.bias, conf'[x])
                 /\ Cardinality(On(x, Day(hour)))' < Limit'
      <4>1. x \in Sleeves
        BY <3>1 DEF StrategyTypes, Threads
      <4>2. On(x, Day(hour))' = On(x, 1)
        BY <1>1, <2>1 DEF On
      <4>3. Cardinality(On(x, Day(hour))') = 0 /\ Limit \in 1..MaxTrades
        BY <2>2, <4>1, <4>2, FS_EmptySet, LimitFacts
      <4>4. \A t \in Live : Beside(file[t], x, s.bias, conf[x])
        BY <3>1 DEF Plannable
      <4> QED
        BY <1>1, <1>3, <4>3, <4>4, DrmaConstants
    <3> QED
      BY <1>1, <3>1 DEF Plannable, Beside
  <2>4. Dated'
    <3>1. s.day = 0
      BY <2>1 DEF Dated, StrategyTypes, Threads
    <3>2. \A t \in Trades : file[t].st # "none" => file[t].day <= 1
      BY <2>1 DEF Dated, StrategyTypes, TradeFiles
    <3>3. \A x \in Sleeves : On(x, Day(hour))' = {}
      BY <1>1, <2>1, <2>2 DEF On
    <3>4. Day(hour)' = 1
      BY <2>1 DEF Day
    <3>5. \A x \in Sleeves : count[x] <= Cardinality(Of(x)')
      BY <1>3 DEF Dated
    <3>6. \A x \in Sleeves, d \in {0, 1} : Cardinality(On(x, d)') <= Limit'
      BY <1>3 DEF Dated
    <3> QED
      BY <1>1, <3>1, <3>2, <3>3, <3>4, <3>5, <3>6 DEF Dated
  <2> QED
    BY <1>2, <1>3, <1>4, <1>5, <1>6, <2>3, <2>4
<1>8. CASE hour # 1
  <2>1. Day(hour)' = Day(hour)
    BY <1>1, <1>8 DEF Day
  <2>2. \A x \in Sleeves : On(x, Day(hour))' = On(x, Day(hour)) /\ On(x, s.day)' = On(x, s.day)
    BY <1>1, <2>1 DEF On
  <2>3. Plannable'
    <3>1. ASSUME NEW x \in s.plan, s.pc \in EntryPcs
          PROVE  /\ \A t \in Live' : Beside(file'[t], x, s'.bias, conf'[x])
                 /\ Cardinality(On(x, Day(hour)))' < Limit'
      <4>1. x \in Sleeves /\ Cardinality(On(x, Day(hour))) < Limit
        BY <3>1 DEF StrategyTypes, Threads, Plannable
      <4>2. \A t \in Live : Beside(file[t], x, s.bias, conf[x])
        BY <3>1 DEF Plannable
      <4> QED
        BY <1>1, <1>3, <2>2, <4>1, <4>2
    <3> QED
      BY <1>1, <3>1 DEF Plannable, Beside
  <2>4. Dated'
    <3>1. \A x \in Sleeves : count[x] <= Cardinality(Of(x)')
      BY <1>3 DEF Dated
    <3>2. \A x \in Sleeves, d \in {0, 1} : Cardinality(On(x, d)') <= Limit'
      BY <1>3 DEF Dated
    <3> QED
      BY <1>1, <2>1, <2>2, <3>1, <3>2 DEF Dated
  <2> QED
    BY <1>2, <1>3, <1>4, <1>5, <1>6, <2>3, <2>4
<1> QED
  BY <1>7, <1>8

\* The dashboard is heard at the next top of the loop, and not before.
LEMMA SwitchKeeps ==
  ASSUME DrmaInv, Switch
  PROVE  DrmaInv'
<1>1. AccountTypes
  BY DEF DrmaInv, Account
<1>2. /\ UNCHANGED <<file, memory, hour, s, orders, opening>>
      /\ drmascene' \in [of : DrmaScenarios, left : Nat] /\ drmascene'.of = drmascene.of
  BY <1>1, DrmaFaultFacts DEF Switch, orders
<1>3. wish' \in [Sleeves -> BOOLEAN]
  <2>1. PICK x \in {"dir", "credit"} : wish' = [wish EXCEPT ![x] = ~@]
    BY DEF Switch
  <2>2. x \in Sleeves
    BY DEF Sleeves
  <2> QED
    BY <1>1, <2>1, <2>2 DEF AccountTypes
<1>4. Account'
  BY <1>2, <1>3, OrdersSame
<1>5. Strategy'
  <2>1. UNCHANGED <<file, pos, sim, count, conf, hour, s, opening>> /\ s.pc \in {"off", "top"}
    BY <1>2 DEF memory, Switch
  <2>2. /\ Live' = Live /\ SideBySide' /\ Directed' /\ InTurn' /\ UsedTrades' = UsedTrades /\ Limit' = Limit
        /\ \A x \in Sleeves : Of(x)' = Of(x)
        /\ \A x \in Sleeves, d \in {0, 1} : On(x, d)' = On(x, d)
    BY <1>2, <2>1, FilesSame
  <2>3. StrategyTypes' /\ OwnTrade'
    BY <2>1, <2>2 DEF DrmaInv, Strategy, StrategyTypes, OwnTrade
  <2>4. Known'
    BY <2>1, <2>2 DEF DrmaInv, Strategy, Known, Remembers
  <2>5. Plannable' /\ Room'
    BY <2>1 DEF Plannable, Room, EntryPcs
  <2>6. Dated'
    <3>1. Day(hour)' = Day(hour) /\ (s.pc # "off" /\ s.day = Day(hour) => s.day \in {0, 1})
      BY <2>1 DEF DrmaInv, Strategy, StrategyTypes, Threads, Day
    <3>2. /\ \A x \in Sleeves : count[x] <= Cardinality(Of(x)')
          /\ \A x \in Sleeves, d \in {0, 1} : Cardinality(On(x, d)') <= Limit'
      BY <2>2 DEF DrmaInv, Strategy, Dated
    <3>3. \A x \in Sleeves : On(x, s.day)' = On(x, s.day)
      BY <2>1 DEF On
    <3> QED
      BY <2>1, <3>1, <3>2, <3>3 DEF DrmaInv, Strategy, Dated, PassPcs, ChasePcs
  <2> QED
    BY <2>2, <2>3, <2>4, <2>5, <2>6 DEF Strategy
<1> QED
  BY <1>4, <1>5 DEF DrmaInv

\* A crash forgets the thread, and with it what was planned.
LEMMA CrashKeeps ==
  ASSUME DrmaInv, Crash
  PROVE  DrmaInv'
<1>. USE DEF DrmaInv, Strategy
<1>1. AccountTypes
  BY DEF Account
<1>2. /\ UNCHANGED <<file, pos, sim, count, conf, wish, hour, orders, opening>> /\ s' = Off
      /\ drmascene' \in [of : DrmaScenarios, left : Nat] /\ drmascene'.of = drmascene.of
  BY <1>1, DrmaFaultFacts DEF Crash, orders, memory
<1>3. Account'
  BY <1>1, <1>2, OrdersSame DEF AccountTypes
<1>4. /\ Live' = Live /\ SideBySide' /\ Directed' /\ InTurn' /\ UsedTrades' = UsedTrades /\ Limit' = Limit
      /\ \A x \in Sleeves : Of(x)' = Of(x)
      /\ \A x \in Sleeves, d \in {0, 1} : On(x, d)' = On(x, d)
  BY <1>2, FilesSame
<1>5. s' \in Threads /\ s'.pc = "off" /\ s'.pass = "none" /\ s'.day = 0 /\ s'.todo = {} /\ s'.cur = 0
  BY <1>2, DrmaConstants DEF Off, Threads, Passes, Sides, Biases
<1>6. StrategyTypes' /\ OwnTrade'
  BY <1>2, <1>5 DEF StrategyTypes, OwnTrade, ChasePcs, PassPcs
<1>7. Known' /\ Plannable' /\ Room'
  BY <1>5 DEF Known, Plannable, Room, EntryPcs, PassPcs, ChasePcs
<1>8. Dated'
  <2>1. Day(hour) \in {0, 1}
    BY NowFacts DEF StrategyTypes
  <2>2. /\ \A x \in Sleeves : count[x] <= Cardinality(Of(x)')
        /\ \A x \in Sleeves, d \in {0, 1} : Cardinality(On(x, d)') <= Limit'
    BY <1>4 DEF Dated
  <2>3. Day(hour)' = Day(hour) /\ \A t \in Trades : file[t].st # "none" => file[t].day <= Day(hour)
    BY <1>2 DEF Day, Dated
  <2> QED
    BY <1>2, <1>5, <2>1, <2>2, <2>3 DEF Dated, PassPcs, ChasePcs
<1> QED
  BY <1>3, <1>4, <1>6, <1>7, <1>8

\* Session cleanup closes the file, and with an option the orders and the rest.
LEMMA SettledKeeps ==
  ASSUME DrmaInv, NEW t \in Trades, SettleTrade(t)
  PROVE  DrmaInv'
<1>. USE DEF DrmaInv, Strategy
<1>1. /\ UNCHANGED <<pos, sim, count, conf, wish, hour, s, drmascene>> /\ s.pc \in {"off", "top"} /\ t \in Live
      /\ s.todo = {} /\ s.cur = 0
  BY DEF SettleTrade, memory, OwnTrade, PassPcs, ChasePcs
<1>2. /\ file' \in [Trades -> TradeFiles] /\ file'[t].st = "closed"
      /\ \A u \in Trades : u # t => file'[u] = file[u]
      /\ file'[t].sleeve = file[t].sleeve /\ file'[t].day = file[t].day /\ file'[t].paper = file[t].paper
      /\ file[t].st # "none"
  BY <1>1 DEF SettleTrade, StrategyTypes, TradeFiles, FileStates, Live
<1>3. AccountTypes
  BY DEF Account
<1>4. /\ AccountTypes'
      /\ \A u \in Trades : u # t => /\ opening'[u] = opening[u] /\ oco'[u] = oco[u]
                                    /\ close'[u] = close[u] /\ owned'[u] = owned[u]
      /\ \/ /\ file[t].sleeve = "fut" /\ opening'[t] = opening[t] /\ oco'[t] = oco[t]
            /\ close'[t] = close[t] /\ owned'[t] = owned[t]
         \/ /\ owned'[t] = 0 /\ opening'[t] = (IF opening[t] = "working" THEN "expired" ELSE opening[t])
            /\ oco'[t] \in {"filled", "expired"} /\ close'[t] \in {"filled", "expired"}
  <2>1. CASE file[t].sleeve = "fut"
    BY <1>1, <1>3, <2>1 DEF SettleTrade, orders, AccountTypes
  <2>2. CASE file[t].sleeve # "fut"
    <3>1. /\ owned' = [owned EXCEPT ![t] = 0]
          /\ opening' = [opening EXCEPT ![t] = IF @ = "working" THEN "expired" ELSE @]
          /\ oco' = [oco EXCEPT ![t] = IF @ = "filled" THEN @ ELSE "expired"]
          /\ close' = [close EXCEPT ![t] = IF @ = "filled" THEN @ ELSE "expired"]
      BY <2>2 DEF SettleTrade
    <3> QED
      BY <1>1, <1>3, <3>1 DEF AccountTypes, OrderStates
  <2> QED
    BY <2>1, <2>2
<1>5. AccountAgrees(t)'
  BY <1>1, <1>2, <1>4 DEF Account, AccountAgrees, Backed, Covered, Resting
<1>6. Account'
  BY <1>1, <1>2, <1>3, <1>4, <1>5, AccountOne DEF AccountTypes
<1>7. Live' = Live \ {t} /\ Limit' = Limit
  BY <1>1, <1>2 DEF Live, Limit
<1>8. /\ UsedTrades' = UsedTrades
      /\ \A x \in Sleeves : Of(x)' = Of(x)
      /\ \A x \in Sleeves, d \in {0, 1} : On(x, d)' = On(x, d)
  <2>1. /\ \A u \in Trades : /\ file'[u].st # "none" <=> file[u].st # "none"
                             /\ file[u].st # "none" => file'[u].sleeve = file[u].sleeve /\ file'[u].day = file[u].day
        /\ \A u \in Trades : opening'[u] # "none" <=> opening[u] # "none"
    BY <1>2, <1>4
  <2> QED
    BY <2>1, CountsSame
<1>9. StrategyTypes'
  BY <1>1, <1>2 DEF StrategyTypes
<1>10. OwnTrade'
  BY <1>1, <1>7 DEF OwnTrade, ChasePcs, PassPcs
<1>11. Known'
  <2>1. \A u \in Live' : file'[u] = file[u] /\ u \in Live
    BY <1>2, <1>7 DEF Live
  <2> QED
    BY <1>1, <2>1 DEF Known, Remembers, PassPcs, ChasePcs
<1>12. SideBySide' /\ Directed'
  BY <1>2, <1>7 DEF SideBySide, Directed, Beside, Live
<1>13. Plannable' /\ Room'
  BY <1>1 DEF Plannable, Room, EntryPcs
<1>14. InTurn'
  BY <1>8 DEF InTurn
<1>15. Dated'
  <2>1. \A u \in Trades : file'[u].st # "none" => file'[u].day <= Day(hour)
    BY <1>1, <1>2 DEF Dated
  <2>2. s.day \in {0, 1} /\ Day(hour)' = Day(hour)
    BY <1>1 DEF StrategyTypes, Threads, Day
  <2> QED
    BY <2>1, <2>2, <1>1, <1>7, <1>8 DEF Dated, PassPcs, ChasePcs
<1> QED
  BY <1>6, <1>9, <1>10, <1>11, <1>12, <1>13, <1>14, <1>15
\* No trade, no order, and the thread is not running.
LEMMA DrmaStart ==
  ASSUME DrmaInit
  PROVE  DrmaInv
<1>1. /\ file = [t \in Trades |-> NoFile] /\ s = Off
      /\ opening = [t \in Trades |-> "none"] /\ oco = [t \in Trades |-> "none"] /\ close = [t \in Trades |-> "none"]
      /\ owned = [t \in Trades |-> 0] /\ hour \in {1, 4}
      /\ pos = [x \in Sleeves |-> "flat"] /\ sim = [x \in Sleeves |-> FALSE] /\ count = [x \in Sleeves |-> 0]
  BY DEF DrmaInit
<1>2. NoFile \in TradeFiles /\ NoFile.st = "none"
  <2>1. FALSE \in BOOLEAN /\ "none" \in FileStates /\ "dir" \in Sleeves /\ "BULL" \in Sides /\ 0 \in {0, 1}
    BY Zenon DEF FileStates, Sleeves, Sides, Biases
  <2>2. NoFile \in TradeFiles
    BY <2>1, Zenon DEF NoFile, TradeFiles
  <2> QED
    BY <2>2 DEF NoFile
<1>3. \A t \in Trades : file[t] = NoFile
  BY <1>1
<1>4. Off \in Threads /\ Off.pc = "off" /\ Off.pass = "none" /\ Off.todo = {} /\ Off.cur = 0 /\ Off.day = 0
  BY DrmaConstants DEF Off, Threads, Passes, Sides, Biases
<1>5. wish \in [Sleeves -> BOOLEAN] /\ conf \in [Sleeves -> BOOLEAN]
  <2>1. TRUE \in BOOLEAN /\ FALSE \in BOOLEAN
    OBVIOUS
  <2>2. wish \in [Sleeves -> {TRUE}] \/ wish \in [Sleeves -> {FALSE}]
    BY DEF DrmaInit
  <2>3. \A T \in SUBSET BOOLEAN : [Sleeves -> T] \subseteq [Sleeves -> BOOLEAN]
    OBVIOUS
  <2> QED
    BY <2>1, <2>2, <2>3 DEF DrmaInit
<1>6. Live = {} /\ UsedTrades = {}
  BY <1>1, <1>2, <1>3 DEF Live, UsedTrades
<1>7. /\ \A x \in Sleeves : Of(x) = {}
      /\ \A x \in Sleeves, d \in {0, 1} : On(x, d) = {}
  BY <1>2, <1>3 DEF Of, On
<1>8. StrategyTypes
  <2>1. file \in [Trades -> TradeFiles] /\ s \in Threads /\ hour \in 1..7
    BY <1>1, <1>2, <1>4
  <2>2. pos \in [Sleeves -> Sides \cup {"flat"}] /\ count \in [Sleeves -> Nat]
    BY <1>1
  <2>3. sim \in [Sleeves -> BOOLEAN]
    BY <1>1
  <2> QED
    BY <1>5, <2>1, <2>2, <2>3 DEF StrategyTypes
<1>9. AccountTypes
  <2>1. drmascene \in [of : DrmaScenarios, left : Nat]
    BY DrmaConstants DEF DrmaInit
  <2> QED
    BY <1>1, <1>5, <2>1 DEF AccountTypes, OrderStates
<1>10. OwnTrade /\ Known /\ SideBySide /\ Directed /\ Plannable /\ Room
  BY <1>1, <1>4, <1>6 DEF OwnTrade, Known, SideBySide, Directed, Plannable, Room, PassPcs, ChasePcs, EntryPcs
<1>11. InTurn
  <2>1. 0 \in 0..MaxTrades /\ \A t \in Trades : ~(t <= 0)
    BY DrmaConstants
  <2> QED
    BY <1>6, <2>1 DEF InTurn
<1>12. Dated
  <2>1. Day(hour) \in {0, 1} /\ Limit \in Nat
    BY <1>8, NowFacts, LimitFacts, DrmaConstants DEF StrategyTypes
  <2>2. \A t \in Trades : file[t].st = "none"
    BY <1>2, <1>3
  <2>3. \A x \in Sleeves : count[x] = 0 /\ Cardinality(Of(x)) = 0
    BY <1>1, <1>7, FS_EmptySet
  <2>4. \A x \in Sleeves, d \in {0, 1} : Cardinality(On(x, d)) = 0
    BY <1>7, FS_EmptySet
  <2> QED
    BY <1>1, <1>4, <2>1, <2>2, <2>3, <2>4 DEF Dated, PassPcs, ChasePcs
<1>13. \A t \in Trades : AccountAgrees(t)
  BY <1>1, <1>2, <1>3 DEF AccountAgrees, Backed, Covered, Resting
<1> QED
  BY <1>8, <1>9, <1>10, <1>11, <1>12, <1>13 DEF DrmaInv, Strategy, Account

\* No step breaks it.
LEMMA DrmaStep ==
  ASSUME DrmaInv, [DrmaNext]_drmavars
  PROVE  DrmaInv'
<1>1. CASE Start
  BY <1>1, StartKeeps
<1>2. CASE Halt \/ Bars \/ NoBars
  BY <1>2, HaltKeeps, BarsKeeps, NoBarsKeeps
<1>3. ASSUME NEW t \in Trades, Handle(t) PROVE DrmaInv'
  BY <1>3, LeaveKeeps, StayKeeps, OcoDoneKeeps, PaperExitKeeps, FuturesExitKeeps, SignalExitKeeps,
     CutoffExitKeeps, ClosingChaseKeeps DEF Handle
<1>4. CASE PassEnds
  BY <1>4, PassEndsKeeps
<1>5. CASE Chase
  BY <1>5, ChaseSendKeeps, ChasePollKeeps, ChaseRecheckKeeps, ChaseFinalKeeps DEF Chase
<1>6. CASE PlaceDir \/ PlaceFut \/ PlaceCredit
  BY <1>6, PlaceKeeps
<1>7. CASE RecordDir \/ RecordFut \/ RecordCredit \/ RecordCondor
  BY <1>7, RecordsKeep
<1>8. ASSUME NEW t \in Trades, OpenFill(t) \/ OcoFill(t) \/ CloseFill(t) \/ Cancelled(t) \/ SettleTrade(t)
      PROVE  DrmaInv'
  BY <1>8, OpenFillKeeps, CloseFillKeeps, CancelledKeeps, SettledKeeps
<1>9. CASE Tick \/ Switch \/ Crash
  BY <1>9, TickKeeps, SwitchKeeps, CrashKeeps
<1>10. CASE UNCHANGED drmavars
  <2>1. /\ UNCHANGED <<file, memory, wish, hour, s, opening, orders, drmascene>>
    BY <1>10 DEF drmavars, memory, orders
  <2>2. Strategy'
    BY <2>1, OuterKeeps
  <2>3. Account'
    BY <2>1, OrdersSame DEF DrmaInv, Account, AccountTypes
  <2> QED
    BY <2>2, <2>3 DEF DrmaInv
<1> QED
  BY <1>1, <1>2, <1>3, <1>4, <1>5, <1>6, <1>7, <1>8, <1>9, <1>10 DEF DrmaNext, Thread, World

\* The invariant holds of every behaviour of the strategy and its account.
THEOREM DrmaInvariant == DrmaSpec => []DrmaInv
<1>1. DrmaInit => DrmaInv
  BY DrmaStart
<1>2. DrmaInv /\ [DrmaNext]_drmavars => DrmaInv'
  BY DrmaStep
<1> QED
  BY <1>1, <1>2, PTL DEF DrmaSpec

\* It contains what is promised of the sleeves.
LEMMA DrmaPromise ==
  ASSUME DrmaInv
  PROVE  SleevesSound
<1>. USE DEF DrmaInv, Strategy, Account
<1>1. DrmaTypeOK
  <2>1. \A t \in Trades : file[t].st \in {"none", "open", "closing", "closed"} /\ owned[t] \in {0, 1}
    BY DEF StrategyTypes, AccountTypes, TradeFiles, FileStates
  <2>2. pos \in [Sleeves -> {"flat", "BULL", "BEAR", "NEUTRAL"}] /\ sim \in [Sleeves -> BOOLEAN]
    <3>1. Sides \cup {"flat"} = {"flat", "BULL", "BEAR", "NEUTRAL"}
      BY DEF Sides, Biases
    <3> QED
      BY <3>1, Zenon DEF StrategyTypes
  <2>3. count \in [Sleeves -> 0..MaxTrades]
    <3>1. ASSUME NEW x \in Sleeves PROVE count[x] \in 0..MaxTrades
      <4>1. count[x] \in Nat /\ count[x] <= Cardinality(Of(x)) /\ Cardinality(Of(x)) \in 0..MaxTrades
        BY CountFacts DEF StrategyTypes, Dated
      <4> QED
        BY <4>1, DrmaConstants
    <3> QED
      BY <3>1 DEF StrategyTypes
  <2>4. hour \in 1..7 /\ s.n \in 0..Rounds + 1 /\ s.cur \in 0..MaxTrades /\ s.todo \subseteq Trades
    BY DEF StrategyTypes, Threads
  <2>5. \A t \in Trades : {opening[t], oco[t], close[t]} \subseteq
          {"none", "working", "canceling", "cancelled", "filled", "expired"}
    BY DEF AccountTypes, OrderStates
  <2> QED
    BY <2>1, <2>2, <2>3, <2>4, <2>5 DEF DrmaTypeOK
<1>2. OneTradePerSleeve
  <2>1. ASSUME NEW x \in Sleeves PROVE Cardinality({t \in Live : file[t].sleeve = x}) <= 1
    <3>. DEFINE S == {t \in Live : file[t].sleeve = x}
    <3>1. \A t, u \in S : t = u
      BY DEF SideBySide, Beside
    <3>2. CASE S = {}
      BY <3>2, FS_EmptySet
    <3>3. CASE S # {}
      <4>1. PICK t : S = {t}
        BY <3>1, <3>3
      <4>2. Cardinality({t}) = 1
        BY FS_Singleton
      <4>. HIDE DEF S
      <4>3. Cardinality(S) <= 1
        BY <4>1, <4>2
      <4> QED
        BY <4>3 DEF S
    <3> QED
      BY <3>2, <3>3
  <2> QED
    BY <2>1 DEF OneTradePerSleeve
<1>3. NoSameSide
  BY DEF NoSameSide, SideBySide, Beside
<1>4. DailyLimits
  BY DEF DailyLimits, Dated, On
<1>5. ClosedIsFlat
  BY DEF ClosedIsFlat, AccountAgrees, Covered, Resting, Reserved
<1> QED
  BY <1>1, <1>2, <1>3, <1>4, <1>5 DEF SleevesSound

\* One trade to a sleeve, no debit and credit spread on the same side and in the
\* same mode, no more entries a day than the limit, and no closed file of a
\* spread the account still holds: over days, modes, crashes and restarts
\* (run, _evaluate_and_enter, _chase_options_spread_close, settle_open_trade).
THEOREM SleevesAreSound == DrmaSpec => []SleevesSound
<1>1. DrmaInv => SleevesSound
  BY DrmaPromise
<1> QED
  BY <1>1, DrmaInvariant, PTL
=============================================================================
