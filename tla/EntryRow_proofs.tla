--------------------------- MODULE EntryRow_proofs ---------------------------
(***************************************************************************)
(* For every size of a row, any number of attempts, orders and faults: a   *)
(* MEIC row whose replies are not lost and whose file has one writer at a  *)
(* time sends one opening order at a time, none once something is bought;  *)
(* a failed row is flat at the broker and an open trade records what was   *)
(* bought.  With a second writer two orders still never work at once.      *)
(*                                                                         *)
(* Why it holds: only the last order can work or have bought anything      *)
(* (LastOnly), because each order is sent while the book is flat.  A first *)
(* attempt finds it flat because only a flat row is pending, a later one   *)
(* because the worker's file is about the last order and a file that calls *)
(* an order over is right about it (Truth).  The broker's answers are not  *)
(* needed for that.  Where a second writer may put an older file in place  *)
(* they are what keeps a second order from working (Alone), but not from   *)
(* being sent beside a part that is held.                                  *)
(***************************************************************************)
EXTENDS EntryRow, FiniteSetTheorems, SequenceTheorems, TLAPS

(* --- the broker's book and the trade file -------------------------------- *)
Orders == [status : OrderStatus, filled : 0 .. Qty, asked : BOOLEAN]

\* os is a book: what is working is not filled, what is filled is filled whole.
BookOK(os) ==
    /\ os \in Seq(Orders)
    /\ \A i \in 1 .. Len(os) : /\ os[i].status = "filled" => os[i].filled = Qty
                               /\ os[i].status = "working" => os[i].filled < Qty

\* nothing of os is bought and nothing of it can be
Flat(os) == \A i \in 1 .. Len(os) : os[i].status # "working" /\ os[i].filled = 0

\* none but the last order of os has bought anything or can
LastOnly(os) ==
    \A i \in 1 .. Len(os) : i < Len(os) => os[i].status # "working" /\ os[i].filled = 0

\* the same of the orders that work, whatever is bought
Dead(os) == \A i \in 1 .. Len(os) : os[i].status # "working"
LastWorks(os) == \A i \in 1 .. Len(os) : i < Len(os) => os[i].status # "working"

\* ns is os after something happened to working orders
Moved(os, ns) ==
    /\ BookOK(ns) /\ Len(ns) = Len(os)
    /\ \A i \in 1 .. Len(os) :
          os[i].status # "working" => ns[i].status = os[i].status /\ ns[i].filled = os[i].filled

Files == [status : {"none", "pending_fill", "open"}, oid : Nat, filled : 0 .. Qty,
          order : {"none", "visibility_unknown"} \cup OrderStatus, full : BOOLEAN,
          blind : BOOLEAN, last : {"none", "working", "visibility_unknown", "cancelled"},
          sure : BOOLEAN, legs : 0 .. 2,
          phase : {"fast", "resolved", "estimated", "confirm", "error"} \cup Dropped,
          snap : BOOLEAN]

\* what a file says of an order that is over
Truth(os, f) ==
    f.order \in Dropped \cup {"filled"} =>
        f.oid # 0 /\ os[f.oid].status = f.order /\ os[f.oid].filled = f.filled

FileOK(os, f) == f \in Files /\ f.oid <= Len(os) /\ Truth(os, f)

(* --- the inductive invariant --------------------------------------------- *)
Stages == {"idle", "top", "place", "raise", "write", "record", "poll", "reconcile", "cancel",
           "confirm", "cancelled", "unknown", "handoff", "finalize", "report"}
Workers == [pc : Stages, n : 0 .. Attempts, oid : Nat, path : BOOLEAN, got : Files,
            says : {"none", "failed", "entering", "entered"}]
Rows == [state : {"pending", "entering", "placing", "entered", "failed"}, path : BOOLEAN]

Types ==
    /\ kind \in Kinds /\ fired \in BOOLEAN /\ latched \in BOOLEAN /\ faults \in 0 .. MaxFaults
    /\ BookOK(orders)
    /\ FileOK(orders, file) /\ FileOK(orders, peek) /\ FileOK(orders, w.got)
    /\ w \in Workers /\ w.oid <= Len(orders)
    /\ row \in Rows

\* where the worker is, in every scenario
Here ==
    /\ At("idle") => w = NoWorker
    /\ ~At("idle") => row.state \in {"entering", "placing"}
    /\ At("top") => (w.n > 0 => w.path) /\ (kind # "meic" => w.n < Attempts)
    /\ At("report") => w.says # "none"
    /\ At("write") => w.oid # 0
    /\ At("write") \/ w.path => w.oid = Len(orders)
    /\ w.path => file.oid # 0
    /\ w.pc \in {"record", "poll", "reconcile", "cancel", "confirm", "cancelled", "unknown",
                 "handoff", "finalize"} => w.path
    /\ w.pc \in {"handoff", "finalize"} => w.got.oid # 0
    /\ At("finalize") => kind # "meic"
    /\ w.pc \in {"reconcile", "cancel", "confirm", "cancelled", "unknown"} => kind = "meic"
    /\ peek # NoFile => peek.oid # 0 /\ "race" \in happens

\* what a guarded row relies on
Guard == Guarded =>
    /\ LastOnly(orders)
    /\ row.state \in {"pending", "failed"} => Flat(orders)
    /\ w.pc \in {"top", "place", "raise", "cancelled"} => Flat(orders)
    /\ At("report") /\ w.says = "failed" => Flat(orders)
    /\ w.pc \in {"record", "poll", "reconcile", "cancel", "confirm"} => file.oid = Len(orders)

\* what a watched row relies on beside a second writer
Alone == Watched /\ "race" \in happens =>
    /\ LastWorks(orders)
    /\ row.state = "pending" => Dead(orders)
    /\ At("top") /\ ~w.path => Dead(orders)
    /\ At("place") => Dead(orders)

IInv == Types /\ Here /\ Guard /\ Alone

(* --- lemmas about the book ----------------------------------------------- *)
LEMMA Sizes == /\ Qty \in Nat /\ Qty > 0 /\ Attempts \in Nat /\ Attempts > 0 /\ MaxFaults \in Nat
               /\ Kinds \subseteq {"meic", "manual", "butterfly"}
BY EntryAssumption

LEMMA BookIs ==
  ASSUME NEW os, BookOK(os)
  PROVE  /\ Len(os) \in Nat /\ DOMAIN os = 1 .. Len(os)
         /\ \A i \in 1 .. Len(os) : os[i] \in Orders
BY LenProperties, ElementOfSeq DEF BookOK

\* What happens to working orders leaves the files right, a flat book flat and
\* the last order the only one that counts.
LEMMA MovedKeeps ==
  ASSUME NEW os, NEW ns, BookOK(os), Moved(os, ns)
  PROVE  /\ \A f : FileOK(os, f) => FileOK(ns, f)
         /\ Flat(os) => Flat(ns)
         /\ LastOnly(os) => LastOnly(ns)
         /\ Dead(os) => Dead(ns)
         /\ LastWorks(os) => LastWorks(ns)
         /\ BookOK(ns) /\ Len(ns) = Len(os)
<1>1. Len(os) \in Nat
  BY BookIs
<1>2. ASSUME NEW f, FileOK(os, f) PROVE FileOK(ns, f)
  <2>1. f \in Files /\ f.oid \in Nat /\ f.oid <= Len(os) /\ Truth(os, f)
    BY <1>2 DEF FileOK, Files
  <2>2. ASSUME f.order \in Dropped \cup {"filled"}
        PROVE  f.oid # 0 /\ ns[f.oid].status = f.order /\ ns[f.oid].filled = f.filled
    <3>1. f.oid \in 1 .. Len(os) /\ os[f.oid].status = f.order /\ os[f.oid].filled = f.filled
      BY <1>1, <2>1, <2>2 DEF Truth
    <3>2. f.order # "working"
      BY <2>2 DEF Dropped
    <3> QED
      BY <3>1, <3>2 DEF Moved
  <2> QED
    BY <2>1, <2>2 DEF FileOK, Truth, Moved
<1> QED
  BY <1>1, <1>2 DEF Moved, Flat, LastOnly, Dead, LastWorks

\* One order of the book is replaced by what became of it.
LEMMA OneMoves ==
  ASSUME NEW os, BookOK(os), NEW i \in 1 .. Len(os), NEW o \in Orders,
         o.status = "filled" => o.filled = Qty,
         o.status = "working" => o.filled < Qty,
         os[i].status = "working" \/ (o.status = os[i].status /\ o.filled = os[i].filled)
  PROVE  Moved(os, [os EXCEPT ![i] = o])
<1> DEFINE ns == [os EXCEPT ![i] = o]
<1>1. Len(os) \in Nat /\ DOMAIN os = 1 .. Len(os) /\ os \in Seq(Orders)
  BY BookIs DEF BookOK
<1>2. ns \in Seq(Orders) /\ Len(ns) = Len(os)
      /\ \A j \in 1 .. Len(os) : ns[j] = IF j = i THEN o ELSE os[j]
  BY <1>1, ExceptSeq
<1> HIDE DEF ns
<1>3. BookOK(ns)
  BY <1>1, <1>2 DEF BookOK
<1>4. Moved(os, ns)
  BY <1>1, <1>2, <1>3 DEF Moved
<1> QED
  BY <1>4 DEF ns

\* A request to cancel changes nothing that counts.
LEMMA AskedMoves ==
  ASSUME NEW os, BookOK(os), NEW i
  PROVE  Moved(os, [os EXCEPT ![i].asked = TRUE])
<1>1. Len(os) \in Nat /\ DOMAIN os = 1 .. Len(os) /\ os \in Seq(Orders)
  BY BookIs DEF BookOK
<1>2. CASE i \in 1 .. Len(os)
  <2> DEFINE o == [os[i] EXCEPT !.asked = TRUE]
  <2>1. os[i] \in Orders
    BY <1>2, BookIs
  <2>2. o \in Orders /\ o.status = os[i].status /\ o.filled = os[i].filled
    BY <2>1 DEF Orders
  <2>3. /\ os[i].status = "filled" => os[i].filled = Qty
        /\ os[i].status = "working" => os[i].filled < Qty
    BY <1>2 DEF BookOK
  <2>4. [os EXCEPT ![i].asked = TRUE] = [os EXCEPT ![i] = o]
    OBVIOUS
  <2> HIDE DEF o
  <2>5. Moved(os, [os EXCEPT ![i] = o])
    BY <1>2, <2>2, <2>3, OneMoves
  <2> QED
    BY <2>4, <2>5
<1>3. CASE i \notin 1 .. Len(os)
  <2>1. [os EXCEPT ![i].asked = TRUE] = os
    BY <1>1, <1>3
  <2> QED
    BY <2>1 DEF Moved
<1> QED
  BY <1>2, <1>3

\* New orders leave the files right; one new order in a flat book is the only
\* one that counts.
LEMMA BookGrows ==
  ASSUME NEW os, BookOK(os), NEW n \in {1, 2}
  PROVE  LET ns == os \o [i \in 1 .. n |-> NewOrder]
         IN  /\ BookOK(ns) /\ Len(ns) = Len(os) + n
             /\ \A f : FileOK(os, f) => FileOK(ns, f)
             /\ Flat(os) /\ n = 1 => LastOnly(ns)
             /\ Dead(os) /\ n = 1 => LastWorks(ns)
<1> DEFINE more == [i \in 1 .. n |-> NewOrder]
           ns == os \o more
<1>1. Len(os) \in Nat /\ DOMAIN os = 1 .. Len(os) /\ os \in Seq(Orders)
  BY BookIs DEF BookOK
<1>2. NewOrder \in Orders /\ NewOrder.status = "working" /\ NewOrder.filled < Qty /\ n \in Nat
  BY Sizes DEF NewOrder, Orders, OrderStatus
<1>3. more \in Seq(Orders) /\ Len(more) = n
  BY <1>2, IsASeq, LenProperties
<1>4. \A i \in 1 .. n : more[i] = NewOrder
  OBVIOUS
<1> HIDE DEF more
<1>5. /\ ns \in Seq(Orders) /\ Len(ns) = Len(os) + n
      /\ \A i \in 1 .. Len(os) + n : ns[i] = IF i <= Len(os) THEN os[i] ELSE more[i - Len(os)]
  BY <1>1, <1>3, ConcatProperties
<1> HIDE DEF ns
<1>6. \A i \in 1 .. Len(os) + n : ns[i] = IF i <= Len(os) THEN os[i] ELSE NewOrder
  <2> SUFFICES ASSUME NEW i \in 1 .. Len(os) + n, ~(i <= Len(os)) PROVE ns[i] = NewOrder
    BY <1>5
  <2>1. i - Len(os) \in 1 .. n
    BY <1>1, <1>2
  <2> QED
    BY <1>4, <1>5, <2>1
<1>7. BookOK(ns)
  BY <1>1, <1>2, <1>5, <1>6 DEF BookOK
<1>8. ASSUME NEW f, FileOK(os, f) PROVE FileOK(ns, f)
  <2>1. f.oid \in Nat /\ f.oid <= Len(os)
    BY <1>8 DEF FileOK, Files
  <2>2. f.oid # 0 => ns[f.oid] = os[f.oid]
    BY <1>1, <1>2, <1>6, <2>1
  <2> QED
    BY <1>1, <1>2, <1>5, <1>8, <2>1, <2>2 DEF FileOK, Truth
<1>9. /\ Flat(os) /\ n = 1 => LastOnly(ns)
      /\ Dead(os) /\ n = 1 => LastWorks(ns)
  BY <1>1, <1>5, <1>6 DEF Flat, LastOnly, Dead, LastWorks
<1> QED
  BY <1>5, <1>7, <1>8, <1>9 DEF ns, more

\* the book's Working and Held as functions of the book
WorkingIn(os) == {i \in DOMAIN os : os[i].status = "working"}
HeldIn(os) == Cardinality({c \in (DOMAIN os) \X (1 .. Qty) : c[2] <= os[c[1]].filled})

\* Something is bought, or can be, in a book that is not flat.
LEMMA FlatCounts ==
  ASSUME NEW os, BookOK(os)
  PROVE  /\ Flat(os) <=> WorkingIn(os) = {} /\ HeldIn(os) = 0
         /\ HeldIn(os) \in Nat
<1> DEFINE Bits == (DOMAIN os) \X (1 .. Qty)
           Got == {c \in Bits : c[2] <= os[c[1]].filled}
<1>1. /\ Len(os) \in Nat /\ DOMAIN os = 1 .. Len(os)
      /\ \A i \in 1 .. Len(os) : os[i].filled \in 0 .. Qty
  BY BookIs DEF Orders
<1>2. IsFiniteSet(Bits)
  <2>1. IsFiniteSet(1 .. Len(os)) /\ IsFiniteSet(1 .. Qty)
    BY <1>1, Sizes, FS_Interval
  <2>2. IsFiniteSet((1 .. Len(os)) \X (1 .. Qty))
    BY <2>1, FS_Product
  <2> QED
    BY <1>1, <2>2
<1>3. IsFiniteSet(Got) /\ HeldIn(os) = Cardinality(Got) /\ HeldIn(os) \in Nat
  <2>1. Got \subseteq Bits
    OBVIOUS
  <2>2. HeldIn(os) = Cardinality(Got)
    BY DEF HeldIn
  <2> HIDE DEF Got, Bits
  <2> QED
    BY <1>2, <2>1, <2>2, FS_Subset, FS_CardinalityType
<1>4. HeldIn(os) = 0 <=> Got = {}
  <2> HIDE DEF Got
  <2> QED
    BY <1>3, FS_EmptySet
<1>5. Got = {} <=> \A i \in 1 .. Len(os) : os[i].filled = 0
  <2>1. ASSUME NEW c \in Got PROVE c[1] \in 1 .. Len(os) /\ os[c[1]].filled # 0
    <3>1. c[1] \in 1 .. Len(os) /\ c[2] \in 1 .. Qty /\ c[2] <= os[c[1]].filled
      BY <1>1
    <3> QED
      BY <1>1, <3>1, Sizes
  <2>2. ASSUME NEW i \in 1 .. Len(os), os[i].filled # 0 PROVE Got # {}
    <3>1. <<i, 1>> \in Bits
      BY <1>1, Sizes
    <3>2. 1 <= os[i].filled
      BY <1>1, <2>2, Sizes
    <3> QED
      BY <3>1, <3>2
  <2> HIDE DEF Got
  <2> QED
    BY <2>1, <2>2
<1>6. WorkingIn(os) = {} <=> \A i \in 1 .. Len(os) : os[i].status # "working"
  BY <1>1 DEF WorkingIn
<1> QED
  BY <1>3, <1>4, <1>5, <1>6 DEF Flat

\* Where only the last order counts, the row has bought what that order bought.
LEMMA HeldIsLast ==
  ASSUME NEW os, BookOK(os), LastOnly(os), NEW n, n = Len(os), n # 0
  PROVE  HeldIn(os) = os[n].filled /\ WorkingIn(os) \subseteq {n}
<1> DEFINE Bits == (DOMAIN os) \X (1 .. Qty)
           Got == {c \in Bits : c[2] <= os[c[1]].filled}
           m == os[n].filled
<1>1. /\ n \in Nat /\ n \in 1 .. n /\ DOMAIN os = 1 .. n
      /\ \A i \in 1 .. n : os[i].filled \in 0 .. Qty
      /\ m \in 0 .. Qty /\ m \in Nat
  <2>1. n \in Nat /\ DOMAIN os = 1 .. n /\ \A i \in 1 .. n : os[i].filled \in 0 .. Qty
    BY BookIs DEF Orders
  <2> QED
    BY <2>1, Sizes
<1>2. \A i \in 1 .. n : i # n => os[i].status # "working" /\ os[i].filled = 0
  BY <1>1 DEF LastOnly
<1>3. Got = {n} \X (1 .. m)
  <2>1. ASSUME NEW c \in Got PROVE c \in {n} \X (1 .. m)
    <3>1. c \in (1 .. n) \X (1 .. Qty) /\ c[2] <= os[c[1]].filled
      BY <1>1
    <3>2. c[1] = n
      BY <1>1, <1>2, <3>1, Sizes
    <3>3. c[2] \in 1 .. m
      BY <1>1, <3>1, <3>2, Sizes
    <3> QED
      BY <3>1, <3>2, <3>3
  <2>2. ASSUME NEW c \in {n} \X (1 .. m) PROVE c \in Got
    <3>1. c = <<n, c[2]>> /\ c[2] \in 1 .. m
      OBVIOUS
    <3>2. c[2] \in 1 .. Qty /\ c[2] <= m
      BY <1>1, <3>1, Sizes
    <3> QED
      BY <1>1, <3>1, <3>2
  <2> QED
    BY <2>1, <2>2
<1>4. Cardinality({n} \X (1 .. m)) = m
  <2> HIDE DEF m
  <2>1. IsFiniteSet({n}) /\ Cardinality({n}) = 1
    BY FS_Singleton
  <2>2. IsFiniteSet(1 .. m) /\ Cardinality(1 .. m) = m
    <3>1. m \in Int /\ (1 > m <=> m = 0) /\ m - 1 + 1 = m
      BY <1>1
    <3> QED
      BY <3>1, FS_Interval
  <2>3. Cardinality({n} \X (1 .. m)) = Cardinality({n}) * Cardinality(1 .. m)
    BY <2>1, <2>2, FS_Product
  <2>4. Cardinality({n} \X (1 .. m)) = 1 * m
    BY <2>1, <2>2, <2>3
  <2> QED
    BY <1>1, <2>4
<1>5. HeldIn(os) = m
  BY <1>3, <1>4 DEF HeldIn
<1> QED
  BY <1>1, <1>2, <1>5 DEF WorkingIn
LEMMA FlatMeans ==
  ASSUME BookOK(orders)
  PROVE  /\ Flat(orders) <=> Working = {} /\ Held = 0
         /\ Held \in Nat
BY FlatCounts DEF Working, WorkingIn, Held, HeldBy, HeldIn

(* --- lemmas about the file ----------------------------------------------- *)
LEMMA NoFileOK == BookOK(orders) => FileOK(orders, NoFile)
BY BookIs, Sizes DEF FileOK, Files, Truth, NoFile, Dropped, OrderStatus

\* What the broker answers is what the order is, unless an error hides it.
LEMMA AnswerIs ==
  ASSUME BookOK(orders), NEW i \in 1 .. Len(orders), NEW a \in Answers(i)
  PROVE  \/ a.kind \in {"blind", "noise"}
         \/ /\ a.kind = "seen" /\ a.status = orders[i].status /\ a.filled = orders[i].filled
            /\ a.status \in OrderStatus /\ a.filled \in 0 .. Qty /\ a.legs \in 0 .. 2
            /\ a.status = "filled" => a.filled = Qty
<1>1. orders[i].status \in OrderStatus /\ orders[i].filled \in 0 .. Qty
  BY BookIs DEF Orders
<1>2. orders[i].status = "filled" => orders[i].filled = Qty
  BY DEF BookOK
<1>3. CASE a \in [kind : {"blind", "noise"} \cap happens, status : {"rejected"}, filled : {0},
                  legs : {0}]
  BY <1>3
<1>4. CASE a \in [kind : {"seen"}, status : {orders[i].status}, filled : {orders[i].filled},
                  legs : IF orders[i].filled = 0 \/ kind = "butterfly" THEN {0}
                         ELSE IF "legs" \in happens THEN 0 .. 2 ELSE {2}]
  <2>1. a.legs \in 0 .. 2
    BY <1>4
  <2> QED
    BY <1>1, <1>2, <1>4, <2>1
<1> QED
  BY <1>3, <1>4 DEF Answers

\* Nothing but the status of a file and its phase: what Truth speaks about stays.
LEMMA FileStays ==
  ASSUME NEW os, NEW f, FileOK(os, f), NEW g \in Files,
         g.oid = f.oid, g.order = f.order, g.filled = f.filled
  PROVE  FileOK(os, g)
BY DEF FileOK, Truth

LEMMA Promoted ==
  ASSUME NEW g \in Files
  PROVE  /\ Promote(g) \in Files
         /\ Promote(g).oid = g.oid /\ Promote(g).order = g.order /\ Promote(g).filled = g.filled
BY DEF Promote, Files

\* The file written from an answer is about the same order and right about it.
LEMMA AppliedIs ==
  ASSUME BookOK(orders), NEW f, FileOK(orders, f), f.oid # 0, NEW a \in Answers(f.oid)
  PROVE  FileOK(orders, Applied(f, a)) /\ Applied(f, a).oid = f.oid
<1> DEFINE g == LegUpdates(f, a)
           p == Promote(g)
<1>1. f \in Files /\ f.oid \in 1 .. Len(orders) /\ Len(orders) \in Nat
  BY BookIs DEF FileOK, Files
<1>2. CASE a.kind # "seen"
  BY <1>2 DEF Applied
<1>3. CASE a.kind = "seen"
  <2>1. /\ a.status = orders[f.oid].status /\ a.filled = orders[f.oid].filled
        /\ a.status \in OrderStatus /\ a.filled \in 0 .. Qty /\ a.legs \in 0 .. 2
        /\ a.status = "filled" => a.filled = Qty
    BY <1>1, <1>3, AnswerIs
  <2>2. /\ g \in Files /\ g.oid = f.oid /\ g.order = a.status /\ g.filled = a.filled
    <3>1. (IF a.status = "filled" THEN Qty ELSE a.filled) = a.filled
      BY <2>1
    <3> QED
      BY <1>1, <2>1, <3>1 DEF LegUpdates, Files
  <2> HIDE DEF g
  <2>3. FileOK(orders, g)
    BY <1>1, <2>1, <2>2 DEF FileOK, Truth
  <2>4. /\ p \in Files /\ p.oid = g.oid /\ p.order = g.order /\ p.filled = g.filled
    BY <2>2, Promoted
  <2> HIDE DEF p
  <2>5. CASE a.status \in Dropped
    <3> DEFINE h == [g EXCEPT !.status = "pending_fill", !.phase = a.status]
    <3>1. Applied(f, a) = h
      BY <1>3, <2>5 DEF Applied, g
    <3>2. h \in Files /\ h.oid = g.oid /\ h.order = g.order /\ h.filled = g.filled
      BY <2>2, <2>5 DEF Files
    <3> HIDE DEF h
    <3> QED
      BY <2>2, <2>3, <3>1, <3>2, FileStays
  <2>6. CASE a.status \notin Dropped
    <3> DEFINE h == [p EXCEPT !.status = IF @ = "open" THEN @ ELSE "pending_fill"]
    <3>1. Applied(f, a) = h
      BY <1>3, <2>6 DEF Applied, g, p
    <3>2. h \in Files /\ h.oid = g.oid /\ h.order = g.order /\ h.filled = g.filled
      BY <2>4 DEF Files
    <3> HIDE DEF h
    <3> QED
      BY <2>2, <2>3, <3>1, <3>2, FileStays
  <2> QED
    BY <2>5, <2>6
<1> QED
  BY <1>2, <1>3

\* So is the file that the sync of the stop monitor's process writes.
LEMMA SyncedIs ==
  ASSUME BookOK(orders), NEW f, FileOK(orders, f), f.oid # 0, NEW a \in Answers(f.oid),
         NEW s \in Synced(f, a)
  PROVE  FileOK(orders, s) /\ s.oid = f.oid
<1> DEFINE g == Applied(f, a)
<1>1. FileOK(orders, g) /\ g.oid = f.oid /\ g \in Files
  BY AppliedIs DEF FileOK
<1> HIDE DEF g
<1>2. ASSUME NEW h \in Files, h.oid = g.oid, h.order = g.order, h.filled = g.filled
      PROVE  FileOK(orders, h) /\ h.oid = f.oid
  BY <1>1, <1>2, FileStays
<1>3. ASSUME NEW h \in Files, h.oid = g.oid, h.order = g.order, h.filled = g.filled
      PROVE  FileOK(orders, Promote(h)) /\ Promote(h).oid = f.oid
  BY <1>2, <1>3, Promoted
<1>4. /\ \A c \in {"resolved", "confirm", "error"} : [g EXCEPT !.phase = c] \in Files
      /\ [g EXCEPT !.phase = "estimated", !.legs = 2] \in Files
  <2>1. \A c \in {"resolved", "confirm", "error"} : [g EXCEPT !.phase = c] \in Files
    BY <1>1 DEF Files
  <2>2. \A l \in 0 .. 2 : [g EXCEPT !.phase = "estimated", !.legs = l] \in Files
    BY <1>1 DEF Files
  <2> QED
    BY <2>1, <2>2
<1>5. \/ s = g
      \/ s = Promote([g EXCEPT !.phase = "resolved"])
      \/ s = Promote([g EXCEPT !.phase = "estimated", !.legs = 2])
      \/ s = [g EXCEPT !.phase = "error"]
      \/ s = [g EXCEPT !.phase = "confirm"]
  BY DEF Synced, Estimates, g
<1>6. /\ \A c \in {"resolved", "confirm", "error"} :
            LET h == [g EXCEPT !.phase = c]
            IN  h.oid = g.oid /\ h.order = g.order /\ h.filled = g.filled
      /\ LET h == [g EXCEPT !.phase = "estimated", !.legs = 2]
         IN  h.oid = g.oid /\ h.order = g.order /\ h.filled = g.filled
  BY <1>1 DEF Files
<1> QED
  BY <1>1, <1>2, <1>3, <1>4, <1>5, <1>6

LEMMA CostsIs ==
  ASSUME faults \in 0 .. MaxFaults, NEW a, Costs(a)
  PROVE  faults' \in 0 .. MaxFaults
BY Sizes DEF Costs

\* What a sync of the worker leaves.
LEMMA SyncIs ==
  ASSUME Types, file.oid # 0, NEW a, Sync(a), UNCHANGED orders
  PROVE  /\ FileOK(orders', file') /\ file'.oid = file.oid
         /\ faults' \in 0 .. MaxFaults /\ latched' \in BOOLEAN
<1>1. BookOK(orders) /\ FileOK(orders, file) /\ a \in Answers(file.oid) /\ file \in Files
  BY DEF Types, Sync, FileOK
<1>2. faults' \in 0 .. MaxFaults /\ latched' \in BOOLEAN
  BY CostsIs DEF Types, Sync
<1>3. CASE a.kind = "blind"
  <2>1. file' = Blinded(file)
    BY <1>3 DEF Sync
  <2>2. Blinded(file) \in Files /\ Blinded(file).oid = file.oid
        /\ Blinded(file).order = "visibility_unknown"
    BY <1>1 DEF Blinded, Files
  <2>3. FileOK(orders, Blinded(file))
    BY <1>1, <2>2 DEF FileOK, Truth, Dropped
  <2> QED
    BY <1>2, <2>1, <2>2, <2>3
<1>4. CASE a.kind # "blind"
  <2>1. file' = Applied(file, a)
    BY <1>4 DEF Sync
  <2> QED
    BY <1>1, <1>2, <2>1, AppliedIs
<1> QED
  BY <1>3, <1>4

(* --- the steps ----------------------------------------------------------- *)
LEMMA StaysMoved == BookOK(orders) => Moved(orders, orders)
BY DEF Moved

LEMMA NoWorkerIs ==
  /\ NoWorker \in Workers /\ NoWorker.pc = "idle" /\ NoWorker.path = FALSE /\ NoWorker.oid = 0
  /\ NoWorker.got = NoFile
<1>1. NoFile \in Files
  BY Sizes DEF NoFile, Files, OrderStatus, Dropped
<1> QED
  BY <1>1, Sizes DEF NoWorker, Workers, Stages

LEMMA FillMoves ==
  ASSUME Types, NEW i \in DOMAIN orders, Fill(i)
  PROVE  Moved(orders, orders')
<1> DEFINE o == [orders[i] EXCEPT !.filled = @ + 1,
                                  !.status = IF orders[i].filled + 1 = Qty THEN "filled" ELSE @]
<1>1. BookOK(orders) /\ i \in 1 .. Len(orders) /\ orders[i] \in Orders
      /\ orders[i].status = "working"
  BY BookIs DEF Types, Fill, Working
<1>2. orders[i].filled < Qty
  BY <1>1 DEF BookOK
<1>3. /\ o \in Orders
      /\ o.status = "filled" => o.filled = Qty
      /\ o.status = "working" => o.filled < Qty
  <2>1. /\ o.filled = orders[i].filled + 1 /\ o.asked = orders[i].asked
        /\ o.status = IF orders[i].filled + 1 = Qty THEN "filled" ELSE "working"
    BY <1>1 DEF Orders
  <2>2. orders[i].filled + 1 \in 0 .. Qty /\ orders[i].asked \in BOOLEAN
    BY <1>1, <1>2, Sizes DEF Orders
  <2>3. o \in Orders
    <3>1. \A k \in 0 .. Qty, t \in OrderStatus :
            [orders[i] EXCEPT !.filled = k, !.status = t] \in Orders
      BY <1>1 DEF Orders
    <3>2. o = [orders[i] EXCEPT !.filled = orders[i].filled + 1, !.status = o.status]
      BY <1>1, <2>1 DEF Orders
    <3>3. o.status \in OrderStatus
      BY <2>1 DEF OrderStatus
    <3> HIDE DEF o
    <3> QED
      BY <2>2, <3>1, <3>2, <3>3
  <2>4. o.status = "working" => orders[i].filled + 1 # Qty
    BY <2>1
  <2>5. o.status = "filled" => orders[i].filled + 1 = Qty
    BY <2>1
  <2> HIDE DEF o
  <2> QED
    BY <2>1, <2>2, <2>3, <2>4, <2>5, Sizes
<1>4. orders' = [orders EXCEPT ![i] = o]
  BY DEF Fill
<1> HIDE DEF o
<1> QED
  BY <1>1, <1>3, <1>4, OneMoves

LEMMA DropMoves ==
  ASSUME Types, NEW i \in DOMAIN orders, Drop(i)
  PROVE  Moved(orders, orders')
<1>1. BookOK(orders) /\ i \in 1 .. Len(orders) /\ orders[i] \in Orders
      /\ orders[i].status = "working"
  BY BookIs DEF Types, Drop, Working
<1>2. PICK s \in Dropped : orders' = [orders EXCEPT ![i].status = s]
  BY DEF Drop, Dropped
<1> DEFINE o == [orders[i] EXCEPT !.status = s]
<1>3. /\ o \in Orders
      /\ o.status = "filled" => o.filled = Qty
      /\ o.status = "working" => o.filled < Qty
  BY <1>1, <1>2 DEF Orders, OrderStatus, Dropped
<1>4. orders' = [orders EXCEPT ![i] = o]
  BY <1>2
<1> HIDE DEF o
<1> QED
  BY <1>1, <1>3, <1>4, OneMoves

LEMMA BrokerKeeps == IInv /\ Broker => IInv'
<1> SUFFICES ASSUME IInv, NEW i \in DOMAIN orders, Fill(i) \/ Drop(i) PROVE IInv'
  BY DEF Broker
<1> USE DEF IInv
<1>1. /\ UNCHANGED <<kind, happens, file, row, fired, w, peek, latched>>
      /\ faults' \in 0 .. MaxFaults
  BY Sizes DEF Fill, Drop, Fault, Types
<1>2. Moved(orders, orders')
  BY FillMoves, DropMoves
<1>3. /\ \A f : FileOK(orders, f) => FileOK(orders', f)
      /\ Flat(orders) => Flat(orders')
      /\ LastOnly(orders) => LastOnly(orders')
      /\ Dead(orders) => Dead(orders')
      /\ LastWorks(orders) => LastWorks(orders')
      /\ BookOK(orders') /\ Len(orders') = Len(orders)
  BY <1>2, MovedKeeps DEF Types
<1>4. Types'
  BY <1>1, <1>3 DEF Types
<1>5. Here'
  BY <1>1, <1>3 DEF Here, At
<1>6. Guard'
  BY <1>1, <1>3 DEF Guard, Guarded, At
<1>7. Alone'
  BY <1>1, <1>3 DEF Alone, Watched, At
<1> QED
  BY <1>4, <1>5, <1>6, <1>7

LEMMA SpawnKeeps == IInv /\ Spawn => IInv'
<1> SUFFICES ASSUME IInv, Spawn PROVE IInv'
  OBVIOUS
<1> USE DEF IInv
<1>1. kind' = kind /\ happens' = happens
  BY DEF Spawn
<1>2. Types'
  BY <1>1 DEF Types, Spawn, Goto, Workers, Stages, Claimed, Rows
<1>3. Here'
  BY <1>1, Sizes DEF Types, Here, Spawn, Goto, At, Workers, NoWorker, Claimed, Rows
<1>4. Guard'
  BY <1>1 DEF Types, Here, Guard, Guarded, Spawn, Goto, At, Workers, NoWorker, Claimed, Rows,
       ShouldFire
<1>a. Alone'
  BY <1>1 DEF Types, Here, Alone, Watched, At, Spawn, Goto, NoWorker, Workers, Claimed, ShouldFire
<1> QED
  BY <1>1, <1>2, <1>3, <1>4, <1>a

LEMMA AttemptKeeps == IInv /\ Attempt => IInv'
<1> SUFFICES ASSUME IInv, Attempt PROVE IInv'
  OBVIOUS
<1> USE DEF IInv
<1>1. kind' = kind /\ happens' = happens
  BY DEF Attempt
<1>5. ASSUME Watched, "race" \in happens, w.path, w'.pc = "place"
      PROVE  Dead(orders)
  <2>1. LastWorks(orders) /\ w.oid = Len(orders) /\ Len(orders) \in Nat
        /\ DOMAIN orders = 1 .. Len(orders)
    BY <1>5, BookIs DEF Alone, Here, Types
  <2>2. PICK same \in LastPick : ~BrokerRefuses(same)
    BY <1>5 DEF Attempt, At, Goto, Return, Types, Workers, Watched, Fault
  <2>3. w.oid \in same /\ w.oid \in DOMAIN orders /\ w.oid \notin Working
    BY <2>2 DEF LastPick, BrokerRefuses
  <2>4. orders[Len(orders)].status # "working"
    BY <2>1, <2>3 DEF Working
  <2> QED
    BY <2>1, <2>4 DEF LastWorks, Dead
<1>2. Types'
  <2>1. w' \in Workers /\ w'.got = w.got /\ w'.oid = w.oid
    <3>1. w \in Workers
      BY DEF Types
    <3>2. ~Exhausted => w.n + 1 \in 0 .. Attempts
      BY <3>1, Sizes DEF Workers, Exhausted
    <3>3. CASE ~Exhausted /\ w' = [w EXCEPT !.pc = "place", !.n = @ + 1]
      BY <3>1, <3>2, <3>3 DEF Workers, Stages
    <3>4. CASE \E p \in {"raise"} : Goto(p)
      BY <3>1, <3>4 DEF Workers, Stages, Goto
    <3>5. CASE Return("failed") \/ Return("entering")
      BY <3>1, <3>5 DEF Workers, Stages, Return
    <3> QED
      BY <3>3, <3>4, <3>5 DEF Attempt
  <2>2. faults' \in 0 .. MaxFaults
    BY Sizes DEF Types, Attempt, Fault
  <2> QED
    BY <1>1, <2>1, <2>2 DEF Types, Attempt
<1>3. Here'
  BY <1>1, ZenonT(60) DEF Types, Here, Attempt, Return, Goto, At, Workers
<1>4. Guard'
  BY <1>1, <1>5, ZenonT(60) DEF Types, Here, Guard, Guarded, Attempt, Return, Goto, At, Workers,
       Stages
<1>a. Alone'
  BY <1>1, <1>5, ZenonT(60) DEF Types, Here, Alone, Watched, At, Attempt, Return, Goto, Workers,
       Stages
<1> QED
  BY <1>1, <1>2, <1>3, <1>4, <1>a

LEMMA RaiseKeeps == IInv /\ Raise => IInv'
<1> SUFFICES ASSUME IInv, Raise PROVE IInv'
  OBVIOUS
<1> USE DEF IInv
<1>1. kind' = kind /\ happens' = happens
  BY DEF Raise
<1>5. \/ w' = NoWorker
      \/ /\ ~w.path /\ w' \in Workers /\ w'.got = w.got /\ w'.oid = w.oid /\ ~w'.path
         /\ w'.pc = "report" /\ w'.says = "failed"
  BY DEF Raise, Types, Return, Workers, Stages
<1>2. Types'
  BY <1>1, <1>5, NoWorkerIs, NoFileOK DEF Types, Raise
<1>3. Here'
  BY <1>1, <1>5, NoWorkerIs DEF Types, Here, Raise, At
<1>4. Guard'
  BY <1>1, <1>5, NoWorkerIs DEF Types, Here, Guard, Guarded, Raise, At
<1>a. Alone'
  BY <1>1, <1>5, NoWorkerIs DEF Types, Here, Alone, Watched, At, Raise
<1> QED
  BY <1>1, <1>2, <1>3, <1>4, <1>a

LEMMA ReportKeeps == IInv /\ Report => IInv'
<1> SUFFICES ASSUME IInv, Report PROVE IInv'
  OBVIOUS
<1> USE DEF IInv
<1>1. kind' = kind /\ happens' = happens
  BY DEF Report
<1>2. Types'
  BY <1>1, NoFileOK, NoWorkerIs DEF Types, Here, Report, At, Workers, Rows
<1>3. Here'
  BY <1>1 DEF Types, Here, Report, At, Workers, NoWorker
<1>4. Guard'
  BY <1>1 DEF Types, Here, Guard, Guarded, Report, At, Workers, NoWorker, Rows
<1>a. Alone'
  BY <1>1, NoWorkerIs DEF Types, Here, Alone, Watched, At, Report, Workers
<1> QED
  BY <1>1, <1>2, <1>3, <1>4, <1>a

LEMMA FinalizeKeeps == IInv /\ Finalize => IInv'
<1> SUFFICES ASSUME IInv, Finalize PROVE IInv'
  OBVIOUS
<1> USE DEF IInv
<1>1. kind' = kind /\ happens' = happens
  BY DEF Finalize
<1>2. Types'
  BY <1>1 DEF Types, Finalize, HandOver, Return, Workers, Stages
<1>3. Here'
  BY <1>1 DEF Types, Here, Finalize, HandOver, Return, At, Workers
<1>4. Guard'
  BY <1>1 DEF Types, Here, Guard, Guarded, Finalize, HandOver, Return, At, Workers
<1>a. Alone'
  BY <1>1 DEF Types, Here, Alone, Watched, At, Finalize
<1> QED
  BY <1>1, <1>2, <1>3, <1>4, <1>a

LEMMA LatchKeeps == IInv /\ Latch => IInv'
<1> SUFFICES ASSUME IInv, Latch PROVE IInv'
  OBVIOUS
<1> USE DEF IInv
<1>1. kind' = kind /\ happens' = happens
  BY DEF Latch
<1>2. Types'
  BY <1>1, Sizes DEF Types, Latch, Fault
<1>3. Here'
  BY <1>1 DEF Here, Latch, At
<1>4. Guard'
  BY <1>1 DEF Guard, Guarded, Latch, At
<1>a. Alone'
  BY <1>1 DEF Types, Here, Alone, Watched, At, Latch
<1> QED
  BY <1>1, <1>2, <1>3, <1>4, <1>a

LEMMA ResumeKeeps == IInv /\ Resume => IInv'
<1> SUFFICES ASSUME IInv, Resume PROVE IInv'
  OBVIOUS
<1> USE DEF IInv
<1>1. kind' = kind /\ happens' = happens
  BY DEF Resume
<1>2. Types'
  BY <1>1 DEF Types, Resume
<1>3. Here'
  BY <1>1 DEF Here, Resume, At
<1>4. Guard'
  BY <1>1 DEF Guard, Guarded, Resume, At
<1>a. Alone'
  BY <1>1 DEF Types, Here, Alone, Watched, At, Resume
<1> QED
  BY <1>1, <1>2, <1>3, <1>4, <1>a

LEMMA CrashKeeps == IInv /\ Crash => IInv'
<1> SUFFICES ASSUME IInv, Crash PROVE IInv'
  OBVIOUS
<1> USE DEF IInv
<1>1. kind' = kind /\ happens' = happens
  BY DEF Crash
<1>2. Types'
  <2>1. faults' \in 0 .. MaxFaults
    BY Sizes DEF Types, Crash, Fault
  <2>2. /\ w' \in Workers /\ w'.oid <= Len(orders')
        /\ FileOK(orders', w'.got) /\ BookOK(orders')
    BY NoFileOK, NoWorkerIs, BookIs DEF Types, Crash
  <2> QED
    BY <1>1, <2>1, <2>2 DEF Types, Crash
<1>3. Here'
  BY <1>1 DEF Types, Here, Crash, At, NoWorker
<1>4. Guard'
  BY <1>1 DEF Here, Guard, Guarded, Crash, At, NoWorker
<1>a. Alone'
  BY <1>1, NoWorkerIs DEF Types, Here, Alone, Watched, At, Crash
<1> QED
  BY <1>1, <1>2, <1>3, <1>4, <1>a

LEMMA ResetKeeps == IInv /\ Reset => IInv'
<1> SUFFICES ASSUME IInv, Reset PROVE IInv'
  OBVIOUS
<1> USE DEF IInv
<1>1. kind' = kind /\ happens' = happens
  BY DEF Reset
<1>2. Types'
  <2>1. BookOK(orders') /\ orders' = orders /\ FileOK(orders', file')
    BY NoFileOK DEF Types, Reset
  <2>2. row' \in Rows
    BY DEF Types, Reset, Rows
  <2>3. faults' \in 0 .. MaxFaults
    BY Sizes DEF Types, Reset, Fault
  <2> QED
    BY <1>1, <2>1, <2>2, <2>3 DEF Types, Reset
<1>3. Here'
  BY <1>1 DEF Types, Here, Reset, At, NoWorker
<1>4. Guard'
  BY <1>1 DEF Types, Here, Guard, Guarded, Reset, Fault, At, NoWorker, Rows
<1>a. Alone'
  BY <1>1 DEF Types, Here, Alone, Watched, At, Reset, Fault, NoWorker
<1> QED
  BY <1>1, <1>2, <1>3, <1>4, <1>a

\* A file about the last order that says it is over and bought nothing is right.
LEMMA OverIsFlat ==
  ASSUME BookOK(orders), LastOnly(orders), NEW f, FileOK(orders, f), f.oid = Len(orders),
         f.order \in Dropped, ~Bought(f)
  PROVE  Flat(orders)
<1>1. f.oid # 0 /\ orders[f.oid].status = f.order /\ orders[f.oid].filled = f.filled
  BY DEF FileOK, Truth
<1>2. f.filled = 0
  BY Sizes DEF FileOK, Files, Bought
<1>3. orders[f.oid].status # "working"
  BY <1>1 DEF Dropped
<1>4. Len(orders) \in Nat
  BY BookIs
<1> QED
  BY <1>1, <1>2, <1>3, <1>4 DEF LastOnly, Flat

LEMMA RetryKeeps == IInv /\ Retry => IInv'
<1> SUFFICES ASSUME IInv, Retry PROVE IInv'
  OBVIOUS
<1> USE DEF IInv
<1>1. kind' = kind /\ happens' = happens
  BY DEF Retry
<1>5. Moved(orders, orders')
  <2>1. orders' = orders \/ orders' = [orders EXCEPT ![w.oid].asked = TRUE]
    BY DEF Retry
  <2>2. BookOK(orders)
    BY DEF Types
  <2>3. Moved(orders, orders) /\ Moved(orders, [orders EXCEPT ![w.oid].asked = TRUE])
    BY <2>2, AskedMoves, StaysMoved, Zenon
  <2> QED
    BY <2>1, <2>3
<1>6. /\ \A f : FileOK(orders, f) => FileOK(orders', f)
      /\ BookOK(orders') /\ Len(orders') = Len(orders)
  BY <1>5, MovedKeeps DEF Types
<1>2. Types'
  <2>1. w' \in Workers /\ w'.oid = w.oid /\ w'.got \in {w.got, file}
    <3>1. w \in Workers /\ file \in Files
      BY DEF Types, FileOK
    <3>2. CASE w' = [w EXCEPT !.pc = "place", !.n = @ + 1] /\ ~latched
      <4>1. w.n + 1 \in 0 .. Attempts
        BY <3>1, Sizes DEF Here, Retry, Workers
      <4> QED
        BY <3>1, <3>2, <4>1 DEF Workers, Stages
    <3>3. CASE w' = [w EXCEPT !.pc = "finalize", !.got = file]
      BY <3>1, <3>3 DEF Workers, Stages
    <3>4. CASE Return("failed")
      BY <3>1, <3>4 DEF Workers, Stages, Return
    <3> QED
      BY <3>2, <3>3, <3>4 DEF Retry
  <2>2. faults' \in 0 .. MaxFaults
    BY Sizes DEF Types, Retry, Fault
  <2> QED
    BY <1>1, <1>6, <2>1, <2>2 DEF Types, Retry
<1>3. Here'
  BY <1>1, <1>6, ZenonT(60) DEF Types, Here, Retry, Return, At, Workers
<1>4. Guard'
  BY <1>1 DEF Types, Guard, Guarded, Retry
<1>a. Alone'
  BY <1>1 DEF Types, Here, Alone, Watched, At, Retry
<1> QED
  BY <1>1, <1>2, <1>3, <1>4, <1>a

\* What sending an order leaves.
LEMMA SentIs ==
  ASSUME Types, NEW n \in {1, 2}, Sent(n)
  PROVE  /\ BookOK(orders') /\ Len(orders') = Len(orders) + n
         /\ \A f : FileOK(orders, f) => FileOK(orders', f)
         /\ Flat(orders) /\ n = 1 => LastOnly(orders')
         /\ Dead(orders) /\ n = 1 => LastWorks(orders')
         /\ w' \in Workers /\ w'.pc = "write" /\ w'.oid = Len(orders')
         /\ w'.got = w.got /\ w'.path = w.path /\ w'.says = w.says
<1>1. BookOK(orders) /\ w \in Workers /\ Len(orders) \in Nat
  BY BookIs DEF Types
<1>2. /\ BookOK(orders') /\ Len(orders') = Len(orders) + n
      /\ \A f : FileOK(orders, f) => FileOK(orders', f)
      /\ Flat(orders) /\ n = 1 => LastOnly(orders')
      /\ Dead(orders) /\ n = 1 => LastWorks(orders')
  BY <1>1, BookGrows DEF Sent
<1>3. Len(orders) + n \in Nat
  BY <1>1
<1> QED
  BY <1>1, <1>2, <1>3 DEF Sent, Workers, Stages

LEMMA PlaceKeeps == IInv /\ Place => IInv'
<1> SUFFICES ASSUME IInv, Place PROVE IInv'
  OBVIOUS
<1> USE DEF IInv
<1>1. kind' = kind /\ happens' = happens
  BY DEF Place
<1>6. faults' \in 0 .. MaxFaults
  BY Sizes DEF Types, Place, Fault
<1>7. \/ \E n \in {1, 2} : Sent(n)
      \/ orders' = orders /\ Goto("raise")
  BY DEF Place
<1>2. Types'
  <2>1. CASE \E n \in {1, 2} : Sent(n)
    BY <1>1, <1>6, <2>1, SentIs DEF Types, Place
  <2>2. CASE ~ \E n \in {1, 2} : Sent(n)
    <3>1. w' \in Workers /\ w'.oid = w.oid /\ w'.got \in {w.got, file}
      BY <1>7, <2>2 DEF Types, FileOK, Workers, Stages, Goto, Return
    <3> QED
      BY <1>1, <1>6, <2>2, <3>1 DEF Types, Place
  <2> QED
    BY <2>1, <2>2
<1>3. Here'
  <2>1. CASE \E n \in {1, 2} : Sent(n)
    BY <1>1, <2>1, SentIs DEF Here, Place, At
  <2>2. CASE ~ \E n \in {1, 2} : Sent(n)
    BY <1>1, <1>7, <2>2 DEF Types, Here, Place, Goto, Return, At, Workers
  <2> QED
    BY <2>1, <2>2
<1>4. Guard'
  <2>1. CASE Guarded
    <3>1. CASE Sent(1)
      BY <1>1, <2>1, <3>1, SentIs, BookIs DEF Types, Here, Guard, Guarded, Place, At
    <3>2. CASE orders' = orders /\ Goto("raise")
      BY <1>1, <2>1, <3>2 DEF Types, Here, Guard, Guarded, Place, Goto, At, Workers
    <3> QED
      BY <2>1, <3>1, <3>2 DEF Place, Guarded, Fault
  <2> QED
    BY <1>1, <2>1 DEF Guard, Guarded
<1>a. Alone'
  <2>1. CASE Watched
    <3>1. CASE Sent(1)
      BY <1>1, <2>1, <3>1, SentIs DEF Here, Alone, Watched, Place, At
    <3>2. CASE orders' = orders /\ Goto("raise")
      BY <1>1, <2>1, <3>2 DEF Types, Here, Alone, Watched, Place, Goto, At, Workers
    <3> QED
      BY <2>1, <3>1, <3>2 DEF Place, Watched, Fault
  <2> QED
    BY <1>1, <2>1 DEF Alone, Watched
<1> QED
  BY <1>1, <1>2, <1>3, <1>4, <1>a

LEMMA PlaceManualKeeps == IInv /\ PlaceManual => IInv'
<1> SUFFICES ASSUME IInv, PlaceManual PROVE IInv'
  OBVIOUS
<1> USE DEF IInv
<1>1. kind' = kind /\ happens' = happens
  BY DEF PlaceManual
<1>6. faults' \in 0 .. MaxFaults
  BY Sizes DEF Types, PlaceManual, Fault
<1>7. \/ \E n \in {1, 2} : Sent(n)
      \/ orders' = orders /\ \/ /\ w.path /\ w' = [w EXCEPT !.pc = "finalize", !.got = file]
                             \/ Return("failed")
  BY DEF PlaceManual
<1>2. Types'
  <2>1. CASE \E n \in {1, 2} : Sent(n)
    BY <1>1, <1>6, <2>1, SentIs DEF Types, PlaceManual
  <2>2. CASE ~ \E n \in {1, 2} : Sent(n)
    <3>1. w' \in Workers /\ w'.oid = w.oid /\ w'.got \in {w.got, file}
      BY <1>7, <2>2 DEF Types, FileOK, Workers, Stages, Goto, Return
    <3> QED
      BY <1>1, <1>6, <2>2, <3>1 DEF Types, PlaceManual
  <2> QED
    BY <2>1, <2>2
<1>3. Here'
  <2>1. CASE \E n \in {1, 2} : Sent(n)
    BY <1>1, <2>1, SentIs DEF Here, PlaceManual, At
  <2>2. CASE ~ \E n \in {1, 2} : Sent(n)
    BY <1>1, <1>7, <2>2 DEF Types, Here, PlaceManual, Goto, Return, At, Workers
  <2> QED
    BY <2>1, <2>2
<1>4. Guard'
  BY <1>1 DEF Guard, Guarded, PlaceManual
<1>a. Alone'
  BY <1>1 DEF Types, Here, Alone, Watched, At, PlaceManual
<1> QED
  BY <1>1, <1>2, <1>3, <1>4, <1>a

LEMMA WriteKeeps == IInv /\ Write => IInv'
<1> SUFFICES ASSUME IInv, Write PROVE IInv'
  OBVIOUS
<1> USE DEF IInv
<1>1. kind' = kind /\ happens' = happens
  BY DEF Write
<1>5. file'.oid = w.oid /\ w.oid # 0 /\ FileOK(orders', file')
  <2> DEFINE f == IF w.path THEN file ELSE NoFile
  <2>1. f \in Files /\ w.oid \in Nat /\ w.oid <= Len(orders)
    BY NoFileOK DEF Types, FileOK, Workers
  <2>2. /\ Handshake(f, w.oid) \in Files /\ Handshake(f, w.oid).oid = w.oid
        /\ Handshake(f, w.oid).order = "working"
    <3> DEFINE g == [f EXCEPT !.oid = w.oid, !.order = "working", !.full = FALSE]
    <3>1. g \in Files /\ g.oid = w.oid /\ g.order = "working"
      BY <2>1 DEF Files, OrderStatus
    <3>2. \E t \in {"none", "pending_fill", "open"} :
            Handshake(f, w.oid) = [g EXCEPT !.legs = 0, !.phase = "fast", !.status = t]
      BY <2>1 DEF Handshake, Files
    <3> HIDE DEF g
    <3>3. \A t \in {"none", "pending_fill", "open"}, l \in 0 .. 2 :
            LET h == [g EXCEPT !.legs = l, !.phase = "fast", !.status = t]
            IN  h \in Files /\ h.oid = g.oid /\ h.order = g.order
      BY <3>1 DEF Files
    <3>4. PICK t \in {"none", "pending_fill", "open"} :
            Handshake(f, w.oid) = [g EXCEPT !.legs = 0, !.phase = "fast", !.status = t]
      BY <3>2
    <3>5. 0 \in 0 .. 2
      OBVIOUS
    <3>6. LET h == [g EXCEPT !.legs = 0, !.phase = "fast", !.status = t]
          IN  h \in Files /\ h.oid = g.oid /\ h.order = g.order
      BY <3>3, <3>5, Zenon
    <3> QED
      BY <3>1, <3>4, <3>6
  <2>3. file' = Handshake(f, w.oid) /\ orders' = orders
    BY DEF Write
  <2> HIDE DEF f
  <2>4. w.oid # 0
    BY DEF Here, Write, At
  <2> QED
    BY <2>1, <2>2, <2>3, <2>4 DEF FileOK, Truth, Dropped
<1>2. Types'
  BY <1>1, <1>5 DEF Types, Write, Workers, Stages
<1>3. Here'
  BY <1>1, <1>5 DEF Types, Here, Write, At, Workers
<1>4. Guard'
  BY <1>1, <1>5 DEF Types, Here, Guard, Guarded, Write, At, Workers
<1>a. Alone'
  BY <1>1 DEF Types, Here, Alone, Watched, At, Write
<1> QED
  BY <1>1, <1>2, <1>3, <1>4, <1>a

LEMMA RecordKeeps == IInv /\ Record => IInv'
<1> SUFFICES ASSUME IInv, Record PROVE IInv'
  OBVIOUS
<1> USE DEF IInv
<1>1. kind' = kind /\ happens' = happens
  BY DEF Record
<1>5. file'.oid = file.oid /\ FileOK(orders', file')
  <2> DEFINE g == [file EXCEPT !.last = "working", !.sure = FALSE]
  <2>1. g \in Files /\ g.oid = file.oid /\ g.order = file.order /\ g.filled = file.filled
    BY DEF Types, FileOK, Files
  <2>2. file' = g /\ orders' = orders
    BY DEF Record
  <2> HIDE DEF g
  <2> QED
    BY <2>1, <2>2, FileStays DEF Types
<1>2. Types'
  BY <1>1, <1>5 DEF Types, Record, Goto, Workers, Stages
<1>3. Here'
  BY <1>1, <1>5 DEF Types, Here, Record, Goto, At, Workers
<1>4. Guard'
  BY <1>1, <1>5 DEF Types, Here, Guard, Guarded, Record, Goto, At, Workers
<1>a. Alone'
  BY <1>1 DEF Types, Here, Alone, Watched, At, Record, Goto, Workers
<1> QED
  BY <1>1, <1>2, <1>3, <1>4, <1>a

LEMMA PollKeeps == IInv /\ Poll => IInv'
<1> SUFFICES ASSUME IInv, Poll PROVE IInv'
  OBVIOUS
<1> USE DEF IInv
<1>1. kind' = kind /\ happens' = happens
  BY DEF Poll
<1>5. PICK a \in Answers(file.oid) :
        /\ Sync(a)
        /\ \/ Return("entering") \/ UNCHANGED w \/ HandOver(file')
           \/ ~Bought(file') /\ Goto("reconcile")
           \/ /\ ~Bought(file') /\ Goto("top")
              /\ file'.order \in {"cancelled", "rejected"}
  BY DEF Poll
<1>6. UNCHANGED <<orders, row, fired, peek>> /\ w.path /\ file.oid # 0
  BY DEF Poll, Here, At
<1>7. /\ FileOK(orders', file') /\ file'.oid = file.oid
      /\ faults' \in 0 .. MaxFaults /\ latched' \in BOOLEAN
  BY <1>5, <1>6, SyncIs
<1>8. BookOK(orders') /\ w \in Workers /\ w.path
  BY <1>6 DEF Types
<1>2. Types'
  <2>1. w' \in Workers /\ w'.oid = w.oid /\ w'.got \in {w.got, file'}
    <3>1. w \in Workers /\ file' \in Files
      BY <1>7 DEF Types, FileOK
    <3> QED
      BY <1>5, <3>1 DEF Poll, Goto, Return, HandOver, Workers, Stages
  <2> QED
    BY <1>1, <1>6, <1>7, <1>8, <2>1 DEF Types, Poll
<1>3. Here'
  BY <1>1, <1>5, <1>6, <1>7, <1>8, Sizes DEF Types, Here, Poll, Goto, Return, HandOver, At, Workers,
       Exhausted
<1>4. Guard'
  <2>1. CASE Guarded
    <3>1. CASE Goto("top") /\ ~Bought(file') /\ file'.order \in {"cancelled", "rejected"}
      <4>1. Flat(orders)
        BY <1>6, <1>7, <1>8, <2>1, <3>1, OverIsFlat DEF Guard, Poll, At, Dropped
      <4> QED
        BY <1>1, <1>6, <1>7, <1>8, <2>1, <3>1, <4>1 DEF Here, Guard, Guarded, Goto, At, Poll,
             Workers
    <3>2. CASE \/ Return("entering") \/ UNCHANGED w \/ HandOver(file')
              \/ Goto("reconcile")
      BY <1>1, <1>6, <1>7, <1>8, <2>1, <3>2 DEF Here, Guard, Guarded, Return, Goto, HandOver, At,
           Poll, Workers
    <3> QED
      BY <1>5, <3>1, <3>2
  <2> QED
    BY <1>1, <2>1 DEF Guard, Guarded
<1>a. Alone'
  BY <1>1, <1>5, <1>6, <1>8 DEF Types, Here, Alone, Watched, At, Poll, Goto, Return, HandOver,
       Workers
<1> QED
  BY <1>1, <1>2, <1>3, <1>4, <1>a

LEMMA PollManualKeeps == IInv /\ PollManual => IInv'
<1> SUFFICES ASSUME IInv, PollManual PROVE IInv'
  OBVIOUS
<1> USE DEF IInv
<1>1. kind' = kind /\ happens' = happens
  BY DEF PollManual
<1>5. PICK a \in Answers(file.oid) :
        /\ Sync(a)
        /\ \/ Return("entering") \/ UNCHANGED w \/ HandOver(file')
           \/ ~Exhausted /\ Goto("top")
           \/ w' = [w EXCEPT !.pc = "finalize", !.got = file']
  BY DEF PollManual
<1>6. UNCHANGED <<orders, row, fired, peek>> /\ w.path /\ file.oid # 0
  BY DEF PollManual, Here, At
<1>7. /\ FileOK(orders', file') /\ file'.oid = file.oid
      /\ faults' \in 0 .. MaxFaults /\ latched' \in BOOLEAN
  BY <1>5, <1>6, SyncIs
<1>8. BookOK(orders') /\ w \in Workers /\ w.path
  BY <1>6 DEF Types
<1>2. Types'
  <2>1. w' \in Workers /\ w'.oid = w.oid /\ w'.got \in {w.got, file'}
    <3>1. w \in Workers /\ file' \in Files
      BY <1>7 DEF Types, FileOK
    <3> QED
      BY <1>5, <3>1 DEF PollManual, Goto, Return, HandOver, Workers, Stages
  <2> QED
    BY <1>1, <1>6, <1>7, <1>8, <2>1 DEF Types, PollManual
<1>3. Here'
  <2>1. CASE Return("entering") \/ UNCHANGED w \/ HandOver(file')
    BY <1>1, <1>6, <1>7, <1>8, <2>1 DEF Here, PollManual, Goto, Return, HandOver, At, Workers
  <2>2. CASE ~Exhausted /\ Goto("top")
    <3>1. w.n \in 0 .. Attempts /\ w.n # Attempts
      BY <1>8, <2>2 DEF Workers, Exhausted
    <3>2. w.n < Attempts
      BY <3>1, Sizes
    <3> QED
      BY <1>1, <1>6, <1>7, <1>8, <2>2, <3>2 DEF Here, PollManual, Goto, At, Workers
  <2>3. CASE w' = [w EXCEPT !.pc = "finalize", !.got = file']
    BY <1>1, <1>6, <1>7, <1>8, <2>3 DEF Here, PollManual, At, Workers
  <2> QED
    BY <1>5, <2>1, <2>2, <2>3
<1>4. Guard'
  BY <1>1 DEF Guard, Guarded, PollManual
<1>a. Alone'
  BY <1>1 DEF Types, Here, Alone, Watched, At, PollManual
<1> QED
  BY <1>1, <1>2, <1>3, <1>4, <1>a

LEMMA ReconcileKeeps == IInv /\ Reconcile => IInv'
<1> SUFFICES ASSUME IInv, Reconcile PROVE IInv'
  OBVIOUS
<1> USE DEF IInv
<1>1. kind' = kind /\ happens' = happens
  BY DEF Reconcile
<1>5. PICK a \in Answers(file.oid) :
        /\ Sync(a)
        /\ Return("entering") \/ HandOver(file') \/ Goto("cancel")
  BY DEF Reconcile
<1>6. UNCHANGED <<orders, row, fired, peek>> /\ w.path /\ file.oid # 0
  BY DEF Reconcile, Here, At
<1>7. /\ FileOK(orders', file') /\ file'.oid = file.oid
      /\ faults' \in 0 .. MaxFaults /\ latched' \in BOOLEAN
  BY <1>5, <1>6, SyncIs
<1>8. BookOK(orders') /\ w \in Workers /\ w.path
  BY <1>6 DEF Types
<1>2. Types'
  <2>1. w' \in Workers /\ w'.oid = w.oid /\ w'.got \in {w.got, file'}
    <3>1. w \in Workers /\ file' \in Files
      BY <1>7 DEF Types, FileOK
    <3> QED
      BY <1>5, <3>1 DEF Reconcile, Goto, Return, HandOver, Workers, Stages
  <2> QED
    BY <1>1, <1>6, <1>7, <1>8, <2>1 DEF Types, Reconcile
<1>3. Here'
  BY <1>1, <1>5, <1>6, <1>7, <1>8, Sizes, ZenonT(60) DEF Types, Here, Reconcile, Goto, Return,
       HandOver, At, Workers, Exhausted
<1>4. Guard'
  BY <1>1, <1>5, <1>6, <1>7, <1>8 DEF Here, Guard, Guarded, Return, Goto, HandOver, At, Reconcile,
       Workers
<1>a. Alone'
  BY <1>1, <1>5, <1>6, <1>8 DEF Types, Here, Alone, Watched, At, Reconcile, Goto, Return, HandOver,
       Workers
<1> QED
  BY <1>1, <1>2, <1>3, <1>4, <1>a

LEMMA ConfirmKeeps == IInv /\ Confirm => IInv'
<1> SUFFICES ASSUME IInv, Confirm PROVE IInv'
  OBVIOUS
<1> USE DEF IInv
<1>1. kind' = kind /\ happens' = happens
  BY DEF Confirm
<1>5. PICK a \in Answers(file.oid) :
        /\ Sync(a)
        /\ \/ Goto("unknown") \/ HandOver(file') \/ UNCHANGED w
           \/ ~Bought(file') /\ Confirmed(file') /\ Goto("cancelled")
  BY DEF Confirm
<1>6. UNCHANGED <<orders, row, fired, peek>> /\ w.path /\ file.oid # 0
  BY DEF Confirm, Here, At
<1>7. /\ FileOK(orders', file') /\ file'.oid = file.oid
      /\ faults' \in 0 .. MaxFaults /\ latched' \in BOOLEAN
  BY <1>5, <1>6, SyncIs
<1>8. BookOK(orders') /\ w \in Workers /\ w.path
  BY <1>6 DEF Types
<1>2. Types'
  <2>1. w' \in Workers /\ w'.oid = w.oid /\ w'.got \in {w.got, file'}
    <3>1. w \in Workers /\ file' \in Files
      BY <1>7 DEF Types, FileOK
    <3> QED
      BY <1>5, <3>1 DEF Confirm, Goto, Return, HandOver, Workers, Stages
  <2> QED
    BY <1>1, <1>6, <1>7, <1>8, <2>1 DEF Types, Confirm
<1>3. Here'
  BY <1>1, <1>5, <1>6, <1>7, <1>8, Sizes DEF Types, Here, Confirm, Goto, Return, HandOver, At,
       Workers, Exhausted
<1>4. Guard'
  <2>1. CASE Guarded
    <3>1. CASE Goto("cancelled") /\ ~Bought(file') /\ Confirmed(file')
      <4>1. Flat(orders)
        BY <1>6, <1>7, <1>8, <2>1, <3>1, OverIsFlat DEF Guard, Confirm, Confirmed, At, Dropped
      <4> QED
        BY <1>1, <1>6, <1>7, <1>8, <2>1, <3>1, <4>1 DEF Here, Guard, Guarded, Goto, At, Confirm,
             Workers
    <3>2. CASE Goto("unknown") \/ UNCHANGED w \/ HandOver(file')
      BY <1>1, <1>6, <1>7, <1>8, <2>1, <3>2 DEF Here, Guard, Guarded, Goto, HandOver, At, Confirm,
           Workers
    <3> QED
      BY <1>5, <3>1, <3>2
  <2> QED
    BY <1>1, <2>1 DEF Guard, Guarded
<1>a. Alone'
  BY <1>1, <1>5, <1>6, <1>8 DEF Types, Here, Alone, Watched, At, Confirm, Goto, Return, HandOver,
       Workers
<1> QED
  BY <1>1, <1>2, <1>3, <1>4, <1>a

LEMMA CancelKeeps == IInv /\ Cancel => IInv'
<1> SUFFICES ASSUME IInv, Cancel PROVE IInv'
  OBVIOUS
<1> USE DEF IInv
<1>1. kind' = kind /\ happens' = happens
  BY DEF Cancel
<1>5. Moved(orders, orders')
  <2>1. orders' = orders \/ orders' = [orders EXCEPT ![w.oid].asked = TRUE]
    BY DEF Cancel
  <2>2. BookOK(orders)
    BY DEF Types
  <2>3. Moved(orders, orders) /\ Moved(orders, [orders EXCEPT ![w.oid].asked = TRUE])
    BY <2>2, AskedMoves, StaysMoved, Zenon
  <2> QED
    BY <2>1, <2>3
<1>6. /\ \A f : FileOK(orders, f) => FileOK(orders', f)
      /\ BookOK(orders') /\ Len(orders') = Len(orders)
      /\ Flat(orders) => Flat(orders')
      /\ LastOnly(orders) => LastOnly(orders')
      /\ Dead(orders) => Dead(orders')
      /\ LastWorks(orders) => LastWorks(orders')
  BY <1>5, MovedKeeps DEF Types
<1>7. faults' \in 0 .. MaxFaults
  BY Sizes DEF Types, Cancel, Fault
<1>2. Types'
  BY <1>1, <1>6, <1>7 DEF Types, Cancel, Goto, Workers, Stages
<1>3. Here'
  BY <1>1 DEF Types, Here, Cancel, Goto, At, Workers
<1>4. Guard'
  BY <1>1, <1>6 DEF Types, Here, Guard, Guarded, Cancel, Goto, At, Workers
<1>a. Alone'
  BY <1>1, <1>6 DEF Types, Here, Alone, Watched, At, Cancel, Goto, Workers
<1> QED
  BY <1>1, <1>2, <1>3, <1>4, <1>a

LEMMA SettleKeeps == IInv /\ Settle => IInv'
<1> SUFFICES ASSUME IInv, Settle PROVE IInv'
  OBVIOUS
<1> USE DEF IInv
<1>1. kind' = kind /\ happens' = happens
  BY DEF Settle
<1>5. file'.oid = file.oid /\ FileOK(orders', file')
  <2>1. PICK c \in {"visibility_unknown", "cancelled"}, t \in BOOLEAN :
          file' = [file EXCEPT !.last = c, !.sure = t]
    BY DEF Settle, At
  <2> DEFINE g == [file EXCEPT !.last = c, !.sure = t]
  <2>2. g \in Files /\ g.oid = file.oid /\ g.order = file.order /\ g.filled = file.filled
    BY DEF Types, FileOK, Files
  <2>3. file' = g /\ orders' = orders
    BY <2>1 DEF Settle
  <2> HIDE DEF g
  <2> QED
    BY <2>2, <2>3, FileStays DEF Types
<1>6. /\ w' \in Workers /\ w'.got = w.got /\ w'.oid = w.oid /\ w'.path = w.path
      /\ \/ At("unknown") /\ w'.pc = "report" /\ w'.says = "entering"
         \/ At("cancelled") /\ w'.pc = "top" /\ w'.n = w.n
  BY DEF Settle, At, Return, Goto, Types, Workers, Stages
<1>2. Types'
  BY <1>1, <1>5, <1>6 DEF Types, Settle, Workers, Stages
<1>3. Here'
  BY <1>1, <1>5, <1>6 DEF Types, Here, Settle, At, Workers
<1>4. Guard'
  BY <1>1, <1>5, <1>6 DEF Types, Here, Guard, Guarded, Settle, At, Workers
<1>a. Alone'
  BY <1>1, <1>6 DEF Types, Here, Alone, Watched, At, Settle
<1> QED
  BY <1>1, <1>2, <1>3, <1>4, <1>a

LEMMA HandOffKeeps == IInv /\ HandOff => IInv'
<1> SUFFICES ASSUME IInv, HandOff PROVE IInv'
  OBVIOUS
<1> USE DEF IInv
<1>1. kind' = kind /\ happens' = happens
  BY DEF HandOff
<1>5. file'.oid = w.got.oid /\ FileOK(orders', file')
  <2>1. w.got \in Files /\ FileOK(orders, w.got) /\ orders' = orders
    BY DEF Types, FileOK, HandOff
  <2>2. CASE file' = w.got
    BY <2>1, <2>2
  <2>3. CASE file' = [w.got EXCEPT !.status = "open", !.snap = TRUE,
                                  !.full = @ \/ w.got.filled >= Qty]
    <3>1. file' \in Files /\ file'.oid = w.got.oid /\ file'.order = w.got.order
          /\ file'.filled = w.got.filled
      <4>1. PICK b \in BOOLEAN : file' = [w.got EXCEPT !.status = "open", !.snap = TRUE, !.full = b]
        BY <2>3
      <4> QED
        BY <2>1, <4>1 DEF Files
    <3> QED
      BY <2>1, <3>1, FileStays
  <2> QED
    BY <2>2, <2>3 DEF HandOff
<1>2. Types'
  BY <1>1, <1>5 DEF Types, HandOff, Return, Workers, Stages
<1>3. Here'
  BY <1>1, <1>5 DEF Types, Here, HandOff, Return, At, Workers
<1>4. Guard'
  BY <1>1, <1>5 DEF Types, Here, Guard, Guarded, HandOff, Return, At, Workers
<1>a. Alone'
  BY <1>1 DEF Types, Here, Alone, Watched, At, HandOff, Return, Workers
<1> QED
  BY <1>1, <1>2, <1>3, <1>4, <1>a

LEMMA SyncPendingKeeps == IInv /\ SyncPending => IInv'
<1> SUFFICES ASSUME IInv, SyncPending PROVE IInv'
  OBVIOUS
<1> USE DEF IInv
<1>1. kind' = kind /\ happens' = happens
  BY DEF SyncPending
<1>5. file'.oid = file.oid /\ FileOK(orders', file')
  BY SyncedIs DEF SyncPending, NeedsSync, Types
<1>6. faults' \in 0 .. MaxFaults
  BY CostsIs DEF SyncPending, Types
<1>2. Types'
  BY <1>1, <1>5, <1>6 DEF Types, SyncPending
<1>3. Here'
  BY <1>1, <1>5 DEF Here, SyncPending, At
<1>4. Guard'
  BY <1>1, <1>5 DEF Guard, Guarded, SyncPending, At
<1>a. Alone'
  BY <1>1 DEF Types, Here, Alone, Watched, At, SyncPending
<1> QED
  BY <1>1, <1>2, <1>3, <1>4, <1>a

LEMMA SyncLoadKeeps == IInv /\ SyncLoad => IInv'
<1> SUFFICES ASSUME IInv, SyncLoad PROVE IInv'
  OBVIOUS
<1> USE DEF IInv
<1>1. kind' = kind /\ happens' = happens
  BY DEF SyncLoad
<1>2. Types'
  BY <1>1 DEF Types, SyncLoad
<1>3. Here'
  BY <1>1 DEF Here, SyncLoad, NeedsSync, At
<1>4. Guard'
  BY <1>1 DEF Guard, Guarded, SyncLoad, At
<1>a. Alone'
  BY <1>1 DEF Types, Here, Alone, Watched, At, SyncLoad
<1> QED
  BY <1>1, <1>2, <1>3, <1>4, <1>a

LEMMA SyncSaveKeeps == IInv /\ SyncSave => IInv'
<1> SUFFICES ASSUME IInv, SyncSave PROVE IInv'
  OBVIOUS
<1> USE DEF IInv
<1>1. kind' = kind /\ happens' = happens
  BY DEF SyncSave
<1>5. FileOK(orders', file') /\ (file.oid # 0 => file'.oid # 0)
  <2>1. peek.oid # 0 /\ FileOK(orders, peek) /\ FileOK(orders, file) /\ BookOK(orders)
        /\ orders' = orders
    BY DEF SyncSave, Here, Types
  <2>2. file' = file \/ \E a \in Answers(peek.oid) : file' \in Synced(peek, a)
    BY DEF SyncSave
  <2> QED
    BY <2>1, <2>2, SyncedIs
<1>6. faults' \in 0 .. MaxFaults
  BY CostsIs DEF SyncSave, Types
<1>2. Types'
  BY <1>1, <1>5, <1>6, NoFileOK DEF Types, SyncSave
<1>3. Here'
  BY <1>1, <1>5 DEF Here, SyncSave, At
<1>4. Guard'
  BY <1>1, <1>5 DEF Here, Guard, Guarded, SyncSave, At
<1>a. Alone'
  BY <1>1 DEF Types, Here, Alone, Watched, At, SyncSave
<1> QED
  BY <1>1, <1>2, <1>3, <1>4, <1>a

LEMMA InvInit == Init => IInv
<1> SUFFICES ASSUME Init PROVE IInv
  OBVIOUS
<1>1. orders = << >> /\ orders \in Seq(Orders) /\ Len(orders) = 0
  BY DEF Init
<1>2. BookOK(orders) /\ Flat(orders) /\ LastOnly(orders)
  BY <1>1 DEF BookOK, Flat, LastOnly
<1>3. FileOK(orders, NoFile)
  BY <1>2, NoFileOK
<1>4. Types
  <2>1. row \in Rows
    BY DEF Init, Rows
  <2>2. kind \in Kinds /\ fired \in BOOLEAN /\ latched \in BOOLEAN /\ faults \in 0 .. MaxFaults
    <3>1. kind \in Kinds /\ fired \in BOOLEAN /\ latched \in BOOLEAN
      BY DEF Init
    <3>2. faults \in 0 .. MaxFaults
      BY Sizes DEF Init
    <3> QED
      BY <3>1, <3>2
  <2>3. FileOK(orders, file) /\ FileOK(orders, peek) /\ FileOK(orders, w.got)
    BY <1>3, NoWorkerIs DEF Init
  <2>4. w \in Workers /\ w.oid <= Len(orders)
    BY <1>1, NoWorkerIs DEF Init
  <2> QED
    BY <1>2, <2>1, <2>2, <2>3, <2>4 DEF Types
<1>5. Here
  BY NoWorkerIs DEF Init, Here, At
<1>6. Guard
  BY <1>2, NoWorkerIs DEF Init, Guard, At
<1>7. Alone
  BY <1>1, NoWorkerIs DEF Init, Alone, Dead, LastWorks, At
<1> QED
  BY <1>4, <1>5, <1>6, <1>7 DEF IInv

LEMMA InvStep == IInv /\ [Next]_vars => IInv'
<1> SUFFICES ASSUME IInv, [Next]_vars PROVE IInv'
  OBVIOUS
<1>1. CASE UNCHANGED vars
  BY <1>1 DEF vars, IInv, Types, Here, Guard, Guarded, Alone, Watched, At
<1>2. CASE Worker
  BY <1>2, AttemptKeeps, RetryKeeps, PlaceKeeps, PlaceManualKeeps, RaiseKeeps, WriteKeeps,
     RecordKeeps, PollKeeps, PollManualKeeps, ReconcileKeeps, CancelKeeps, ConfirmKeeps,
     SettleKeeps, HandOffKeeps, FinalizeKeeps, ReportKeeps DEF Worker
<1>3. CASE Monitor
  BY <1>3, SyncPendingKeeps, SyncLoadKeeps, SyncSaveKeeps DEF Monitor
<1>4. CASE Broker \/ Spawn \/ Latch \/ Resume \/ Reset \/ Crash
  BY <1>4, BrokerKeeps, SpawnKeeps, LatchKeeps, ResumeKeeps, ResetKeeps, CrashKeeps
<1> QED
  BY <1>1, <1>2, <1>3, <1>4 DEF Next

(* --- the theorems -------------------------------------------------------- *)

\* What the worker, the sync and the operator rely on about the book, the file
\* and the row holds at every moment (run_meic_entry_row, sync_pending_fills).
THEOREM RowInvariant == Spec => []IInv
BY InvInit, InvStep, PTL DEF Spec

LEMMA SoundStep == IInv => RowSound
<1> SUFFICES ASSUME IInv PROVE RowSound
  OBVIOUS
<1>1. BookOK(orders) /\ FileOK(orders, file) /\ Len(orders) \in Nat
  BY BookIs DEF IInv, Types
<1>2. TypeOK
  <2>1. \A i \in DOMAIN orders : orders[i].status \in OrderStatus /\ orders[i].filled \in 0 .. Qty
    BY <1>1, BookIs DEF Orders
  <2>2. \A f \in {file, peek, w.got} : /\ f.oid \in 0 .. Len(orders) /\ f.filled \in 0 .. Qty
                                      /\ f.status \in {"none", "pending_fill", "open"}
    <3>1. ASSUME NEW f, FileOK(orders, f)
          PROVE  /\ f.oid \in 0 .. Len(orders) /\ f.filled \in 0 .. Qty
                 /\ f.status \in {"none", "pending_fill", "open"}
      BY <1>1, <3>1 DEF FileOK, Files
    <3> QED
      BY <3>1 DEF IInv, Types
  <2>3. w.n \in 0 .. Attempts /\ w.oid \in 0 .. Len(orders)
    BY <1>1 DEF IInv, Types, Workers
  <2> QED
    BY <2>1, <2>2, <2>3 DEF IInv, Types, TypeOK, Rows
<1>3. FailedIsFlat
  BY <1>1, FlatMeans DEF IInv, Guard, FailedIsFlat
<1>4. OpenIsExact
  <2> SUFFICES ASSUME file.order = "filled", Guarded PROVE file.filled = Held
    BY DEF OpenIsExact
  <2>1. /\ file.oid \in 1 .. Len(orders) /\ orders[file.oid].status = "filled"
        /\ orders[file.oid].filled = file.filled
    BY <1>1 DEF FileOK, Files, Truth
  <2>2. file.filled # 0
    BY <1>1, <2>1, Sizes DEF BookOK
  <2>3. LastOnly(orders)
    BY DEF IInv, Guard
  <2>4. file.oid = Len(orders)
    BY <1>1, <2>1, <2>2, <2>3 DEF LastOnly
  <2> QED
    BY <1>1, <2>1, <2>3, <2>4, HeldIsLast DEF Held, HeldBy, HeldIn
<1>5. OneAtATime
  <2> SUFFICES ASSUME Watched PROVE Cardinality(Working) <= 1
    BY DEF OneAtATime
  <2> DEFINE n == Len(orders)
  <2>1. DOMAIN orders = 1 .. n /\ n \in Nat
    BY <1>1, BookIs
  <2>2. LastWorks(orders)
    BY DEF IInv, Guard, Guarded, Alone, Watched, LastOnly, LastWorks
  <2>3. Working \subseteq {n}
    BY <2>1, <2>2 DEF Working, LastWorks
  <2> HIDE DEF n
  <2>4. Working = {} \/ Working = {n}
    BY <2>3
  <2>5. Cardinality({}) = 0 /\ Cardinality({n}) = 1
    BY FS_EmptySet, FS_Singleton
  <2> QED
    BY <2>4, <2>5
<1> QED
  BY <1>2, <1>3, <1>4, <1>5 DEF RowSound

\* A MEIC row that is reported failed has nothing at the broker, and an open trade
\* records what all of the row's orders bought (opening_duplicate_guard.py).
THEOREM RowIsSound == Spec => []RowSound
BY RowInvariant, SoundStep, PTL

(* --- the refinement of OpeningSlot ---------------------------------------- *)
LEMMA OneWorks ==
  ASSUME NEW os, BookOK(os), LastOnly(os), NEW n, n = Len(os), n # 0
  PROVE  /\ n \in 1 .. n /\ HeldIn(os) = os[n].filled /\ os[n] \in Orders
         /\ os[n].status = "working" => Cardinality(WorkingIn(os)) = 1
         /\ os[n].status # "working" => Cardinality(WorkingIn(os)) = 0
         /\ WorkingIn(os) \subseteq {n}
<1>1. n \in Nat /\ DOMAIN os = 1 .. n /\ n \in 1 .. n /\ os[n] \in Orders
  BY BookIs
<1>2. HeldIn(os) = os[n].filled /\ WorkingIn(os) \subseteq {n}
  BY HeldIsLast
<1>3. os[n].status = "working" => WorkingIn(os) = {n}
  BY <1>1, <1>2 DEF WorkingIn
<1>4. os[n].status # "working" => WorkingIn(os) = {}
  BY <1>1, <1>2 DEF WorkingIn
<1>5. Cardinality({n}) = 1 /\ Cardinality({}) = 0
  BY FS_Singleton, FS_EmptySet
<1> QED
  BY <1>1, <1>2, <1>3, <1>4, <1>5

LEMMA FlatIsNothing ==
  ASSUME NEW os, BookOK(os), Flat(os)
  PROVE  HeldIn(os) = 0 /\ WorkingIn(os) = {} /\ Cardinality(WorkingIn(os)) = 0
<1>1. WorkingIn(os) = {} /\ HeldIn(os) = 0
  BY FlatCounts
<1> QED
  BY <1>1, FS_EmptySet

\* A book whose orders keep their status and fills counts the same.
LEMMA SameCounts ==
  ASSUME NEW os, NEW ns, DOMAIN ns = DOMAIN os,
         \A i \in DOMAIN os : ns[i].status = os[i].status /\ ns[i].filled = os[i].filled
  PROVE  HeldIn(ns) = HeldIn(os) /\ WorkingIn(ns) = WorkingIn(os)
<1>1. {c \in (DOMAIN ns) \X (1 .. Qty) : c[2] <= ns[c[1]].filled}
      = {c \in (DOMAIN os) \X (1 .. Qty) : c[2] <= os[c[1]].filled}
  OBVIOUS
<1> QED
  BY <1>1 DEF HeldIn, WorkingIn

LEMMA SlotInit == Init => Slot!Init
<1> SUFFICES ASSUME Init PROVE Slot!Init
  OBVIOUS
<1>1. orders = << >> /\ orders \in Seq(Orders) /\ Len(orders) = 0
  BY DEF Init
<1>2. BookOK(orders) /\ Flat(orders)
  BY <1>1 DEF BookOK, Flat
<1> QED
  BY <1>2, FlatIsNothing DEF Slot!Init, Working, WorkingIn, Held, HeldBy, HeldIn

\* What a step of a guarded row does to the book.
LEMMA StepOfBook ==
  ASSUME IInv, Guarded, [Next]_vars
  PROVE  \/ orders' = orders
         \/ orders' = [orders EXCEPT ![w.oid].asked = TRUE]
         \/ \E i \in DOMAIN orders : Fill(i)
         \/ \E i \in DOMAIN orders : Drop(i)
         \/ At("place") /\ Sent(1)
<1>1. CASE Worker
  BY <1>1 DEF Worker, Attempt, Retry, Place, PlaceManual, Raise, Write, Record, Poll, PollManual,
     Reconcile, Cancel, Confirm, Settle, HandOff, Finalize, Report, Guarded, Fault
<1>2. CASE ~Worker
  BY <1>2 DEF Next, Broker, Monitor, SyncPending, SyncLoad, SyncSave, Spawn, Latch, Resume, Reset,
     Crash, vars
<1> QED
  BY <1>1, <1>2

LEMMA SlotStep ==
  ASSUME IInv, IInv', [Next]_vars
  PROVE  [Slot!Send \/ Slot!Fill \/ Slot!Stop]_<<IF Guarded THEN Cardinality(Working) ELSE 0,
                                                IF Guarded THEN Held ELSE 0>>
<1> DEFINE works == IF Guarded THEN Cardinality(Working) ELSE 0
           holds == IF Guarded THEN Held ELSE 0
<1>1. Guarded' = Guarded
  BY DEF Next, vars, Guarded, Broker, Fill, Drop, Worker, Monitor, SyncPending, SyncLoad, SyncSave,
     Spawn, Latch, Resume, Reset, Crash, Attempt, Retry, Place, PlaceManual, Raise, Write, Record,
     Poll, PollManual, Reconcile, Cancel, Confirm, Settle, HandOff, Finalize, Report
<1>2. CASE ~Guarded
  BY <1>1, <1>2
<1>3. CASE Guarded
  <2>1. /\ works = Cardinality(WorkingIn(orders)) /\ holds = HeldIn(orders)
        /\ works' = Cardinality(WorkingIn(orders')) /\ holds' = HeldIn(orders')
    BY <1>1, <1>3 DEF Working, WorkingIn, Held, HeldBy, HeldIn
  <2>2. /\ BookOK(orders) /\ LastOnly(orders) /\ BookOK(orders') /\ LastOnly(orders')
    BY <1>1, <1>3 DEF IInv, Types, Guard
  <2> DEFINE n == Len(orders)
  <2>3. n \in Nat /\ DOMAIN orders = 1 .. n
    BY <2>2, BookIs
  <2>4. CASE orders' = orders
    BY <2>1, <2>4
  <2>5. CASE orders' = [orders EXCEPT ![w.oid].asked = TRUE]
    <3>1. DOMAIN orders' = DOMAIN orders
      BY <2>5
    <3>2. \A i \in DOMAIN orders : orders[i] \in Orders
      BY <2>2, <2>3, BookIs
    <3>3. \A i \in DOMAIN orders : /\ orders'[i].status = orders[i].status
                                   /\ orders'[i].filled = orders[i].filled
      BY <2>5, <3>2 DEF Orders
    <3> QED
      BY <2>1, <3>1, <3>3, SameCounts
  <2>6. ASSUME NEW i \in DOMAIN orders, Fill(i) PROVE Slot!Fill
    <3>1. n # 0 /\ i = n /\ orders[n].status = "working" /\ orders[n].filled < Qty
      <4>1. i \in WorkingIn(orders) /\ i \in 1 .. n
        BY <2>3, <2>6 DEF Fill, Working, WorkingIn
      <4>2. n # 0
        BY <2>3, <4>1
      <4>3. WorkingIn(orders) \subseteq {n}
        BY <2>2, <4>2, OneWorks
      <4>4. i = n /\ orders[n].status = "working"
        BY <4>1, <4>3 DEF WorkingIn
      <4> QED
        BY <2>2, <4>1, <4>2, <4>4 DEF BookOK
    <3>2. /\ works = 1 /\ holds = orders[n].filled /\ orders[n] \in Orders
      BY <2>1, <2>2, <3>1, OneWorks
    <3>3. /\ Len(orders') = n /\ orders'[n].filled = orders[n].filled + 1
          /\ orders'[n].status = IF orders[n].filled + 1 = Qty THEN "filled" ELSE "working"
      <4>1. Moved(orders, orders')
        BY <2>6, FillMoves DEF IInv
      <4> QED
        BY <2>3, <2>6, <3>1, <3>2, <4>1 DEF Fill, Moved, Orders
    <3>4. holds' = holds + 1 /\ works' = IF orders[n].filled + 1 = Qty THEN 0 ELSE 1
      BY <2>1, <2>2, <3>1, <3>2, <3>3, OneWorks
    <3> QED
      BY <3>1, <3>2, <3>4 DEF Slot!Fill
  <2>7. ASSUME NEW i \in DOMAIN orders, Drop(i) PROVE Slot!Stop
    <3>1. n # 0 /\ i = n /\ orders[n].status = "working"
      <4>1. i \in WorkingIn(orders) /\ i \in 1 .. n
        BY <2>3, <2>7 DEF Drop, Working, WorkingIn
      <4>2. n # 0
        BY <2>3, <4>1
      <4>3. WorkingIn(orders) \subseteq {n}
        BY <2>2, <4>2, OneWorks
      <4> QED
        BY <4>1, <4>2, <4>3 DEF WorkingIn
    <3>2. /\ works = 1 /\ holds = orders[n].filled /\ orders[n] \in Orders
      BY <2>1, <2>2, <3>1, OneWorks
    <3>3. /\ Len(orders') = n /\ orders'[n].filled = orders[n].filled
          /\ orders'[n].status # "working"
      <4>1. Moved(orders, orders')
        BY <2>7, DropMoves DEF IInv
      <4>2. PICK s \in Dropped : orders' = [orders EXCEPT ![i].status = s]
        BY <2>7 DEF Drop, Dropped
      <4> QED
        BY <2>3, <3>1, <3>2, <4>1, <4>2 DEF Moved, Orders, Dropped
    <3>4. holds' = holds /\ works' = 0
      BY <2>1, <2>2, <3>1, <3>2, <3>3, OneWorks
    <3> QED
      BY <3>2, <3>4 DEF Slot!Stop
  <2>8. ASSUME At("place"), Sent(1) PROVE Slot!Send
    <3>1. works = 0 /\ holds = 0
      BY <1>3, <2>1, <2>2, <2>8, FlatIsNothing DEF IInv, Guard, At
    <3>2. Len(orders') = n + 1 /\ n + 1 # 0
      BY <2>3, <2>8, SentIs DEF IInv
    <3>3. orders'[n + 1] = NewOrder
      <4>1. Len([i \in 1 .. 1 |-> NewOrder]) = 1 /\ [i \in 1 .. 1 |-> NewOrder] \in Seq({NewOrder})
        BY IsASeq, LenProperties
      <4>2. orders \in Seq(Orders)
        BY <2>2 DEF BookOK
      <4> QED
        BY <2>3, <2>8, <4>1, <4>2, ConcatProperties DEF Sent
    <3>4. works' = 1 /\ holds' = 0
      BY <2>1, <2>2, <3>2, <3>3, OneWorks DEF NewOrder
    <3> QED
      BY <3>1, <3>4 DEF Slot!Send
  <2> QED
    BY <1>3, <2>4, <2>5, <2>6, <2>7, <2>8, StepOfBook
<1> QED
  BY <1>2, <1>3

\* A guarded row sends an opening order only while no other one can fill and
\* nothing is bought (opening_duplicate_guard.py: one active opening order per slot).
THEOREM OpeningImplemented == Spec => ImplementsOpening
<1>1. Init => Slot!Init
  BY SlotInit
<1>2. IInv /\ IInv' /\ [Next]_vars =>
        [Slot!Send \/ Slot!Fill \/ Slot!Stop]_<<IF Guarded THEN Cardinality(Working) ELSE 0,
                                               IF Guarded THEN Held ELSE 0>>
  BY SlotStep
<1> QED
  BY <1>1, <1>2, RowInvariant, PTL DEF Spec, ImplementsOpening, Slot!Spec
=============================================================================
