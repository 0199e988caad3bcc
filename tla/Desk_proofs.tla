---------------------------- MODULE Desk_proofs ----------------------------
(***************************************************************************)
(* For any number of requests, trades, prices and scenes, of the parts of  *)
(* the desk: no row of the day's plan is entered twice or left behind, the *)
(* books' rows and total are those of the trades, a settlement price only  *)
(* improves, the mean-reversion strategy's position is the trade on file,  *)
(* and a trade opens and closes where the operator's word says.            *)
(*                                                                         *)
(* Why it holds.  The plan: what a writer is about to save is one file as  *)
(* it was with its own row changed, so unless a write was lost the row it  *)
(* claims was free.  The books: the total is refreshed by every step that  *)
(* changes a row, and a sync nothing overlaps leaves the rows its trades   *)
(* call for.  The strategy: the session file notes the entry before the    *)
(* thread may look at the market again.  The modes: every store that       *)
(* speaks of a key repeats the operator's last word.                       *)
(***************************************************************************)
EXTENDS Desk, FiniteSetTheorems, SequenceTheorems, WellFoundedInduction, TLAPS

(* --- SessionPlan: the invariant of the day's rows ----------------------- *)
PlanStates == {"none", "pending", "entering", "waiting", "blocked", "placing", "entered", "failed"}
PlanRows == [state: PlanStates, path: BOOLEAN, paused: BOOLEAN]
PlanSteps == {"none", "placing", "entered", "blind", "failed"}
Done == {"entered", "blind", "failed"}
AskSteps == {"new", "refused", "loaded", "numbered", "appending", "watch", "claim", "inline", "done"}
HasRow == {"watch", "claim", "inline", "done"}
MonSteps == {"idle", "gate", "claim", "allowed", "refused", "spawn"}
PlanReads == [Lots -> PlanRows] \cup [{0} -> PlanRows] \cup {<< >>}
PlanPens == [from: PlanReads, to: PlanReads]

PlanTypeOK ==
    /\ scene \in Scenes /\ csv \in [Keys -> PlanRows] /\ counter \in Nat \ {0}
    /\ ask \in [Asks -> AskSteps] /\ lot \in [Asks -> Nat]
    /\ worker \in [Workers -> PlanSteps]
    /\ mon \in [step: MonSteps, todo: SUBSET Keys] /\ fired \in SUBSET Keys /\ up \in BOOLEAN
    /\ pen \in [Writers -> PlanPens]
    /\ entered \in [Keys -> Nat] /\ rearmed \in [Keys -> Nat]
    /\ marked \in SUBSET Keys /\ orphan \in SUBSET Keys /\ lost \in BOOLEAN

\* Every appended row took a number of its own.
Numbered == {r \in Asks : ask[r] \notin {"new", "loaded", "numbered"}}
PlanNumbers ==
    /\ counter <= Cardinality(Numbered) + 1
    /\ \A r \in Asks : ask[r] = "numbered" => lot[r] <= Cardinality(Numbered) + 1
    /\ \A r \in Asks : ask[r] \in HasRow \cup {"numbered", "appending"} => lot[r] \in Lots

\* What a writer holds is one file as it was, with one row changed by its step.
AskPen(p, step, k) ==
    /\ step \in {"loaded", "numbered"} => p.from \in [Lots -> PlanRows] /\ p.to = p.from
    /\ step = "appending" => /\ p.from \in [Lots -> PlanRows] /\ p.from[k] = NoRow
                             /\ p.to = [p.from EXCEPT ![k] = Entering]
    /\ step \in {"claim", "inline"} /\ p # NoPen =>
          /\ p.from \in [Lots -> PlanRows] /\ Claimable(p.from[k])
          /\ p.to = [p.from EXCEPT ![k] = [p.from[k] EXCEPT !.state = "placing"]]
    /\ step \notin {"loaded", "numbered", "appending", "claim", "inline"} => p = NoPen
AskPens == \A r \in Asks : AskPen(pen[<<"ask", r>>], ask[r], lot[r])
WorkerPen(p, k, step) ==
    p # NoPen => /\ step # "none" /\ p.from \in [FileOf(k) -> PlanRows]
                 /\ \E o \in Done : p.to = [p.from EXCEPT ![k] = Result(p.from[k], o)]
WorkerPens ==
    worker[<<"dashboard", 0>>] = "none" /\ \A w \in Workers : WorkerPen(pen[<<"worker", w>>], w[2], worker[w])
MonitorPen ==
    LET p == pen[<<"monitor">>] IN
    /\ mon.step \in {"allowed", "refused"} =>
          /\ Turn # 0 /\ p.from \in [Lots -> PlanRows]
          /\ p.from[Turn].state \in Claimables \/ Turn \in marked
          /\ \E s \in Claimables : p.to = [p.from EXCEPT ![Turn] = [p.from[Turn] EXCEPT !.state = s]]
    /\ mon.step = "spawn" =>
          /\ p.from \in [FileOf(Turn) -> PlanRows] /\ (Turn # 0 => Claimable(p.from[Turn]))
          /\ p.to = [p.from EXCEPT ![Turn] =
                        [p.from[Turn] EXCEPT !.state = IF Turn = 0 THEN "entering" ELSE "placing"]]
    /\ mon.step \notin {"allowed", "refused", "spawn"} => p = NoPen
    /\ mon.step \notin {"idle", "gate"} => mon.todo # {}
EditPen ==
    LET p == pen[<<"edit">>] IN
    p # NoPen => \/ p.from \in [Lots -> PlanRows] /\ p.to = p.from
                 \/ /\ p.from \in [{0} -> PlanRows]
                    /\ \E row \in PlanRows :
                         /\ p.to = [p.from EXCEPT ![0] = row]
                         /\ row.state = p.from[0].state \/ (p.from[0].state = "failed" /\ row.state = "pending")

\* A row nobody disturbed: while it may be claimed no order was sent for it, then one thread places it, and sends one.
Undisturbed(k) == ~lost /\ k \notin marked \cup orphan
LotOnce(k) ==
    /\ csv[k] = NoRow \/ Claimable(csv[k]) => entered[k] = 0 /\ \A p \in Processes : worker[<<p, k>>] = "none"
    /\ \A p, q \in Processes : worker[<<p, k>>] # "none" /\ worker[<<q, k>>] # "none" => p = q
    /\ \A p \in Processes : worker[<<p, k>>] = "placing" => entered[k] = 0
    /\ csv[k].state = "placing" => \E p \in Processes : worker[<<p, k>>] # "none"
    /\ entered[k] <= 1
LotsOnce == \A k \in Lots : Undisturbed(k) => LotOnce(k)

\* The tranche row: an order or a claim for each time it was armed, and one to come while it is pending.
Spent == entered[0] + IF worker[<<"launcher", 0>>] = "placing" THEN 1 ELSE 0
Rearms(p) == p # NoPen /\ 0 \in DOMAIN p.from /\ p.from[0].state = "failed" /\ p.to[0].state = "pending"
TrancheOnce ==
    Undisturbed(0) =>
        /\ Spent <= 1 + rearmed[0]
        /\ Rearms(pen[<<"edit">>]) => csv[0].state = "failed"
        /\ csv[0].state = "pending" \/ Rearms(pen[<<"edit">>]) => Spent <= rearmed[0]
        /\ worker[<<"launcher", 0>>] # "none" => csv[0].state = "entering"
        /\ 0 \in mon.todo /\ mon.step # "idle" => csv[0].state = "pending"

\* An accepted row stays in the file.
RowsStay == ~lost => \A r \in Asks : ask[r] \in HasRow => csv[lot[r]] # NoRow

PlanInv == PlanTypeOK /\ PlanNumbers /\ AskPens /\ WorkerPens /\ MonitorPen /\ EditPen /\ LotsOnce /\ TrancheOnce /\ RowsStay

\* The lots are numbered from 1 as far as there are requests, and each is in one file; row 0 is the MEIC tranche's.
LEMMA KeysFacts ==
  /\ Lots \subseteq Nat \ {0} /\ Keys = {0} \cup Lots /\ 0 \notin Lots /\ Cardinality(Asks) \in Nat
  /\ Lots = 1..Cardinality(Asks) /\ IsFiniteSet(Lots)
  /\ FileOf(0) = {0} /\ \A k \in Lots : FileOf(k) = Lots
<1>1. Cardinality(Asks) \in Nat
  BY PlanAssumption, FS_CardinalityType
<1>2. IsFiniteSet(1..Cardinality(Asks))
  BY <1>1, FS_Interval
<1> QED
  BY <1>1, <1>2 DEF Lots, Keys, FileOf

\* The writers of the plan files are told apart.
LEMMA WriterFacts ==
  /\ \A r \in Asks : <<"ask", r>> \in Writers
  /\ <<"monitor">> \in Writers /\ <<"edit">> \in Writers /\ <<"monitor">> # <<"edit">>
  /\ \A w \in Workers : <<"worker", w>> \in Writers /\ w[1] \in Processes /\ w[2] \in Keys /\ w = <<w[1], w[2]>>
  /\ \A p \in Processes, k \in Keys : <<p, k>> \in Workers
  /\ \A r \in Asks : <<"ask", r>> # <<"monitor">> /\ <<"ask", r>> # <<"edit">>
  /\ \A w \in Workers : <<"worker", w>> # <<"monitor">> /\ <<"worker", w>> # <<"edit">>
  /\ \A r \in Asks, w \in Workers : <<"ask", r>> # <<"worker", w>>
  /\ \A r, q \in Asks : <<"ask", r>> = <<"ask", q>> => r = q
  /\ \A v, w \in Workers : <<"worker", v>> = <<"worker", w>> => v = w
BY DEF Writers, Workers

\* The pens the launcher's end takes away are the monitor's and its workers'.
LEMMA LockedFacts ==
  /\ Locked(<<"monitor">>, "launcher") /\ ~Locked(<<"edit">>, "launcher")
  /\ \A r \in Asks : ~Locked(<<"ask", r>>, "launcher")
  /\ \A w \in Workers : Locked(<<"worker", w>>, "launcher") <=> w[1] = "launcher"
<1>1. \A k \in Keys : <<"edit">> # <<"worker", <<"launcher", k>>>> /\ <<"edit">> # <<"monitor">>
  BY WriterFacts DEF Processes
<1>2. \A r \in Asks, k \in Keys : <<"ask", r>> # <<"worker", <<"launcher", k>>>> /\ <<"ask", r>> # <<"monitor">>
  BY WriterFacts DEF Processes
<1>3. ASSUME NEW w \in Workers PROVE (\E k \in Keys : <<"worker", w>> = <<"worker", <<"launcher", k>>>>) <=> w[1] = "launcher"
  BY <1>3, WriterFacts DEF Processes
<1>4. \A w \in Workers : <<"worker", w>> # <<"monitor">>
  BY WriterFacts
<1> QED
  BY <1>1, <1>2, <1>3, <1>4, Zenon DEF Locked

\* The rows the code builds are rows, and a row with another state keeps the other fields.
LEMMA RowFacts ==
  /\ NoRow \in PlanRows /\ NoRow.state = "none" /\ NoRow.path = FALSE
  /\ Entering \in PlanRows /\ Entering.state = "entering" /\ Entering.path = FALSE
  /\ \A row \in PlanRows, s \in PlanStates : LET r == [row EXCEPT !.state = s] IN
        r \in PlanRows /\ r.state = s /\ r.path = row.path /\ r.paused = row.paused
<1>1. "none" \in PlanStates /\ "entering" \in PlanStates /\ FALSE \in BOOLEAN
  BY DEF PlanStates
<1>2. NoRow \in PlanRows /\ Entering \in PlanRows
  BY <1>1, Zenon DEF NoRow, Entering, PlanRows
<1>3. NoRow.state = "none" /\ NoRow.path = FALSE /\ Entering.state = "entering" /\ Entering.path = FALSE
  BY DEF NoRow, Entering
<1>4. ASSUME NEW row \in PlanRows, NEW s \in PlanStates PROVE LET r == [row EXCEPT !.state = s] IN
        r \in PlanRows /\ r.state = s /\ r.path = row.path /\ r.paused = row.paused
  BY DEF PlanRows
<1> QED
  BY <1>2, <1>3, <1>4, Zenon

\* The result of a worker is a row nobody may claim.
LEMMA ResultFacts ==
  ASSUME NEW row \in PlanRows, NEW o \in Done
  PROVE  /\ Result(row, o) \in PlanRows /\ ~Claimable(Result(row, o))
         /\ Result(row, o).state \in {"entered", "entering", "failed"}
<1>1. CASE o = "entered"
  <2>1. Result(row, o) = [row EXCEPT !.state = "entered", !.path = TRUE]
    BY <1>1 DEF Result
  <2> QED
    BY <2>1 DEF PlanRows, PlanStates, Claimable
<1>2. CASE o = "blind"
  <2>1. Result(row, o) = [row EXCEPT !.state = "entering", !.path = TRUE]
    BY <1>2 DEF Result
  <2> QED
    BY <2>1 DEF PlanRows, PlanStates, Claimable
<1>3. CASE o = "failed"
  <2>1. Result(row, o) = [row EXCEPT !.state = "failed"]
    BY <1>3 DEF Result
  <2>2. "failed" \in PlanStates /\ "failed" \notin Claimables
    BY DEF PlanStates, Claimables
  <2> QED
    BY <2>1, <2>2, RowFacts DEF Claimable
<1> QED
  BY <1>1, <1>2, <1>3 DEF Done

\* The row whose turn it is, is one of those left.
LEMMA TurnFacts ==
  ASSUME mon.todo \subseteq Keys, mon.todo # {}
  PROVE  Turn \in mon.todo /\ Turn \in Keys
<1>1. mon.todo \subseteq Nat
  BY KeysFacts
<1>2. PICK x \in mon.todo : \A y \in mon.todo : ~(<<y, x>> \in OpToRel(<, Nat))
  BY <1>1, NatLessThanWellFounded, WFMin
<1>3. \A y \in mon.todo : ~(y < x)
  <2> SUFFICES ASSUME NEW y \in mon.todo PROVE ~(y < x)
    OBVIOUS
  <2>1. y \in Nat /\ x \in Nat
    BY <1>1
  <2> QED
    BY <1>2, <2>1, Zenon DEF OpToRel
<1>4. \A y \in mon.todo : x <= y
  BY <1>1, <1>3
<1> QED
  BY <1>4 DEF Turn

\* The row the monitor looks at next depends on what it still has to look at only.
LEMMA TurnStays ==
  ASSUME mon'.todo = mon.todo
  PROVE  Turn' = Turn
BY DEF Turn

\* Loading changes no file...
LEMMA LoadFacts ==
  ASSUME PlanTypeOK, NEW w \in Writers, NEW k \in Keys, NEW row \in PlanRows, Load(w, k, row)
  PROVE  /\ pen' \in [Writers -> PlanPens] /\ pen[w] = NoPen /\ \A v \in Writers : v # w => pen'[v] = pen[v]
         /\ pen'[w] # NoPen /\ pen'[w].from \in [FileOf(k) -> PlanRows] /\ pen'[w].from[k] = csv[k]
         /\ pen'[w].to = [pen'[w].from EXCEPT ![k] = row] /\ \A j \in FileOf(k) : pen'[w].from[j] = csv[j]
         /\ pen'[w].to[k] = row /\ k \in FileOf(k)
<1> DEFINE read == [j \in FileOf(k) |-> csv[j]]
           to == [read EXCEPT ![k] = row]
           p == [from |-> read, to |-> to]
<1>1. k \in FileOf(k) /\ FileOf(k) \subseteq Keys /\ FileOf(k) \in {{0}, Lots}
  BY KeysFacts
<1>2. pen \in [Writers -> PlanPens] /\ csv \in [Keys -> PlanRows]
  BY DEF PlanTypeOK
<1>3. read \in [FileOf(k) -> PlanRows] /\ \A j \in FileOf(k) : read[j] = csv[j]
  BY <1>1, <1>2
<1>4. to \in [FileOf(k) -> PlanRows] /\ to[k] = row
  BY <1>1, <1>3
<1>5. pen[w] = NoPen /\ pen' = [pen EXCEPT ![w] = p]
  BY DEF Load, Free, Idle
<1> HIDE DEF read, to
<1>6. p \in PlanPens
  <2>1. read \in PlanReads /\ to \in PlanReads
    BY <1>1, <1>3, <1>4 DEF PlanReads
  <2> QED
    BY <2>1 DEF PlanPens
<1>7. p # NoPen
  <2>1. read # << >>
    BY <1>1, <1>3
  <2>2. p.from = read /\ NoPen.from = << >>
    BY DEF NoPen
  <2> QED
    BY <2>1, <2>2
<1>8. pen' \in [Writers -> PlanPens] /\ pen'[w] = p /\ \A v \in Writers : v # w => pen'[v] = pen[v]
  BY <1>2, <1>5, <1>6
<1> QED
  BY <1>1, <1>3, <1>4, <1>5, <1>7, <1>8 DEF to

\* ...and saving, unless it undoes another save, changes one row of it.
LEMMA SaveFacts ==
  ASSUME PlanTypeOK, NEW w \in Writers, Save(w)
  PROVE  /\ pen' \in [Writers -> PlanPens] /\ pen'[w] = NoPen /\ pen[w] # NoPen
         /\ \A v \in Writers : v # w => pen'[v] = pen[v]
         /\ csv' \in [Keys -> PlanRows] /\ lost' \in BOOLEAN /\ (lost => lost')
<1>1. pen \in [Writers -> PlanPens] /\ csv \in [Keys -> PlanRows] /\ lost \in BOOLEAN
  BY DEF PlanTypeOK
<1>2. NoPen \in PlanPens
  BY DEF NoPen, PlanPens, PlanReads
<1>3. pen' \in [Writers -> PlanPens] /\ pen'[w] = NoPen /\ pen[w] # NoPen /\ \A v \in Writers : v # w => pen'[v] = pen[v]
  BY <1>1, <1>2 DEF Save, Idle
<1>4. csv' \in [Keys -> PlanRows]
  <2>1. pen[w].to \in PlanReads
    BY <1>1 DEF PlanPens
  <2>2. \A k \in Keys : k \in DOMAIN pen[w].to => pen[w].to[k] \in PlanRows
    <3>1. CASE pen[w].to \in [Lots -> PlanRows] \/ pen[w].to \in [{0} -> PlanRows]
      BY <3>1
    <3>2. CASE pen[w].to = << >>
      BY <3>2
    <3> QED
      BY <2>1, <3>1, <3>2 DEF PlanReads
  <2> QED
    BY <1>1, <2>2 DEF Save
<1>5. lost' \in BOOLEAN /\ (lost => lost')
  BY <1>1 DEF Save
<1> QED
  BY <1>3, <1>4, <1>5

\* A save puts one row on file as its writer changed it; when no write was lost, the other rows are the ones it read.
LEMMA SavesOneRow ==
  ASSUME PlanTypeOK, NEW w \in Writers, Save(w), NEW k \in Keys, NEW row \in PlanRows,
         pen[w].from \in [FileOf(k) -> PlanRows], pen[w].to = [pen[w].from EXCEPT ![k] = row]
  PROVE  /\ csv'[k] = row /\ \A j \in Keys \ FileOf(k) : csv'[j] = csv[j]
         /\ ~lost' => ~lost /\ csv[k] = pen[w].from[k] /\ \A j \in Keys : j # k => csv'[j] = csv[j]
<1>1. k \in FileOf(k) /\ FileOf(k) \subseteq Keys
  BY KeysFacts
<1>2. DOMAIN pen[w].to = FileOf(k) /\ DOMAIN pen[w].from = FileOf(k) /\ pen[w].to[k] = row
      /\ \A j \in FileOf(k) : j # k => pen[w].to[j] = pen[w].from[j]
  BY <1>1
<1>3. csv' = [j \in Keys |-> IF j \in FileOf(k) THEN pen[w].to[j] ELSE csv[j]]
  BY <1>2 DEF Save
<1>4. ~lost' => ~lost /\ \A j \in FileOf(k) : pen[w].from[j] = csv[j]
  BY <1>2 DEF Save, PlanTypeOK
<1> QED
  BY <1>1, <1>2, <1>3, <1>4

\* A save of what was read changes nothing when no write was lost.
LEMMA SavesNothing ==
  ASSUME PlanTypeOK, NEW w \in Writers, Save(w), pen[w].from \in [Lots -> PlanRows], pen[w].to = pen[w].from
  PROVE  /\ csv'[0] = csv[0]
         /\ ~lost' => ~lost /\ \A j \in Keys : csv'[j] = csv[j]
BY KeysFacts DEF Save, PlanTypeOK

\* What a step leaves alone keeps its part of the invariant.
LEMMA NumbersFrame ==
  ASSUME PlanNumbers, ask' = ask, lot' = lot, counter' = counter
  PROVE  PlanNumbers'
BY DEF PlanNumbers, Numbered

\* The requests' copies are as they were when no request and no copy moved.
LEMMA AskFrame ==
  ASSUME AskPens, ask' = ask, lot' = lot, \A r \in Asks : pen'[<<"ask", r>>] = pen[<<"ask", r>>]
  PROVE  AskPens'
BY DEF AskPens

\* It is enough to look at the one request that moved.
LEMMA AskChange ==
  ASSUME AskPens, NEW r \in Asks, AskPen(pen'[<<"ask", r>>], ask'[r], lot'[r]),
         \A q \in Asks : q # r => ask'[q] = ask[q] /\ lot'[q] = lot[q] /\ pen'[<<"ask", q>>] = pen[<<"ask", q>>]
  PROVE  AskPens'
<1> SUFFICES ASSUME NEW q \in Asks PROVE AskPen(pen'[<<"ask", q>>], ask'[q], lot'[q])
  BY DEF AskPens
<1>1. CASE q = r
  BY <1>1
<1>2. CASE q # r
  BY <1>2 DEF AskPens
<1> QED
  BY <1>1, <1>2

\* The workers' copies are as they were when no worker and no copy moved.
LEMMA WorkerFrame ==
  ASSUME WorkerPens, worker' = worker, \A w \in Workers : pen'[<<"worker", w>>] = pen[<<"worker", w>>]
  PROVE  WorkerPens'
BY DEF WorkerPens

\* It is enough to look at the one worker that moved.
LEMMA WorkerChange ==
  ASSUME WorkerPens, NEW v \in Workers, WorkerPen(pen'[<<"worker", v>>], v[2], worker'[v]), worker'[<<"dashboard", 0>>] = "none",
         \A w \in Workers : w # v => worker'[w] = worker[w] /\ pen'[<<"worker", w>>] = pen[<<"worker", w>>]
  PROVE  WorkerPens'
<1> SUFFICES ASSUME NEW w \in Workers PROVE WorkerPen(pen'[<<"worker", w>>], w[2], worker'[w])
  BY DEF WorkerPens
<1>1. CASE w = v
  BY <1>1
<1>2. CASE w # v
  BY <1>2 DEF WorkerPens
<1> QED
  BY <1>1, <1>2

\* The monitor's copy is as it was when neither it nor its writer moved.
LEMMA MonitorFrame ==
  ASSUME MonitorPen, mon' = mon, marked \subseteq marked', pen'[<<"monitor">>] = pen[<<"monitor">>]
  PROVE  MonitorPen'
<1>1. Turn' = Turn
  BY TurnStays
<1> QED
  BY <1>1 DEF MonitorPen

\* The operator's copy is as it was when its writer did not move.
LEMMA EditFrame ==
  ASSUME EditPen, pen'[<<"edit">>] = pen[<<"edit">>]
  PROVE  EditPen'
BY DEF EditPen

\* It is enough to look at the one lot whose row, worker or count moved.
LEMMA LotsFrame ==
  ASSUME LotsOnce, NEW k \in Keys, marked \subseteq marked', orphan \subseteq orphan', lost => lost',
         \A j \in Lots : j # k => /\ ~lost' => csv'[j] = csv[j]
                                 /\ entered'[j] = entered[j]
                                 /\ \A p \in Processes : worker'[<<p, j>>] = worker[<<p, j>>],
         k \in Lots /\ Undisturbed(k)' /\ LotOnce(k) => LotOnce(k)'
  PROVE  LotsOnce'
<1> SUFFICES ASSUME NEW j \in Lots, Undisturbed(j)' PROVE LotOnce(j)'
  BY DEF LotsOnce
<1>1. LotOnce(j)
  BY DEF LotsOnce, Undisturbed
<1>2. CASE j = k
  BY <1>1, <1>2
<1>3. CASE j # k
  BY <1>1, <1>3 DEF LotOnce, Undisturbed
<1> QED
  BY <1>2, <1>3

\* A step that leaves the tranche's row, worker and counts alone keeps what is said of it.
LEMMA TrancheFrame ==
  ASSUME TrancheOnce, marked \subseteq marked', orphan \subseteq orphan', lost => lost', ~lost' => csv'[0] = csv[0],
         entered'[0] = entered[0], rearmed'[0] = rearmed[0], worker'[<<"launcher", 0>>] = worker[<<"launcher", 0>>],
         pen'[<<"edit">>] = pen[<<"edit">>],
         0 \in mon'.todo /\ mon'.step # "idle" => csv[0].state = "pending" \/ (0 \in mon.todo /\ mon.step # "idle")
  PROVE  TrancheOnce'
BY DEF TrancheOnce, Undisturbed, Spent

\* A step that takes no manual row off the file keeps the requests' rows there.
LEMMA RowsFrame ==
  ASSUME RowsStay, PlanNumbers, lost => lost',
         ~lost' => \A j \in Lots : csv[j] # NoRow => csv'[j] # NoRow,
         \A r \in Asks : ask'[r] \in HasRow /\ ~lost' => lot'[r] = lot[r] /\ (ask[r] \in HasRow \/ csv'[lot[r]] # NoRow)
  PROVE  RowsStay'
<1> SUFFICES ASSUME ~lost', NEW r \in Asks, ask'[r] \in HasRow PROVE csv'[lot'[r]] # NoRow
  BY DEF RowsStay
<1> QED
  BY DEF RowsStay, PlanNumbers

\* The requests that have a number or none yet.
LEMMA SettledFacts ==
  ASSUME PlanTypeOK
  PROVE  /\ IsFiniteSet(Numbered) /\ Numbered \subseteq Asks /\ Cardinality(Numbered) \in Nat
         /\ \A r \in Asks \ Numbered : /\ Cardinality(Numbered \cup {r}) = Cardinality(Numbered) + 1
                                     /\ Cardinality(Numbered) + 1 <= Cardinality(Asks)
<1>1. Numbered \subseteq Asks /\ IsFiniteSet(Numbered) /\ Cardinality(Numbered) \in Nat
  BY PlanAssumption, FS_Subset, FS_CardinalityType DEF Numbered
<1>2. ASSUME NEW r \in Asks \ Numbered PROVE /\ Cardinality(Numbered \cup {r}) = Cardinality(Numbered) + 1
                                           /\ Cardinality(Numbered) + 1 <= Cardinality(Asks)
  <2>1. Cardinality(Numbered \cup {r}) = Cardinality(Numbered) + 1
    BY <1>1, <1>2, FS_AddElement
  <2>2. Numbered \cup {r} \subseteq Asks
    BY <1>1, <1>2
  <2>3. Cardinality(Numbered \cup {r}) <= Cardinality(Asks)
    BY <2>2, PlanAssumption, FS_Subset
  <2> QED
    BY <2>1, <2>3
<1> QED
  BY <1>1, <1>2

\* Where there is a request there is a lot 1.
LEMMA FirstLot ==
  ASSUME NEW r \in Asks
  PROVE  1 \in Lots
<1>1. Cardinality(Asks) # 0 /\ Cardinality(Asks) \in Nat
  BY PlanAssumption, FS_EmptySet, FS_CardinalityType
<1> QED
  BY <1>1 DEF Lots

\* The same for a lot of the manual file, as the steps cite it.
LEMMA LoadsLot ==
  ASSUME PlanTypeOK, NEW w \in Writers, NEW k \in Lots, NEW row \in PlanRows, Load(w, k, row)
  PROVE  /\ pen' \in [Writers -> PlanPens] /\ \A v \in Writers : v # w => pen'[v] = pen[v]
         /\ pen'[w] # NoPen /\ pen'[w].from \in [Lots -> PlanRows] /\ pen'[w].from[k] = csv[k]
         /\ pen'[w].to = [pen'[w].from EXCEPT ![k] = row]
<1>1. k \in Keys /\ FileOf(k) = Lots
  BY KeysFacts
<1>2. pen' \in [Writers -> PlanPens] /\ \A v \in Writers : v # w => pen'[v] = pen[v]
  BY <1>1, LoadFacts
<1>3. pen'[w] # NoPen /\ pen'[w].from \in [FileOf(k) -> PlanRows] /\ pen'[w].from[k] = csv[k]
  BY <1>1, LoadFacts
<1>4. pen'[w].to = [pen'[w].from EXCEPT ![k] = row]
  BY <1>1, LoadFacts
<1> QED
  BY <1>1, <1>2, <1>3, <1>4

\* A save of one manual row leaves the tranche file alone.
LEMMA SavesOneLot ==
  ASSUME PlanTypeOK, NEW w \in Writers, Save(w), NEW k \in Lots, NEW row \in PlanRows,
         pen[w].from \in [Lots -> PlanRows], pen[w].to = [pen[w].from EXCEPT ![k] = row]
  PROVE  /\ csv'[k] = row /\ csv'[0] = csv[0]
         /\ ~lost' => ~lost /\ csv[k] = pen[w].from[k] /\ \A j \in Keys : j # k => csv'[j] = csv[j]
<1>1. k \in Keys /\ FileOf(k) = Lots /\ 0 \in Keys \ Lots
  BY KeysFacts
<1>2. pen[w].from \in [FileOf(k) -> PlanRows]
  BY <1>1
<1>3. csv'[k] = row /\ \A j \in Keys \ FileOf(k) : csv'[j] = csv[j]
  BY <1>1, <1>2, SavesOneRow
<1>4. ~lost' => ~lost /\ csv[k] = pen[w].from[k] /\ \A j \in Keys : j # k => csv'[j] = csv[j]
  BY <1>1, <1>2, SavesOneRow
<1> QED
  BY <1>1, <1>3, <1>4

\* A row claimed from a state no worker has had: one thread places it now.
LEMMA LotTaken ==
  ASSUME PlanTypeOK, NEW k \in Lots, NEW p0 \in Processes, LotOnce(k), Claimable(csv[k]),
         csv'[k].state = "placing", entered'[k] = entered[k],
         worker' = [worker EXCEPT ![<<p0, k>>] = "placing"]
  PROVE  LotOnce(k)'
<1>1. /\ k \in Keys /\ <<p0, k>> \in Workers /\ worker \in [Workers -> PlanSteps]
      /\ \A p \in Processes : <<p, k>> \in Workers
  BY KeysFacts, WriterFacts DEF PlanTypeOK
<1>2. entered[k] = 0 /\ \A p \in Processes : worker[<<p, k>>] = "none"
  BY DEF LotOnce
<1>3. worker'[<<p0, k>>] = "placing" /\ \A p \in Processes : p # p0 => worker'[<<p, k>>] = "none"
  BY <1>1, <1>2
<1>4. csv'[k] # NoRow /\ ~Claimable(csv'[k])
  BY RowFacts DEF Claimable, Claimables
<1>5. entered'[k] = 0
  BY <1>2
<1>6. \E p \in Processes : worker'[<<p, k>>] # "none"
  BY <1>3
<1>7. \A p, q \in Processes : worker'[<<p, k>>] # "none" /\ worker'[<<q, k>>] # "none" => p = q
  BY <1>3
<1>8. ~(csv'[k] = NoRow \/ Claimable(csv'[k]))
  BY <1>4
<1> QED
  BY <1>5, <1>6, <1>7, <1>8 DEF LotOnce

\* A step that saves nothing, starts no worker and sends no order.
LEMMA QuietFrame ==
  ASSUME PlanInv, csv' = csv, worker' = worker, entered' = entered, rearmed' = rearmed, marked \subseteq marked',
         orphan' = orphan, lost' = lost, pen'[<<"edit">>] = pen[<<"edit">>],
         0 \in mon'.todo /\ mon'.step # "idle" => csv[0].state = "pending" \/ (0 \in mon.todo /\ mon.step # "idle")
  PROVE  LotsOnce' /\ TrancheOnce'
<1>1. LotsOnce'
  BY KeysFacts, LotsFrame DEF PlanInv
<1>2. TrancheOnce'
  BY TrancheFrame DEF PlanInv
<1> QED
  BY <1>1, <1>2

\* The parts of the type invariant, one by one.
LEMMA PlanTypes ==
  ASSUME PlanTypeOK
  PROVE  /\ csv \in [Keys -> PlanRows] /\ ask \in [Asks -> AskSteps] /\ lot \in [Asks -> Nat]
         /\ worker \in [Workers -> PlanSteps] /\ pen \in [Writers -> PlanPens] /\ entered \in [Keys -> Nat]
         /\ rearmed \in [Keys -> Nat] /\ counter \in Nat \ {0} /\ lost \in BOOLEAN /\ up \in BOOLEAN
         /\ mon.step \in MonSteps /\ mon.todo \subseteq Keys /\ mon \in [step: MonSteps, todo: SUBSET Keys]
         /\ marked \subseteq Keys /\ orphan \subseteq Keys /\ fired \subseteq Keys
BY DEF PlanTypeOK

\* The requests.
LEMMA AskStep ==
  ASSUME PlanInv, NEW r \in Asks,
         OpenPlan(r) \/ TakeNumber(r) \/ AppendRow(r) \/ Appended(r) \/ Watch(r) \/ Claim(r) \/ Claimed(r)
  PROVE  PlanInv'
<1> DEFINE me == <<"ask", r>>
<1>1. /\ PlanTypeOK /\ PlanNumbers /\ AskPens /\ WorkerPens /\ MonitorPen /\ EditPen /\ LotsOnce /\ TrancheOnce /\ RowsStay
      /\ me \in Writers /\ me # <<"monitor">> /\ me # <<"edit">> /\ \A w \in Workers : me # <<"worker", w>>
      /\ \A q \in Asks : q # r => <<"ask", q>> # me
      /\ <<"monitor">> \in Writers /\ <<"edit">> \in Writers
      /\ (\A w \in Workers : <<"worker", w>> \in Writers) /\ \A q \in Asks : <<"ask", q>> \in Writers
  BY WriterFacts DEF PlanInv
<1>2. /\ csv \in [Keys -> PlanRows] /\ ask \in [Asks -> AskSteps] /\ lot \in [Asks -> Nat]
      /\ worker \in [Workers -> PlanSteps] /\ pen \in [Writers -> PlanPens] /\ counter \in Nat \ {0}
      /\ AskPen(pen[me], ask[r], lot[r]) /\ lost \in BOOLEAN
  BY <1>1, PlanTypes DEF AskPens
<1> HIDE DEF me
<1>3. ASSUME OpenPlan(r) PROVE PlanInv'
  <2>0. /\ ask[r] = "new"
        /\ UNCHANGED <<scene, csv, counter, lot, worker, mon, fired, up, edits, ticks, crashes, history, lost>>
    BY <1>3 DEF OpenPlan
  <2>a. \/ Load(me, 1, csv[1]) /\ ask' = [ask EXCEPT ![r] = "loaded"]
        \/ ask' = [ask EXCEPT ![r] = "refused"] /\ pen' = pen
    BY <1>3 DEF OpenPlan, me
  <2>b. 1 \in Lots /\ 1 \in Keys /\ csv[1] \in PlanRows /\ FileOf(1) = Lots
    BY <1>2, FirstLot, KeysFacts
  <2>c. /\ pen' \in [Writers -> PlanPens] /\ \A v \in Writers : v # me => pen'[v] = pen[v]
        /\ ask'[r] = "loaded" => pen'[me].from \in [Lots -> PlanRows] /\ pen'[me].to = pen'[me].from
        /\ ask'[r] # "loaded" => pen' = pen
    <3>1. CASE Load(me, 1, csv[1]) /\ ask' = [ask EXCEPT ![r] = "loaded"]
      <4>1. /\ pen' \in [Writers -> PlanPens] /\ \A v \in Writers : v # me => pen'[v] = pen[v]
            /\ pen'[me].from \in [Lots -> PlanRows] /\ pen'[me].from[1] = csv[1]
            /\ pen'[me].to = [pen'[me].from EXCEPT ![1] = csv[1]]
        BY <1>1, <2>b, <3>1, LoadsLot
      <4>2. pen'[me].to = pen'[me].from
        BY <2>b, <4>1
      <4>3. ask'[r] = "loaded"
        BY <1>2, <3>1
      <4> QED
        BY <4>1, <4>2, <4>3
    <3>2. CASE ask' = [ask EXCEPT ![r] = "refused"] /\ pen' = pen
      BY <1>2, <3>2
    <3> QED
      BY <2>a, <3>1, <3>2
  <2>d. ask' \in [Asks -> AskSteps] /\ ask'[r] \in {"loaded", "refused"} /\ \A q \in Asks : q # r => ask'[q] = ask[q]
    BY <1>2, <2>a DEF AskSteps
  <2>1. PlanTypeOK'
    BY <1>1, <2>0, <2>c, <2>d DEF PlanTypeOK, history
  <2>2. PlanNumbers'
    <3>1. Numbered' = Numbered \/ (r \in Asks \ Numbered /\ Numbered' = Numbered \cup {r})
      BY <2>0, <2>d DEF Numbered
    <3>2. Cardinality(Numbered)' >= Cardinality(Numbered) /\ Cardinality(Numbered)' \in Nat
      BY <1>1, <3>1, SettledFacts
    <3>3. Cardinality(Numbered) \in Nat
      BY <1>1, SettledFacts
    <3> QED
      BY <1>1, <1>2, <2>0, <2>d, <3>2, <3>3 DEF PlanNumbers, HasRow
  <2>3. AskPens'
    <3>1. AskPen(pen'[me], ask'[r], lot'[r])
      BY <1>2, <2>0, <2>c, <2>d DEF AskPen
    <3> QED
      BY <1>1, <2>0, <2>c, <2>d, <3>1, AskChange DEF me
  <2>4. WorkerPens'
    BY <1>1, <2>0, <2>c, WorkerFrame
  <2>5. MonitorPen'
    BY <1>1, <2>0, <2>c, MonitorFrame DEF history
  <2>6. EditPen'
    BY <1>1, <2>0, <2>c, EditFrame
  <2>7. LotsOnce' /\ TrancheOnce'
    BY <1>1, <2>0, <2>c, QuietFrame DEF history
  <2>8. RowsStay'
    BY <1>1, <2>0, <2>d, RowsFrame DEF HasRow
  <2> QED
    BY <2>1, <2>2, <2>3, <2>4, <2>5, <2>6, <2>7, <2>8 DEF PlanInv
<1>4. ASSUME TakeNumber(r) PROVE PlanInv'
  <2>0. /\ ask[r] = "loaded" /\ ask' = [ask EXCEPT ![r] = "numbered"] /\ lot' = [lot EXCEPT ![r] = counter]
        /\ UNCHANGED <<scene, csv, counter, worker, mon, fired, up, pen, edits, ticks, crashes, history, lost>>
    BY <1>4 DEF TakeNumber
  <2>d. /\ ask' \in [Asks -> AskSteps] /\ ask'[r] = "numbered" /\ \A q \in Asks : q # r => ask'[q] = ask[q] /\ lot'[q] = lot[q]
        /\ lot' \in [Asks -> Nat] /\ lot'[r] = counter
    BY <1>2, <2>0 DEF AskSteps
  <2>1. PlanTypeOK'
    BY <1>1, <2>0, <2>d DEF PlanTypeOK, history
  <2>2. PlanNumbers'
    <3>1. Numbered' = Numbered /\ r \in Asks \ Numbered
      BY <2>0, <2>d DEF Numbered
    <3>2. counter <= Cardinality(Numbered) + 1 /\ Cardinality(Numbered) + 1 <= Cardinality(Asks) /\ Cardinality(Numbered) \in Nat
      BY <1>1, <3>1, SettledFacts DEF PlanNumbers
    <3>3. counter \in Lots
      BY <1>2, <3>2, KeysFacts
    <3> QED
      BY <1>1, <2>0, <2>d, <3>1, <3>2, <3>3 DEF PlanNumbers, HasRow
  <2>3. AskPens'
    <3>1. AskPen(pen'[me], ask'[r], lot'[r])
      BY <1>2, <2>0, <2>d DEF AskPen
    <3> QED
      BY <1>1, <2>0, <2>d, <3>1, AskChange DEF me
  <2>4. WorkerPens'
    BY <1>1, <2>0, WorkerFrame
  <2>5. MonitorPen'
    BY <1>1, <2>0, MonitorFrame DEF history
  <2>6. EditPen'
    BY <1>1, <2>0, EditFrame
  <2>7. LotsOnce' /\ TrancheOnce'
    BY <1>1, <2>0, QuietFrame DEF history
  <2>8. RowsStay'
    BY <1>1, <2>0, <2>d, RowsFrame DEF HasRow
  <2> QED
    BY <2>1, <2>2, <2>3, <2>4, <2>5, <2>6, <2>7, <2>8 DEF PlanInv
<1>5. ASSUME AppendRow(r) PROVE PlanInv'
  <2>0. /\ ask[r] = "numbered" /\ counter' = lot[r] + 1
        /\ UNCHANGED <<scene, csv, lot, worker, mon, fired, up, edits, ticks, crashes, history, lost>>
    BY <1>5 DEF AppendRow
  <2>a. \/ /\ pen[me].to[lot[r]] = NoRow /\ pen' = [pen EXCEPT ![me].to[lot[r]] = Entering]
           /\ ask' = [ask EXCEPT ![r] = "appending"]
        \/ pen' = [pen EXCEPT ![me] = NoPen] /\ ask' = [ask EXCEPT ![r] = "refused"]
    BY <1>5 DEF AppendRow, me
  <2>b. lot[r] \in Lots /\ pen[me].from \in [Lots -> PlanRows] /\ pen[me].to = pen[me].from /\ pen[me] \in PlanPens
    BY <1>1, <1>2, <2>0 DEF PlanNumbers, AskPen
  <2>c. /\ pen' \in [Writers -> PlanPens] /\ \A v \in Writers : v # me => pen'[v] = pen[v]
        /\ AskPen(pen'[me], ask'[r], lot[r])
    <3>1. CASE /\ pen[me].to[lot[r]] = NoRow /\ pen' = [pen EXCEPT ![me].to[lot[r]] = Entering]
               /\ ask' = [ask EXCEPT ![r] = "appending"]
      <4> DEFINE to == [pen[me].from EXCEPT ![lot[r]] = Entering]
                 p == [pen[me] EXCEPT !.to = to]
      <4>1. to \in [Lots -> PlanRows]
        BY <2>b, RowFacts
      <4>2. pen' = [pen EXCEPT ![me] = p]
        BY <2>b, <3>1
      <4> HIDE DEF to
      <4>3. p \in PlanPens /\ p.from = pen[me].from /\ p.to = to
        BY <2>b, <4>1 DEF PlanPens, PlanReads
      <4> HIDE DEF p
      <4>4. pen' \in [Writers -> PlanPens] /\ pen'[me] = p /\ \A v \in Writers : v # me => pen'[v] = pen[v]
        BY <1>1, <1>2, <4>2, <4>3
      <4>5. ask'[r] = "appending" /\ p.from[lot[r]] = NoRow
        BY <1>2, <2>b, <3>1, <4>3
      <4> QED
        BY <2>b, <4>3, <4>4, <4>5 DEF AskPen, to
    <3>2. CASE pen' = [pen EXCEPT ![me] = NoPen] /\ ask' = [ask EXCEPT ![r] = "refused"]
      <4>1. NoPen \in PlanPens
        BY DEF NoPen, PlanPens, PlanReads
      <4> QED
        BY <1>1, <1>2, <3>2, <4>1 DEF AskPen
    <3> QED
      BY <2>a, <3>1, <3>2
  <2>d. ask' \in [Asks -> AskSteps] /\ ask'[r] \in {"appending", "refused"} /\ \A q \in Asks : q # r => ask'[q] = ask[q]
    BY <1>2, <2>a DEF AskSteps
  <2>1. PlanTypeOK'
    <3>1. counter' \in Nat \ {0}
      BY <1>2, <2>0
    <3> QED
      BY <1>1, <2>0, <2>c, <2>d, <3>1 DEF PlanTypeOK, history
  <2>2. PlanNumbers'
    <3>1. r \in Asks \ Numbered /\ Numbered' = Numbered \cup {r}
      BY <2>0, <2>d DEF Numbered
    <3>2. Cardinality(Numbered)' = Cardinality(Numbered) + 1 /\ Cardinality(Numbered) \in Nat
      BY <1>1, <3>1, SettledFacts
    <3>3. counter' <= Cardinality(Numbered)' + 1
      BY <1>1, <1>2, <2>0, <3>2 DEF PlanNumbers
    <3>4. ASSUME NEW q \in Asks, ask'[q] = "numbered" PROVE lot'[q] <= Cardinality(Numbered)' + 1
      BY <1>1, <1>2, <2>0, <2>d, <3>2, <3>4 DEF PlanNumbers
    <3> QED
      BY <1>1, <2>0, <2>b, <2>d, <3>3, <3>4 DEF PlanNumbers, HasRow
  <2>3. AskPens'
    BY <1>1, <2>0, <2>c, <2>d, AskChange DEF me
  <2>4. WorkerPens'
    BY <1>1, <2>0, <2>c, WorkerFrame
  <2>5. MonitorPen'
    BY <1>1, <2>0, <2>c, MonitorFrame DEF history
  <2>6. EditPen'
    BY <1>1, <2>0, <2>c, EditFrame
  <2>7. LotsOnce' /\ TrancheOnce'
    BY <1>1, <2>0, <2>c, QuietFrame DEF history
  <2>8. RowsStay'
    BY <1>1, <2>0, <2>d, RowsFrame DEF HasRow
  <2> QED
    BY <2>1, <2>2, <2>3, <2>4, <2>5, <2>6, <2>7, <2>8 DEF PlanInv
<1>6. ASSUME Appended(r) PROVE PlanInv'
  <2>0. /\ ask[r] = "appending" /\ Save(me) /\ ask' = [ask EXCEPT ![r] = IF up THEN "watch" ELSE "inline"]
        /\ UNCHANGED <<scene, counter, lot, worker, mon, fired, up, edits, ticks, crashes, history>>
    BY <1>6 DEF Appended, me
  <2>b. /\ lot[r] \in Lots /\ lot[r] \in Keys /\ pen[me].from \in [Lots -> PlanRows] /\ pen[me].from[lot[r]] = NoRow
        /\ pen[me].to = [pen[me].from EXCEPT ![lot[r]] = Entering] /\ FileOf(lot[r]) = Lots /\ Entering \in PlanRows
    BY <1>1, <1>2, <2>0, KeysFacts, RowFacts DEF PlanNumbers, AskPen
  <2>c. /\ pen' \in [Writers -> PlanPens] /\ \A v \in Writers : v # me => pen'[v] = pen[v]
        /\ pen'[me] = NoPen /\ csv' \in [Keys -> PlanRows] /\ lost' \in BOOLEAN /\ (lost => lost')
    BY <1>1, <2>0, SaveFacts
  <2>e. /\ csv'[lot[r]] = Entering /\ csv'[0] = csv[0]
        /\ ~lost' => ~lost /\ csv[lot[r]] = NoRow /\ \A j \in Keys : j # lot[r] => csv'[j] = csv[j]
    BY <1>1, <2>0, <2>b, SavesOneLot
  <2>d. ask' \in [Asks -> AskSteps] /\ ask'[r] \in {"watch", "inline"} /\ \A q \in Asks : q # r => ask'[q] = ask[q]
    BY <1>2, <2>0 DEF AskSteps
  <2>1. PlanTypeOK'
    BY <1>1, <2>0, <2>c, <2>d DEF PlanTypeOK, history
  <2>2. PlanNumbers'
    <3>1. Numbered' = Numbered
      BY <2>0, <2>d DEF Numbered
    <3> QED
      BY <1>1, <2>0, <2>b, <2>d, <3>1 DEF PlanNumbers, HasRow
  <2>3. AskPens'
    <3>1. AskPen(pen'[me], ask'[r], lot'[r])
      BY <2>c, <2>d DEF AskPen
    <3> QED
      BY <1>1, <2>0, <2>c, <2>d, <3>1, AskChange DEF me
  <2>4. WorkerPens'
    BY <1>1, <2>0, <2>c, WorkerFrame
  <2>5. MonitorPen'
    BY <1>1, <2>0, <2>c, MonitorFrame DEF history
  <2>6. EditPen'
    BY <1>1, <2>0, <2>c, EditFrame
  <2>7. LotsOnce'
    <3>1. ASSUME Undisturbed(lot[r])', LotOnce(lot[r]) PROVE LotOnce(lot[r])'
      <4>1. csv[lot[r]] = NoRow
        BY <2>e, <3>1 DEF Undisturbed
      <4>2. entered[lot[r]] = 0 /\ \A p \in Processes : worker[<<p, lot[r]>>] = "none"
        BY <3>1, <4>1 DEF LotOnce
      <4> QED
        BY <2>0, <2>e, <4>2, RowFacts DEF LotOnce, history
    <3> QED
      BY <1>1, <2>0, <2>b, <2>c, <2>e, <3>1, KeysFacts, LotsFrame DEF history
  <2>8. TrancheOnce'
    BY <1>1, <2>0, <2>c, <2>e, TrancheFrame DEF history
  <2>9. RowsStay'
    <3>1. Entering # NoRow
      BY RowFacts
    <3> QED
      BY <1>1, <2>0, <2>b, <2>c, <2>d, <2>e, <3>1, KeysFacts, RowsFrame DEF HasRow
  <2> QED
    BY <2>1, <2>2, <2>3, <2>4, <2>5, <2>6, <2>7, <2>8, <2>9 DEF PlanInv
<1>7. ASSUME Watch(r) PROVE PlanInv'
  <2>0. /\ ask[r] = "watch" /\ ask' \in {[ask EXCEPT ![r] = "claim"], [ask EXCEPT ![r] = "done"]}
        /\ UNCHANGED <<scene, csv, counter, lot, worker, mon, fired, up, pen, edits, ticks, crashes, history, lost>>
    BY <1>7 DEF Watch
  <2>d. ask' \in [Asks -> AskSteps] /\ ask'[r] \in {"claim", "done"} /\ \A q \in Asks : q # r => ask'[q] = ask[q]
    BY <1>2, <2>0 DEF AskSteps
  <2>1. PlanTypeOK'
    BY <1>1, <2>0, <2>d DEF PlanTypeOK, history
  <2>2. PlanNumbers'
    <3>1. Numbered' = Numbered
      BY <2>0, <2>d DEF Numbered
    <3> QED
      BY <1>1, <2>0, <2>d, <3>1 DEF PlanNumbers, HasRow
  <2>3. AskPens'
    <3>1. AskPen(pen'[me], ask'[r], lot'[r])
      BY <1>2, <2>0, <2>d DEF AskPen
    <3> QED
      BY <1>1, <2>0, <2>d, <3>1, AskChange DEF me
  <2>4. WorkerPens'
    BY <1>1, <2>0, WorkerFrame
  <2>5. MonitorPen'
    BY <1>1, <2>0, MonitorFrame DEF history
  <2>6. EditPen'
    BY <1>1, <2>0, EditFrame
  <2>7. LotsOnce' /\ TrancheOnce'
    BY <1>1, <2>0, QuietFrame DEF history
  <2>8. RowsStay'
    BY <1>1, <2>0, <2>d, RowsFrame DEF HasRow
  <2> QED
    BY <2>1, <2>2, <2>3, <2>4, <2>5, <2>6, <2>7, <2>8 DEF PlanInv
<1>8. ASSUME Claim(r) PROVE PlanInv'
  <2> DEFINE placing == [csv[lot[r]] EXCEPT !.state = "placing"]
  <2>0. /\ ask[r] \in {"claim", "inline"}
        /\ UNCHANGED <<scene, csv, counter, lot, worker, mon, fired, up, edits, ticks, crashes, history, lost>>
    BY <1>8 DEF Claim
  <2>a. \/ Claimable(csv[lot[r]]) /\ Load(me, lot[r], placing) /\ ask' = ask
        \/ ask' = [ask EXCEPT ![r] = "done"] /\ pen' = pen /\ pen[me] = NoPen
    BY <1>8 DEF Claim, me, Free, Idle
  <2>b. lot[r] \in Lots /\ lot[r] \in Keys /\ csv[lot[r]] \in PlanRows /\ FileOf(lot[r]) = Lots /\ placing \in PlanRows
    <3>1. lot[r] \in Lots /\ lot[r] \in Keys /\ csv[lot[r]] \in PlanRows /\ FileOf(lot[r]) = Lots
      BY <1>1, <1>2, <2>0, KeysFacts DEF PlanNumbers, HasRow
    <3>2. "placing" \in PlanStates
      BY DEF PlanStates
    <3> QED
      BY <3>1, <3>2, RowFacts
  <2>c. /\ pen' \in [Writers -> PlanPens] /\ \A v \in Writers : v # me => pen'[v] = pen[v]
        /\ AskPen(pen'[me], ask'[r], lot[r])
        /\ ask' \in [Asks -> AskSteps] /\ ask'[r] \in HasRow /\ \A q \in Asks : q # r => ask'[q] = ask[q]
    <3>1. CASE Claimable(csv[lot[r]]) /\ Load(me, lot[r], placing) /\ ask' = ask
      <4>1. /\ pen' \in [Writers -> PlanPens] /\ \A v \in Writers : v # me => pen'[v] = pen[v]
            /\ pen'[me].from \in [Lots -> PlanRows] /\ pen'[me].from[lot[r]] = csv[lot[r]]
            /\ pen'[me].to = [pen'[me].from EXCEPT ![lot[r]] = placing]
        BY <1>1, <2>b, <3>1, LoadFacts
      <4> QED
        BY <1>2, <2>0, <3>1, <4>1 DEF AskPen, HasRow
    <3>2. CASE ask' = [ask EXCEPT ![r] = "done"] /\ pen' = pen /\ pen[me] = NoPen
      BY <1>2, <3>2 DEF AskPen, HasRow, AskSteps
    <3> QED
      BY <2>a, <3>1, <3>2
  <2>1. PlanTypeOK'
    BY <1>1, <2>0, <2>c DEF PlanTypeOK, history
  <2>2. PlanNumbers'
    <3>1. Numbered' = Numbered
      BY <2>0, <2>c DEF Numbered, HasRow
    <3> QED
      BY <1>1, <2>0, <2>b, <2>c, <3>1 DEF PlanNumbers, HasRow
  <2>3. AskPens'
    BY <1>1, <2>0, <2>c, AskChange DEF me
  <2>4. WorkerPens'
    BY <1>1, <2>0, <2>c, WorkerFrame
  <2>5. MonitorPen'
    BY <1>1, <2>0, <2>c, MonitorFrame DEF history
  <2>6. EditPen'
    BY <1>1, <2>0, <2>c, EditFrame
  <2>7. LotsOnce' /\ TrancheOnce'
    BY <1>1, <2>0, <2>c, QuietFrame DEF history
  <2>8. RowsStay'
    BY <1>1, <2>0, <2>c, RowsFrame DEF HasRow
  <2> QED
    BY <2>1, <2>2, <2>3, <2>4, <2>5, <2>6, <2>7, <2>8 DEF PlanInv
<1>9. ASSUME Claimed(r) PROVE PlanInv'
  <2> DEFINE w0 == <<"dashboard", lot[r]>>
             row == [pen[me].from[lot[r]] EXCEPT !.state = "placing"]
  <2>0. /\ ask[r] \in {"claim", "inline"} /\ Save(me) /\ ask' = [ask EXCEPT ![r] = "done"]
        /\ worker' = [worker EXCEPT ![w0] = "placing"]
        /\ UNCHANGED <<scene, counter, lot, mon, fired, up, edits, ticks, crashes, history>>
    BY <1>9 DEF Claimed, me
  <2>c. /\ pen' \in [Writers -> PlanPens] /\ \A v \in Writers : v # me => pen'[v] = pen[v]
        /\ pen'[me] = NoPen /\ pen[me] # NoPen /\ csv' \in [Keys -> PlanRows] /\ lost' \in BOOLEAN /\ (lost => lost')
    BY <1>1, <2>0, SaveFacts
  <2>b. /\ lot[r] \in Lots /\ lot[r] \in Keys /\ pen[me].from \in [Lots -> PlanRows] /\ Claimable(pen[me].from[lot[r]])
        /\ pen[me].to = [pen[me].from EXCEPT ![lot[r]] = row] /\ FileOf(lot[r]) = Lots
    BY <1>1, <1>2, <2>0, <2>c, KeysFacts DEF PlanNumbers, AskPen, HasRow
  <2>f. row \in PlanRows /\ row.state = "placing"
    <3>1. "placing" \in PlanStates /\ pen[me].from[lot[r]] \in PlanRows
      BY <2>b DEF PlanStates
    <3> QED
      BY <3>1, RowFacts
  <2> HIDE DEF row
  <2>e. /\ csv'[lot[r]] = row /\ csv'[0] = csv[0]
        /\ ~lost' => /\ ~lost /\ csv[lot[r]] = pen[me].from[lot[r]]
                     /\ \A j \in Keys : j # lot[r] => csv'[j] = csv[j]
    BY <1>1, <2>0, <2>b, <2>f, SavesOneLot
  <2>d. ask' \in [Asks -> AskSteps] /\ ask'[r] = "done" /\ \A q \in Asks : q # r => ask'[q] = ask[q]
    BY <1>2, <2>0 DEF AskSteps
  <2>g. /\ w0 \in Workers /\ w0[2] = lot[r] /\ worker' \in [Workers -> PlanSteps] /\ worker'[w0] = "placing"
        /\ \A w \in Workers : w # w0 => worker'[w] = worker[w]
        /\ <<"launcher", 0>> \in Workers /\ <<"dashboard", 0>> \in Workers /\ <<"launcher", 0>> # w0 /\ <<"dashboard", 0>> # w0
    BY <1>2, <2>0, <2>b, WriterFacts, KeysFacts DEF Processes, PlanSteps
  <2>1. PlanTypeOK'
    BY <1>1, <2>0, <2>c, <2>d, <2>g DEF PlanTypeOK, history
  <2>2. PlanNumbers'
    <3>1. Numbered' = Numbered
      BY <2>0, <2>d DEF Numbered
    <3> QED
      BY <1>1, <2>0, <2>b, <2>d, <3>1 DEF PlanNumbers, HasRow
  <2>3. AskPens'
    <3>1. AskPen(pen'[me], ask'[r], lot'[r])
      BY <2>c, <2>d DEF AskPen
    <3> QED
      BY <1>1, <2>0, <2>c, <2>d, <3>1, AskChange DEF me
  <2>4. WorkerPens'
    <3>1. WorkerPen(pen'[<<"worker", w0>>], w0[2], worker'[w0])
      <4>1. WorkerPen(pen[<<"worker", w0>>], w0[2], worker[w0])
        BY <1>1, <2>g DEF WorkerPens
      <4>2. pen'[<<"worker", w0>>] = pen[<<"worker", w0>>] /\ worker'[w0] # "none"
        BY <1>1, <2>c, <2>g
      <4> HIDE DEF w0
      <4> QED
        BY <4>1, <4>2 DEF WorkerPen
    <3>2. worker'[<<"dashboard", 0>>] = "none"
      BY <1>1, <2>g DEF WorkerPens
    <3> HIDE DEF w0
    <3> QED
      BY <1>1, <2>c, <2>g, <3>1, <3>2, WorkerChange
  <2>5. MonitorPen'
    BY <1>1, <2>0, <2>c, MonitorFrame DEF history
  <2>6. EditPen'
    BY <1>1, <2>0, <2>c, EditFrame
  <2>7. LotsOnce'
    <3>1. ASSUME Undisturbed(lot[r])', LotOnce(lot[r]) PROVE LotOnce(lot[r])'
      <4>1. Claimable(csv[lot[r]])
        BY <2>b, <2>e, <3>1 DEF Undisturbed
      <4>2. csv'[lot[r]].state = "placing" /\ entered'[lot[r]] = entered[lot[r]] /\ "dashboard" \in Processes
        BY <2>0, <2>e, <2>f DEF history, Processes
      <4> QED
        BY <1>1, <2>0, <2>b, <3>1, <4>1, <4>2, LotTaken
    <3>2. \A j \in Lots, p \in Processes : j # lot[r] => worker'[<<p, j>>] = worker[<<p, j>>]
      BY <2>b, <2>g, WriterFacts, KeysFacts
    <3> QED
      BY <1>1, <2>0, <2>b, <2>c, <2>e, <3>1, <3>2, KeysFacts, LotsFrame DEF history
  <2>8. TrancheOnce'
    BY <1>1, <2>0, <2>c, <2>e, <2>g, TrancheFrame DEF history
  <2>9. RowsStay'
    <3>1. csv'[lot[r]] # NoRow
      BY <2>e, <2>f, RowFacts
    <3> QED
      BY <1>1, <2>0, <2>b, <2>c, <2>d, <2>e, <3>1, KeysFacts, RowsFrame DEF HasRow
  <2> QED
    BY <2>1, <2>2, <2>3, <2>4, <2>5, <2>6, <2>7, <2>8, <2>9 DEF PlanInv
<1> QED
  BY <1>3, <1>4, <1>5, <1>6, <1>7, <1>8, <1>9

\* When a worker's pen changes, the others do not.
LEMMA OtherPens ==
  ASSUME NEW w \in Workers, \A v \in Writers : v # <<"worker", w>> => pen'[v] = pen[v]
  PROVE  /\ \A q \in Asks : pen'[<<"ask", q>>] = pen[<<"ask", q>>]
         /\ \A v \in Workers : v # w => pen'[<<"worker", v>>] = pen[<<"worker", v>>]
         /\ pen'[<<"monitor">>] = pen[<<"monitor">>] /\ pen'[<<"edit">>] = pen[<<"edit">>]
BY WriterFacts

\* The tranche row has workers of the launcher only.
LEMMA TrancheWorker ==
  ASSUME WorkerPens, NEW w \in Workers, w[2] = 0, worker[w] # "none"
  PROVE  w = <<"launcher", 0>>
<1>1. w = <<w[1], 0>> /\ w[1] \in Processes
  BY WriterFacts
<1>2. worker[<<"dashboard", 0>>] = "none"
  BY DEF WorkerPens
<1> QED
  BY <1>1, <1>2 DEF Processes

\* The workers.
LEMMA WorkStep ==
  ASSUME PlanInv, NEW w \in Workers, Work(w) \/ ApplyResult(w) \/ Applied(w)
  PROVE  PlanInv'
<1> DEFINE me == <<"worker", w>>
<1>1. /\ PlanTypeOK /\ PlanNumbers /\ AskPens /\ WorkerPens /\ MonitorPen /\ EditPen /\ LotsOnce /\ TrancheOnce /\ RowsStay
      /\ me \in Writers
  BY WriterFacts DEF PlanInv
<1>2. /\ csv \in [Keys -> PlanRows] /\ worker \in [Workers -> PlanSteps] /\ pen \in [Writers -> PlanPens]
      /\ entered \in [Keys -> Nat] /\ rearmed \in [Keys -> Nat] /\ lost \in BOOLEAN
  BY <1>1, PlanTypes
<1>3. /\ w[1] \in Processes /\ w[2] \in Keys /\ w = <<w[1], w[2]>> /\ (w[2] = 0 \/ w[2] \in Lots)
      /\ <<"launcher", 0>> \in Workers /\ <<"dashboard", 0>> \in Workers
  BY WriterFacts, KeysFacts DEF Processes
<1>4. \A p \in Processes, j \in Keys : <<p, j>> \in Workers /\ (<<p, j>> = w <=> p = w[1] /\ j = w[2])
  BY <1>3, WriterFacts
<1>5. /\ WorkerPen(pen[me], w[2], worker[w]) /\ worker[<<"dashboard", 0>>] = "none"
      /\ (worker[w] # "none" /\ w[2] = 0 => w = <<"launcher", 0>>)
  BY <1>1, TrancheWorker DEF WorkerPens
<1> DEFINE k == w[2]
<1> HIDE DEF me, k
<1>6. k \in Keys /\ (k = 0 \/ k \in Lots) /\ 0 \in Keys /\ 0 \notin Lots /\ w[2] = k
  BY <1>3, KeysFacts DEF k
<1>7. ASSUME Work(w) PROVE PlanInv'
  <2>0. /\ worker[w] = "placing"
        /\ UNCHANGED <<scene, csv, counter, ask, lot, mon, fired, up, pen, edits, ticks, crashes,
                       rearmed, marked, orphan, lost>>
    BY <1>7 DEF Work
  <2>a. PICK outcome \in Outcomes : /\ worker' = [worker EXCEPT ![w] = outcome]
                                    /\ entered' = [entered EXCEPT ![k] = IF outcome = "failed" THEN @ ELSE @ + 1]
    BY <1>6, <1>7 DEF Work
  <2>b. outcome \in Done /\ outcome # "none" /\ outcome # "placing" /\ outcome \in PlanSteps
    BY DEF Outcomes, Done, PlanSteps
  <2>c. /\ worker' \in [Workers -> PlanSteps] /\ worker'[w] = outcome /\ \A v \in Workers : v # w => worker'[v] = worker[v]
        /\ entered' \in [Keys -> Nat] /\ entered'[k] \in {entered[k], entered[k] + 1}
        /\ \A j \in Keys : j # k => entered'[j] = entered[j]
    BY <1>2, <1>6, <2>a, <2>b
  <2>1. PlanTypeOK'
    BY <1>1, <2>0, <2>c DEF PlanTypeOK
  <2>2. PlanNumbers' /\ AskPens' /\ MonitorPen' /\ EditPen'
    BY <1>1, <2>0, NumbersFrame, AskFrame, MonitorFrame, EditFrame
  <2>3. WorkerPens'
    <3>1. WorkerPen(pen'[<<"worker", w>>], w[2], worker'[w])
      BY <1>5, <2>0, <2>b, <2>c DEF WorkerPen, me
    <3>2. worker'[<<"dashboard", 0>>] = "none"
      BY <1>3, <1>5, <2>0, <2>c
    <3> QED
      BY <1>1, <2>0, <2>c, <3>1, <3>2, WorkerChange
  <2>4. LotsOnce'
    <3>1. ASSUME k \in Lots, LotOnce(k) PROVE LotOnce(k)'
      <4>1. entered[k] = 0
        BY <1>3, <1>6, <2>0, <3>1 DEF LotOnce
      <4>2. entered'[k] <= 1
        BY <2>c, <4>1
      <4>3. ~(csv[k] = NoRow \/ Claimable(csv[k]))
        BY <1>3, <1>6, <2>0, <3>1 DEF LotOnce
      <4>4. \A p \in Processes : worker'[<<p, k>>] # "none" <=> worker[<<p, k>>] # "none"
        BY <1>4, <1>6, <2>0, <2>b, <2>c
      <4>5. \A p \in Processes : worker'[<<p, k>>] # "placing"
        <5> SUFFICES ASSUME NEW p \in Processes, worker'[<<p, k>>] = "placing" PROVE FALSE
          OBVIOUS
        <5>1. p # w[1]
          BY <1>3, <1>6, <2>b, <2>c
        <5>2. worker[<<p, k>>] = "placing"
          BY <1>4, <1>6, <2>c, <5>1
        <5> QED
          BY <1>3, <1>6, <2>0, <3>1, <5>1, <5>2 DEF LotOnce
      <4> QED
        BY <2>0, <3>1, <4>2, <4>3, <4>4, <4>5 DEF LotOnce
    <3>2. \A j \in Lots : j # k => entered'[j] = entered[j] /\ \A p \in Processes : worker'[<<p, j>>] = worker[<<p, j>>]
      BY <1>4, <1>6, <2>c, KeysFacts
    <3> QED
      BY <1>1, <1>6, <2>0, <3>1, <3>2, LotsFrame
  <2>5. TrancheOnce'
    <3>1. CASE k # 0
      <4>1. entered'[0] = entered[0] /\ worker'[<<"launcher", 0>>] = worker[<<"launcher", 0>>]
        BY <1>3, <1>4, <1>6, <2>c, <3>1
      <4> QED
        BY <1>1, <2>0, <4>1, TrancheFrame
    <3>2. CASE k = 0
      <4>1. w = <<"launcher", 0>>
        BY <1>5, <1>6, <2>0, <3>2
      <4>2. Spent' <= Spent /\ Spent \in Nat /\ Spent' \in Nat
        BY <1>2, <1>6, <2>0, <2>b, <2>c, <3>2, <4>1 DEF Spent
      <4>3. rearmed[0] \in Nat
        BY <1>2, <1>6
      <4> SUFFICES ASSUME Undisturbed(0)' PROVE TrancheOnce'
        BY DEF TrancheOnce
      <4>4. Undisturbed(0)
        BY <2>0 DEF Undisturbed
      <4>5. Rearms(pen[<<"edit">>])' <=> Rearms(pen[<<"edit">>])
        BY <2>0 DEF Rearms
      <4>6. worker[<<"launcher", 0>>] # "none"
        BY <2>0, <4>1
      <4> HIDE DEF Rearms
      <4> QED
        BY <1>1, <2>0, <4>2, <4>3, <4>4, <4>5, <4>6 DEF TrancheOnce
    <3> QED
      BY <3>1, <3>2
  <2>6. RowsStay'
    BY <1>1, <2>0, RowsFrame
  <2> QED
    BY <2>1, <2>2, <2>3, <2>4, <2>5, <2>6 DEF PlanInv
<1>8. ASSUME ApplyResult(w) PROVE PlanInv'
  <2>0. /\ worker[w] \in Done /\ Load(me, k, Result(csv[k], worker[w]))
        /\ UNCHANGED <<scene, csv, counter, ask, lot, worker, mon, fired, up, edits, ticks, crashes, history, lost>>
    BY <1>6, <1>8 DEF ApplyResult, Done, me
  <2>a. Result(csv[k], worker[w]) \in PlanRows
    BY <1>2, <1>6, <2>0, ResultFacts
  <2>b. pen' \in [Writers -> PlanPens] /\ \A v \in Writers : v # me => pen'[v] = pen[v]
    BY <1>1, <1>6, <2>0, <2>a, LoadFacts
  <2>c. /\ pen'[me].from \in [FileOf(k) -> PlanRows] /\ pen'[me].from[k] = csv[k]
        /\ pen'[me].to = [pen'[me].from EXCEPT ![k] = Result(csv[k], worker[w])]
    BY <1>1, <1>6, <2>0, <2>a, LoadFacts
  <2>d. /\ \A q \in Asks : pen'[<<"ask", q>>] = pen[<<"ask", q>>]
        /\ \A v \in Workers : v # w => pen'[<<"worker", v>>] = pen[<<"worker", v>>]
        /\ pen'[<<"monitor">>] = pen[<<"monitor">>] /\ pen'[<<"edit">>] = pen[<<"edit">>]
    <3>1. \A v \in Writers : v # <<"worker", w>> => pen'[v] = pen[v]
      BY <2>b DEF me
    <3> QED
      BY <3>1, OtherPens
  <2>1. PlanTypeOK'
    BY <1>1, <2>0, <2>b DEF PlanTypeOK, history
  <2>2. PlanNumbers' /\ AskPens' /\ MonitorPen' /\ EditPen'
    BY <1>1, <2>0, <2>d, NumbersFrame, AskFrame, MonitorFrame, EditFrame DEF history
  <2>3. WorkerPens'
    <3>1. WorkerPen(pen'[me], k, worker'[w])
      <4>1. worker'[w] # "none" /\ pen'[me].to = [pen'[me].from EXCEPT ![k] = Result(pen'[me].from[k], worker[w])]
        BY <2>0, <2>c DEF Done
      <4> QED
        BY <2>0, <2>c, <4>1 DEF WorkerPen
    <3> QED
      BY <1>1, <1>5, <1>6, <2>0, <2>d, <3>1, WorkerChange DEF me
  <2>4. LotsOnce' /\ TrancheOnce'
    BY <1>1, <2>0, <2>d, QuietFrame DEF history, PlanInv
  <2>5. RowsStay'
    BY <1>1, <2>0, RowsFrame
  <2> QED
    BY <2>1, <2>2, <2>3, <2>4, <2>5 DEF PlanInv
<1>9. ASSUME Applied(w) PROVE PlanInv'
  <2>0. /\ Save(me) /\ worker' = [worker EXCEPT ![w] = "none"]
        /\ UNCHANGED <<scene, counter, ask, lot, mon, fired, up, edits, ticks, crashes, history>>
    BY <1>9 DEF Applied, me
  <2>b. /\ pen' \in [Writers -> PlanPens] /\ pen'[me] = NoPen /\ pen[me] # NoPen /\ \A v \in Writers : v # me => pen'[v] = pen[v]
        /\ csv' \in [Keys -> PlanRows] /\ lost' \in BOOLEAN /\ (lost => lost')
    BY <1>1, <2>0, SaveFacts
  <2>c. worker[w] # "none" /\ pen[me].from \in [FileOf(k) -> PlanRows]
    BY <1>5, <1>6, <2>b DEF WorkerPen
  <2>d. PICK o \in Done : pen[me].to = [pen[me].from EXCEPT ![k] = Result(pen[me].from[k], o)]
    BY <1>5, <1>6, <2>b DEF WorkerPen
  <2> DEFINE res == Result(pen[me].from[k], o)
  <2>e. res \in PlanRows /\ ~Claimable(res) /\ res.state \in {"entered", "entering", "failed"}
    <3>1. pen[me].from[k] \in PlanRows
      BY <1>6, <2>c, KeysFacts
    <3> QED
      BY <3>1, ResultFacts
  <2>f. pen[me].to = [pen[me].from EXCEPT ![k] = res]
    BY <2>d
  <2> HIDE DEF res
  <2>g. csv'[k] = res /\ \A j \in Keys \ FileOf(k) : csv'[j] = csv[j]
    BY <1>1, <1>6, <2>0, <2>c, <2>e, <2>f, SavesOneRow
  <2>h. ~lost' => ~lost /\ \A j \in Keys : j # k => csv'[j] = csv[j]
    BY <1>1, <1>6, <2>0, <2>c, <2>e, <2>f, SavesOneRow
  <2>i. /\ \A q \in Asks : pen'[<<"ask", q>>] = pen[<<"ask", q>>]
        /\ \A v \in Workers : v # w => pen'[<<"worker", v>>] = pen[<<"worker", v>>]
        /\ pen'[<<"monitor">>] = pen[<<"monitor">>] /\ pen'[<<"edit">>] = pen[<<"edit">>]
    <3>1. \A v \in Writers : v # <<"worker", w>> => pen'[v] = pen[v]
      BY <2>b DEF me
    <3> QED
      BY <3>1, OtherPens
  <2>j. worker' \in [Workers -> PlanSteps] /\ worker'[w] = "none" /\ \A v \in Workers : v # w => worker'[v] = worker[v]
    BY <1>2, <2>0 DEF PlanSteps
  <2>1. PlanTypeOK'
    BY <1>1, <2>0, <2>b, <2>j DEF PlanTypeOK, history
  <2>2. PlanNumbers' /\ AskPens' /\ MonitorPen' /\ EditPen'
    BY <1>1, <2>0, <2>i, NumbersFrame, AskFrame, MonitorFrame, EditFrame DEF history
  <2>3. WorkerPens'
    <3>1. WorkerPen(pen'[me], k, worker'[w])
      BY <2>b DEF WorkerPen
    <3>2. worker'[<<"dashboard", 0>>] = "none"
      BY <1>3, <1>5, <2>j
    <3> QED
      BY <1>1, <1>6, <2>i, <2>j, <3>1, <3>2, WorkerChange DEF me
  <2>4. LotsOnce'
    <3>1. ASSUME k \in Lots, LotOnce(k) PROVE LotOnce(k)'
      <4>1. csv'[k] # NoRow /\ ~Claimable(csv'[k]) /\ csv'[k].state # "placing"
        BY <2>e, <2>g, RowFacts
      <4>2. \A p \in Processes : worker'[<<p, k>>] \in {"none", worker[<<p, k>>]}
        BY <1>4, <1>6, <2>j
      <4>3. entered'[k] = entered[k]
        BY <2>0 DEF history
      <4> QED
        BY <3>1, <4>1, <4>2, <4>3 DEF LotOnce
    <3>2. \A j \in Lots : j # k => \A p \in Processes : worker'[<<p, j>>] = worker[<<p, j>>]
      BY <1>4, <1>6, <2>j, KeysFacts
    <3>3. \A j \in Lots : j # k /\ ~lost' => csv'[j] = csv[j]
      BY <2>h, KeysFacts
    <3> QED
      BY <1>1, <1>6, <2>0, <2>b, <3>1, <3>2, <3>3, LotsFrame DEF history
  <2>5. TrancheOnce'
    <3>1. CASE k # 0
      <4>1. worker'[<<"launcher", 0>>] = worker[<<"launcher", 0>>] /\ (~lost' => csv'[0] = csv[0])
        BY <1>3, <1>6, <2>h, <2>j, <3>1
      <4> QED
        BY <1>1, <2>0, <2>b, <2>i, <4>1, TrancheFrame DEF history
    <3>2. CASE k = 0
      <4>1. w = <<"launcher", 0>>
        BY <1>5, <1>6, <2>c, <3>2
      <4>2. Spent' <= Spent /\ Spent \in Nat /\ Spent' \in Nat
        BY <1>2, <1>6, <2>0, <2>j, <4>1 DEF Spent, history
      <4>3. rearmed[0] \in Nat /\ rearmed' = rearmed /\ mon' = mon
        BY <1>2, <1>6, <2>0 DEF history
      <4> SUFFICES ASSUME Undisturbed(0)' PROVE TrancheOnce'
        BY DEF TrancheOnce
      <4>4. Undisturbed(0)
        BY <2>0, <2>b DEF Undisturbed, history
      <4>5. Rearms(pen[<<"edit">>])' <=> Rearms(pen[<<"edit">>])
        BY <2>i DEF Rearms
      <4>6. worker[<<"launcher", 0>>] # "none" /\ worker'[<<"launcher", 0>>] = "none"
        BY <2>c, <2>j, <4>1
      <4>7. csv[0].state = "entering"
        BY <1>1, <4>4, <4>6 DEF TrancheOnce
      <4>8. ~Rearms(pen[<<"edit">>]) /\ ~(0 \in mon.todo /\ mon.step # "idle")
        BY <1>1, <4>4, <4>7 DEF TrancheOnce
      <4>9. csv'[0].state # "pending"
        BY <2>e, <2>g, <3>2
      <4>10. Spent <= 1 + rearmed[0]
        BY <1>1, <4>4 DEF TrancheOnce
      <4> HIDE DEF Rearms
      <4> QED
        BY <4>2, <4>3, <4>5, <4>6, <4>8, <4>9, <4>10 DEF TrancheOnce
    <3> QED
      BY <3>1, <3>2
  <2>6. RowsStay'
    <3>1. res # NoRow
      BY <2>e, RowFacts
    <3>2. ~lost' => \A j \in Lots : csv[j] # NoRow => csv'[j] # NoRow
      BY <2>g, <2>h, <3>1, KeysFacts
    <3> QED
      BY <1>1, <2>0, <2>b, <3>2, RowsFrame
  <2> QED
    BY <2>1, <2>2, <2>3, <2>4, <2>5, <2>6 DEF PlanInv
<1> QED
  BY <1>7, <1>8, <1>9

\* When the monitor's pen changes, the others do not.
LEMMA MonitorAlone ==
  ASSUME \A v \in Writers : v # <<"monitor">> => pen'[v] = pen[v]
  PROVE  /\ \A q \in Asks : pen'[<<"ask", q>>] = pen[<<"ask", q>>]
         /\ \A v \in Workers : pen'[<<"worker", v>>] = pen[<<"worker", v>>]
         /\ pen'[<<"edit">>] = pen[<<"edit">>]
BY WriterFacts

\* Handling the next row, no row is being saved.
LEMMA MonitorIdles ==
  ASSUME pen'[<<"monitor">>] = NoPen,
         mon'.step = "claim" => mon'.todo # {}, mon'.step \in {"idle", "gate", "claim"}
  PROVE  MonitorPen'
BY DEF MonitorPen

\* A row the monitor marks is no other row than it was to its workers.
LEMMA LotMarked ==
  ASSUME PlanTypeOK, NEW k \in Lots, NEW s \in Claimables, LotOnce(k), csv[k].state \in Claimables,
         csv'[k] = [csv[k] EXCEPT !.state = s], entered' = entered, worker' = worker
  PROVE  LotOnce(k)'
<1>1. csv[k] \in PlanRows /\ s \in PlanStates /\ s # "none" /\ s # "placing"
  BY KeysFacts DEF PlanTypeOK, PlanStates, Claimables
<1>2. csv'[k].state = s /\ csv'[k].path = csv[k].path
  BY <1>1, RowFacts
<1>3. csv'[k] # NoRow /\ csv'[k].state # "placing" /\ (Claimable(csv'[k]) => Claimable(csv[k]))
  BY <1>1, <1>2, RowFacts DEF Claimable
<1> QED
  BY <1>3 DEF LotOnce

\* The entry monitor.
LEMMA MonitorStep ==
  ASSUME PlanInv, Tick \/ EndTick \/ Gate \/ Marked \/ Spawn \/ Spawned
  PROVE  PlanInv'
<1>0. PICK k : k = Turn
  OBVIOUS
<1> DEFINE me == <<"monitor">>
           p == pen[me]
<1>1. /\ PlanTypeOK /\ PlanNumbers /\ AskPens /\ WorkerPens /\ MonitorPen /\ EditPen /\ LotsOnce /\ TrancheOnce /\ RowsStay
      /\ me \in Writers
  BY WriterFacts DEF PlanInv
<1>2. /\ csv \in [Keys -> PlanRows] /\ worker \in [Workers -> PlanSteps] /\ pen \in [Writers -> PlanPens]
      /\ entered \in [Keys -> Nat] /\ rearmed \in [Keys -> Nat] /\ lost \in BOOLEAN
      /\ mon.step \in MonSteps /\ mon.todo \subseteq Keys /\ fired \subseteq Keys /\ marked \subseteq Keys
      /\ mon \in [step: MonSteps, todo: SUBSET Keys]
  BY <1>1, PlanTypes
<1>3. /\ mon.todo # {} => k \in mon.todo /\ k \in Keys
      /\ mon.step \notin {"idle", "gate"} => mon.todo # {} /\ k \in mon.todo /\ k \in Keys
  BY <1>0, <1>1, <1>2, TurnFacts DEF MonitorPen
<1>4. /\ 0 \in Keys /\ 0 \notin Lots /\ (\A j \in Keys : j = 0 \/ j \in Lots) /\ Lots \subseteq Keys
      /\ FileOf(0) = {0} /\ \A j \in Lots : FileOf(j) = Lots
  BY KeysFacts
<1>5. /\ mon.step \in {"allowed", "refused"} =>
          /\ k # 0 /\ p.from \in [Lots -> PlanRows]
          /\ p.from[k].state \in Claimables \/ k \in marked
          /\ \E s \in Claimables : p.to = [p.from EXCEPT ![k] = [p.from[k] EXCEPT !.state = s]]
      /\ mon.step = "spawn" =>
          /\ p.from \in [FileOf(k) -> PlanRows] /\ (k # 0 => Claimable(p.from[k]))
          /\ p.to = [p.from EXCEPT ![k] = [p.from[k] EXCEPT !.state = IF k = 0 THEN "entering" ELSE "placing"]]
      /\ mon.step \notin {"allowed", "refused", "spawn"} => p = NoPen
  BY <1>0, <1>1 DEF MonitorPen
<1> DEFINE next == [step |-> "gate", todo |-> mon.todo \ {k}]
<1>6. next = NextRow /\ next \in [step: MonSteps, todo: SUBSET Keys] /\ next.step = "gate" /\ next.todo = mon.todo \ {k}
  BY <1>0, <1>2 DEF NextRow, MonSteps
<1>7. \A s \in {"claim", "allowed", "refused", "spawn", "idle"} :
         LET m == [mon EXCEPT !.step = s] IN
         m \in [step: MonSteps, todo: SUBSET Keys] /\ m.step = s /\ m.todo = mon.todo
  BY <1>2 DEF MonSteps
<1> HIDE DEF me, p, next
<1>8. ASSUME Tick PROVE PlanInv'
  <2>0. /\ mon.step = "idle" /\ mon' = [step |-> "gate", todo |-> {j \in File : MayFire(j)}]
        /\ fired' \in {fired, fired \ {0}}
        /\ UNCHANGED <<scene, csv, counter, ask, lot, worker, up, pen, edits, crashes, history, lost>>
    BY <1>8 DEF Tick
  <2>a. mon' \in [step: MonSteps, todo: SUBSET Keys] /\ mon'.step = "gate" /\ (0 \in mon'.todo => csv[0].state = "pending")
    <3>1. File \subseteq Keys
      BY <1>4 DEF File
    <3>2. "gate" \in MonSteps /\ {j \in File : MayFire(j)} \subseteq Keys
      BY <3>1 DEF MonSteps
    <3> QED
      BY <2>0, <3>2 DEF MayFire
  <2>1. PlanTypeOK'
    BY <1>1, <1>2, <2>0, <2>a DEF PlanTypeOK, history
  <2>2. PlanNumbers' /\ AskPens' /\ WorkerPens' /\ EditPen'
    BY <1>1, <2>0, NumbersFrame, AskFrame, WorkerFrame, EditFrame
  <2>3. MonitorPen'
    <3>1. pen'[<<"monitor">>] = NoPen
      BY <1>5, <2>0 DEF me, p
    <3> QED
      BY <2>a, <3>1, MonitorIdles
  <2>4. LotsOnce' /\ TrancheOnce'
    BY <1>1, <2>0, <2>a, QuietFrame DEF history, PlanInv
  <2>5. RowsStay'
    BY <1>1, <2>0, RowsFrame
  <2> QED
    BY <2>1, <2>2, <2>3, <2>4, <2>5 DEF PlanInv
<1>9. ASSUME EndTick PROVE PlanInv'
  <2>0. /\ mon.step = "gate" /\ mon' = [mon EXCEPT !.step = "idle"]
        /\ UNCHANGED <<scene, csv, counter, ask, lot, worker, fired, up, pen, edits, ticks, crashes, history, lost>>
    BY <1>9 DEF EndTick
  <2>a. mon' \in [step: MonSteps, todo: SUBSET Keys] /\ mon'.step = "idle"
    BY <1>7, <2>0
  <2>1. PlanTypeOK'
    BY <1>1, <2>0, <2>a DEF PlanTypeOK, history
  <2>2. PlanNumbers' /\ AskPens' /\ WorkerPens' /\ EditPen'
    BY <1>1, <2>0, NumbersFrame, AskFrame, WorkerFrame, EditFrame
  <2>3. MonitorPen'
    <3>1. pen'[<<"monitor">>] = NoPen
      BY <1>5, <2>0 DEF me, p
    <3> QED
      BY <2>a, <3>1, MonitorIdles
  <2>4. LotsOnce' /\ TrancheOnce'
    BY <1>1, <2>0, <2>a, QuietFrame DEF history, PlanInv
  <2>5. RowsStay'
    BY <1>1, <2>0, RowsFrame
  <2> QED
    BY <2>1, <2>2, <2>3, <2>4, <2>5 DEF PlanInv
<1>10. ASSUME Gate PROVE PlanInv'
  <2>0. /\ mon.step = "gate" /\ mon.todo # {}
        /\ UNCHANGED <<scene, csv, counter, ask, lot, worker, fired, up, edits, ticks, crashes,
                       entered, rearmed, orphan, lost>>
    BY <1>10 DEF Gate
  <2>a. PICK s \in Claimables :
          \/ /\ mon' = (IF s = "entering" THEN [mon EXCEPT !.step = "claim"] ELSE NextRow)
             /\ UNCHANGED <<pen, marked>>
          \/ /\ k # 0 /\ Load(me, k, [csv[k] EXCEPT !.state = s])
             /\ mon' = [mon EXCEPT !.step = IF s = "entering" THEN "allowed" ELSE "refused"]
             /\ marked' = IF csv[k].state \in Claimables THEN marked ELSE marked \cup {k}
    BY <1>0, <1>10 DEF Gate, me
  <2>1. ASSUME mon' = (IF s = "entering" THEN [mon EXCEPT !.step = "claim"] ELSE NextRow), UNCHANGED <<pen, marked>>
        PROVE  PlanInv'
    <3>a. /\ mon' \in [step: MonSteps, todo: SUBSET Keys] /\ mon'.step \in {"gate", "claim"}
          /\ (mon'.step = "claim" => mon'.todo # {}) /\ mon'.todo \subseteq mon.todo
      BY <1>6, <1>7, <2>0, <2>1
    <3>1. PlanTypeOK'
      BY <1>1, <2>0, <2>1, <3>a DEF PlanTypeOK
    <3>2. PlanNumbers' /\ AskPens' /\ WorkerPens' /\ EditPen'
      BY <1>1, <2>0, <2>1, NumbersFrame, AskFrame, WorkerFrame, EditFrame
    <3>3. MonitorPen'
      <4>1. pen'[<<"monitor">>] = NoPen
        BY <1>5, <2>0, <2>1 DEF me, p
      <4> QED
        BY <3>a, <4>1, MonitorIdles
    <3>4. LotsOnce' /\ TrancheOnce'
      BY <1>1, <2>0, <2>1, <3>a, QuietFrame DEF PlanInv
    <3>5. RowsStay'
      BY <1>1, <2>0, RowsFrame
    <3> QED
      BY <3>1, <3>2, <3>3, <3>4, <3>5 DEF PlanInv
  <2>2. ASSUME k # 0, Load(me, k, [csv[k] EXCEPT !.state = s]),
               mon' = [mon EXCEPT !.step = IF s = "entering" THEN "allowed" ELSE "refused"],
               marked' = IF csv[k].state \in Claimables THEN marked ELSE marked \cup {k}
        PROVE  PlanInv'
    <3> DEFINE row == [csv[k] EXCEPT !.state = s]
    <3>a. k \in Lots /\ k \in Keys /\ csv[k] \in PlanRows /\ mon.todo # {}
      BY <1>2, <1>3, <1>4, <2>0, <2>2
    <3>b. row \in PlanRows
      <4>1. s \in PlanStates
        BY DEF PlanStates, Claimables
      <4> QED
        BY <3>a, <4>1, RowFacts
    <3>c. Load(me, k, row)
      BY <2>2
    <3>d. k = Turn /\ row = [csv[k] EXCEPT !.state = s]
      BY <1>0
    <3> HIDE DEF row
    <3>e. pen' \in [Writers -> PlanPens] /\ \A v \in Writers : v # me => pen'[v] = pen[v]
      BY <1>1, <3>a, <3>b, <3>c, LoadsLot
    <3>f. pen'[me].from \in [Lots -> PlanRows] /\ pen'[me].from[k] = csv[k] /\ pen'[me].to = [pen'[me].from EXCEPT ![k] = row]
      BY <1>1, <3>a, <3>b, <3>c, LoadsLot
    <3>g. /\ \A q \in Asks : pen'[<<"ask", q>>] = pen[<<"ask", q>>]
          /\ \A v \in Workers : pen'[<<"worker", v>>] = pen[<<"worker", v>>]
          /\ pen'[<<"edit">>] = pen[<<"edit">>]
      <4>1. \A v \in Writers : v # <<"monitor">> => pen'[v] = pen[v]
        BY <3>e DEF me
      <4> QED
        BY <4>1, MonitorAlone
    <3>h. /\ mon' \in [step: MonSteps, todo: SUBSET Keys] /\ mon'.step \in {"allowed", "refused"} /\ mon'.todo = mon.todo
          /\ marked' \in SUBSET Keys /\ marked \subseteq marked' /\ (csv[k].state \in Claimables \/ k \in marked')
      BY <1>2, <1>7, <2>2, <3>a
    <3>1. PlanTypeOK'
      BY <1>1, <2>0, <3>e, <3>h DEF PlanTypeOK
    <3>2. PlanNumbers' /\ AskPens' /\ WorkerPens' /\ EditPen'
      BY <1>1, <2>0, <3>g, NumbersFrame, AskFrame, WorkerFrame, EditFrame
    <3>3. MonitorPen'
      <4>1. Turn' = k
        BY <3>d, <3>h, TurnStays
      <4>2. pen'[<<"monitor">>].to = [pen'[<<"monitor">>].from EXCEPT ![k] = [pen'[<<"monitor">>].from[k] EXCEPT !.state = s]]
        BY <3>d, <3>f DEF me
      <4>3. /\ pen'[<<"monitor">>].from \in [Lots -> PlanRows]
            /\ pen'[<<"monitor">>].from[k].state \in Claimables \/ k \in marked'
        BY <3>f, <3>h DEF me
      <4> QED
        BY <2>2, <3>a, <3>h, <4>1, <4>2, <4>3 DEF MonitorPen
    <3>4. LotsOnce' /\ TrancheOnce'
      BY <1>1, <2>0, <3>g, <3>h, QuietFrame DEF PlanInv
    <3>5. RowsStay'
      BY <1>1, <2>0, RowsFrame
    <3> QED
      BY <3>1, <3>2, <3>3, <3>4, <3>5 DEF PlanInv
  <2> QED
    BY <2>a, <2>1, <2>2
<1>11. ASSUME Marked PROVE PlanInv'
  <2>0. /\ mon.step \in {"allowed", "refused"} /\ Save(me)
        /\ mon' = (IF mon.step = "allowed" THEN [mon EXCEPT !.step = "claim"] ELSE NextRow)
        /\ UNCHANGED <<scene, counter, ask, lot, worker, fired, up, edits, ticks, crashes, history>>
    BY <1>11 DEF Marked, me
  <2>a. /\ k \in Lots /\ k \in Keys /\ p.from \in [Lots -> PlanRows] /\ mon.todo # {}
        /\ p.from[k].state \in Claimables \/ k \in marked
    BY <1>3, <1>4, <1>5, <2>0
  <2>b. PICK s \in Claimables : p.to = [p.from EXCEPT ![k] = [p.from[k] EXCEPT !.state = s]]
    BY <1>5, <2>0
  <2> DEFINE row == [p.from[k] EXCEPT !.state = s]
  <2>c. row \in PlanRows /\ row.state = s /\ s # "none" /\ s # "placing"
    <3>1. s \in PlanStates /\ p.from[k] \in PlanRows /\ s # "none" /\ s # "placing"
      BY <2>a DEF PlanStates, Claimables
    <3> QED
      BY <3>1, RowFacts
  <2>d. pen[me].from \in [Lots -> PlanRows] /\ pen[me].to = [pen[me].from EXCEPT ![k] = row]
    BY <2>a, <2>b DEF p
  <2>e. row = [pen[me].from[k] EXCEPT !.state = s]
    BY DEF p
  <2> HIDE DEF row
  <2>f. /\ csv'[k] = row /\ csv'[0] = csv[0]
        /\ ~lost' => ~lost /\ csv[k] = pen[me].from[k] /\ \A j \in Keys : j # k => csv'[j] = csv[j]
    BY <1>1, <2>0, <2>a, <2>c, <2>d, SavesOneLot
  <2>g. /\ pen' \in [Writers -> PlanPens] /\ pen'[me] = NoPen /\ \A v \in Writers : v # me => pen'[v] = pen[v]
        /\ csv' \in [Keys -> PlanRows] /\ lost' \in BOOLEAN /\ (lost => lost')
    BY <1>1, <2>0, SaveFacts
  <2>h. /\ \A q \in Asks : pen'[<<"ask", q>>] = pen[<<"ask", q>>]
        /\ \A v \in Workers : pen'[<<"worker", v>>] = pen[<<"worker", v>>]
        /\ pen'[<<"edit">>] = pen[<<"edit">>]
    <3>1. \A v \in Writers : v # <<"monitor">> => pen'[v] = pen[v]
      BY <2>g DEF me
    <3> QED
      BY <3>1, MonitorAlone
  <2>i. /\ mon' \in [step: MonSteps, todo: SUBSET Keys] /\ mon'.step \in {"gate", "claim"} /\ mon'.todo \subseteq mon.todo
        /\ (mon'.step = "claim" => mon'.todo # {})
    BY <1>6, <1>7, <2>0, <2>a
  <2>1. PlanTypeOK'
    BY <1>1, <2>0, <2>g, <2>i DEF PlanTypeOK, history
  <2>2. PlanNumbers' /\ AskPens' /\ WorkerPens' /\ EditPen'
    BY <1>1, <2>0, <2>h, NumbersFrame, AskFrame, WorkerFrame, EditFrame
  <2>3. MonitorPen'
    <3>1. pen'[<<"monitor">>] = NoPen
      BY <2>g DEF me
    <3> QED
      BY <2>i, <3>1, MonitorIdles
  <2>4. LotsOnce'
    <3>1. ASSUME Undisturbed(k)', LotOnce(k) PROVE LotOnce(k)'
      <4>1. ~lost' /\ k \notin marked
        BY <2>0, <3>1 DEF Undisturbed, history
      <4>2. csv[k].state \in Claimables /\ csv'[k] = [csv[k] EXCEPT !.state = s]
        BY <2>a, <2>e, <2>f, <4>1 DEF p
      <4> QED
        BY <1>1, <2>0, <2>a, <3>1, <4>2, LotMarked DEF history
    <3>2. \A j \in Lots : j # k /\ ~lost' => csv'[j] = csv[j]
      BY <1>4, <2>f
    <3> QED
      BY <1>1, <2>0, <2>a, <2>g, <3>1, <3>2, LotsFrame DEF history
  <2>5. TrancheOnce'
    <3>1. 0 \in mon'.todo /\ mon'.step # "idle" => 0 \in mon.todo /\ mon.step # "idle"
      BY <2>0, <2>i
    <3> QED
      BY <1>1, <2>0, <2>f, <2>g, <2>h, <3>1, TrancheFrame DEF history
  <2>6. RowsStay'
    <3>1. ~lost' => \A j \in Lots : csv[j] # NoRow => csv'[j] # NoRow
      BY <1>4, <2>c, <2>f, RowFacts
    <3> QED
      BY <1>1, <2>0, <2>g, <3>1, RowsFrame
  <2> QED
    BY <2>1, <2>2, <2>3, <2>4, <2>5, <2>6 DEF PlanInv
<1>12. ASSUME Spawn PROVE PlanInv'
  <2> DEFINE s == IF k = 0 THEN "entering" ELSE "placing"
             row == [csv[k] EXCEPT !.state = s]
  <2>0. /\ mon.step = "claim"
        /\ UNCHANGED <<scene, csv, counter, ask, lot, worker, fired, up, edits, ticks, crashes, history, lost>>
    BY <1>12 DEF Spawn
  <2>a. \/ mon' = NextRow /\ pen' = pen
        \/ /\ (k = 0 \/ Claimable(csv[k])) /\ Load(me, k, row) /\ mon' = [mon EXCEPT !.step = "spawn"]
    BY <1>0, <1>12 DEF Spawn, me
  <2>b. k \in mon.todo /\ k \in Keys /\ csv[k] \in PlanRows /\ mon.todo # {} /\ k = Turn
    BY <1>0, <1>2, <1>3, <2>0
  <2>c. row \in PlanRows
    <3>1. s \in PlanStates
      BY DEF PlanStates
    <3> QED
      BY <2>b, <3>1, RowFacts
  <2>1. ASSUME mon' = NextRow, pen' = pen PROVE PlanInv'
    <3>a. mon' \in [step: MonSteps, todo: SUBSET Keys] /\ mon'.step = "gate" /\ mon'.todo \subseteq mon.todo
      BY <1>6, <2>1
    <3>1. PlanTypeOK'
      BY <1>1, <2>0, <2>1, <3>a DEF PlanTypeOK, history
    <3>2. PlanNumbers' /\ AskPens' /\ WorkerPens' /\ EditPen'
      BY <1>1, <2>0, <2>1, NumbersFrame, AskFrame, WorkerFrame, EditFrame
    <3>3. MonitorPen'
      <4>1. pen'[<<"monitor">>] = NoPen
        BY <1>5, <2>0, <2>1 DEF me, p
      <4> QED
        BY <3>a, <4>1, MonitorIdles
    <3>4. LotsOnce' /\ TrancheOnce'
      BY <1>1, <2>0, <2>1, <3>a, QuietFrame DEF PlanInv, history
    <3>5. RowsStay'
      BY <1>1, <2>0, RowsFrame
    <3> QED
      BY <3>1, <3>2, <3>3, <3>4, <3>5 DEF PlanInv
  <2>2. ASSUME k = 0 \/ Claimable(csv[k]), Load(me, k, row), mon' = [mon EXCEPT !.step = "spawn"] PROVE PlanInv'
    <3>d. row = [csv[k] EXCEPT !.state = IF k = 0 THEN "entering" ELSE "placing"]
      OBVIOUS
    <3> HIDE DEF row
    <3>e. pen' \in [Writers -> PlanPens] /\ \A v \in Writers : v # me => pen'[v] = pen[v]
      BY <1>1, <2>b, <2>c, <2>2, LoadFacts
    <3>f. pen'[me].from \in [FileOf(k) -> PlanRows] /\ pen'[me].from[k] = csv[k] /\ pen'[me].to = [pen'[me].from EXCEPT ![k] = row]
      BY <1>1, <2>b, <2>c, <2>2, LoadFacts
    <3>g. /\ \A q \in Asks : pen'[<<"ask", q>>] = pen[<<"ask", q>>]
          /\ \A v \in Workers : pen'[<<"worker", v>>] = pen[<<"worker", v>>]
          /\ pen'[<<"edit">>] = pen[<<"edit">>]
      <4>1. \A v \in Writers : v # <<"monitor">> => pen'[v] = pen[v]
        BY <3>e DEF me
      <4> QED
        BY <4>1, MonitorAlone
    <3>h. mon' \in [step: MonSteps, todo: SUBSET Keys] /\ mon'.step = "spawn" /\ mon'.todo = mon.todo
      BY <1>7, <2>2
    <3>1. PlanTypeOK'
      BY <1>1, <2>0, <3>e, <3>h DEF PlanTypeOK, history
    <3>2. PlanNumbers' /\ AskPens' /\ WorkerPens' /\ EditPen'
      BY <1>1, <2>0, <3>g, NumbersFrame, AskFrame, WorkerFrame, EditFrame
    <3>3. MonitorPen'
      <4>1. Turn' = k
        BY <2>b, <3>h, TurnStays
      <4>2. pen'[<<"monitor">>].to = [pen'[<<"monitor">>].from EXCEPT ![k] =
                                        [pen'[<<"monitor">>].from[k] EXCEPT !.state = IF k = 0 THEN "entering" ELSE "placing"]]
        BY <3>d, <3>f DEF me
      <4>3. pen'[<<"monitor">>].from \in [FileOf(k) -> PlanRows] /\ (k # 0 => Claimable(pen'[<<"monitor">>].from[k]))
        BY <2>2, <3>f DEF me
      <4> QED
        BY <2>b, <3>h, <4>1, <4>2, <4>3 DEF MonitorPen
    <3>4. LotsOnce' /\ TrancheOnce'
      BY <1>1, <2>0, <3>g, <3>h, QuietFrame DEF PlanInv, history
    <3>5. RowsStay'
      BY <1>1, <2>0, RowsFrame
    <3> QED
      BY <3>1, <3>2, <3>3, <3>4, <3>5 DEF PlanInv
  <2> HIDE DEF row
  <2> QED
    BY <2>a, <2>1, <2>2
<1>13. ASSUME Spawned PROVE PlanInv'
  <2> DEFINE s == IF k = 0 THEN "entering" ELSE "placing"
             row == [p.from[k] EXCEPT !.state = s]
             w0 == <<"launcher", k>>
  <2>0. /\ mon.step = "spawn" /\ Save(me) /\ fired' = fired \cup {k}
        /\ worker' = [worker EXCEPT ![<<"launcher", k>>] = "placing"] /\ mon' = NextRow
        /\ UNCHANGED <<scene, counter, ask, lot, up, edits, ticks, crashes, history>>
    BY <1>0, <1>13 DEF Spawned, me
  <2>a. /\ k \in mon.todo /\ k \in Keys /\ p.from \in [FileOf(k) -> PlanRows] /\ (k # 0 => Claimable(p.from[k]))
        /\ p.to = [p.from EXCEPT ![k] = row] /\ k \in FileOf(k)
    BY <1>3, <1>4, <1>5, <2>0
  <2>b. row \in PlanRows /\ row.state = s
    <3>1. s \in PlanStates /\ p.from[k] \in PlanRows
      BY <2>a DEF PlanStates
    <3> QED
      BY <3>1, RowFacts
  <2>c. pen[me].from \in [FileOf(k) -> PlanRows] /\ pen[me].to = [pen[me].from EXCEPT ![k] = row] /\ p = pen[me]
    BY <2>a DEF p
  <2> HIDE DEF row
  <2>d. csv'[k] = row /\ \A j \in Keys \ FileOf(k) : csv'[j] = csv[j]
    BY <1>1, <2>0, <2>a, <2>b, <2>c, SavesOneRow
  <2>e. ~lost' => ~lost /\ csv[k] = pen[me].from[k] /\ \A j \in Keys : j # k => csv'[j] = csv[j]
    BY <1>1, <2>0, <2>a, <2>b, <2>c, SavesOneRow
  <2>f. /\ pen' \in [Writers -> PlanPens] /\ pen'[me] = NoPen /\ \A v \in Writers : v # me => pen'[v] = pen[v]
        /\ csv' \in [Keys -> PlanRows] /\ lost' \in BOOLEAN /\ (lost => lost')
    BY <1>1, <2>0, SaveFacts
  <2>g. /\ \A q \in Asks : pen'[<<"ask", q>>] = pen[<<"ask", q>>]
        /\ \A v \in Workers : pen'[<<"worker", v>>] = pen[<<"worker", v>>]
        /\ pen'[<<"edit">>] = pen[<<"edit">>]
    <3>1. \A v \in Writers : v # <<"monitor">> => pen'[v] = pen[v]
      BY <2>f DEF me
    <3> QED
      BY <3>1, MonitorAlone
  <2>h. /\ mon' \in [step: MonSteps, todo: SUBSET Keys] /\ mon'.step = "gate" /\ mon'.todo = mon.todo \ {k}
        /\ fired' \in SUBSET Keys
    BY <1>2, <1>6, <2>0, <2>a
  <2>i. /\ w0 \in Workers /\ w0[2] = k /\ <<"dashboard", 0>> # w0 /\ <<"dashboard", 0>> \in Workers
        /\ \A q \in Processes, j \in Keys : <<q, j>> \in Workers /\ (<<q, j>> = w0 <=> q = "launcher" /\ j = k)
    BY <1>4, <2>a, WriterFacts DEF Processes
  <2>j. /\ worker' \in [Workers -> PlanSteps] /\ worker'[w0] = "placing"
        /\ \A w \in Workers : w # w0 => worker'[w] = worker[w]
    BY <1>2, <2>0, <2>i DEF PlanSteps
  <2>1. PlanTypeOK'
    BY <1>1, <2>0, <2>f, <2>h, <2>j DEF PlanTypeOK, history
  <2>2. PlanNumbers' /\ AskPens' /\ EditPen'
    BY <1>1, <2>0, <2>g, NumbersFrame, AskFrame, EditFrame
  <2>3. WorkerPens'
    <3>1. WorkerPen(pen'[<<"worker", w0>>], w0[2], worker'[w0])
      <4>1. WorkerPen(pen[<<"worker", w0>>], w0[2], worker[w0])
        BY <1>1, <2>i DEF WorkerPens
      <4>2. pen'[<<"worker", w0>>] = pen[<<"worker", w0>>] /\ worker'[w0] # "none"
        BY <2>g, <2>i, <2>j
      <4> HIDE DEF w0
      <4> QED
        BY <4>1, <4>2 DEF WorkerPen
    <3>2. worker'[<<"dashboard", 0>>] = "none"
      BY <1>1, <2>i, <2>j DEF WorkerPens
    <3> HIDE DEF w0
    <3> QED
      BY <1>1, <2>g, <2>i, <2>j, <3>1, <3>2, WorkerChange
  <2>4. MonitorPen'
    <3>1. pen'[<<"monitor">>] = NoPen
      BY <2>f DEF me
    <3> QED
      BY <2>h, <3>1, MonitorIdles
  <2>5. LotsOnce'
    <3>1. ASSUME k \in Lots, Undisturbed(k)', LotOnce(k) PROVE LotOnce(k)'
      <4>1. ~lost' /\ k # 0
        BY <1>4, <3>1 DEF Undisturbed
      <4>2. Claimable(csv[k]) /\ csv'[k].state = "placing"
        BY <2>a, <2>b, <2>c, <2>d, <2>e, <4>1
      <4>3. entered'[k] = entered[k] /\ "launcher" \in Processes
        BY <2>0 DEF history, Processes
      <4> QED
        BY <1>1, <2>0, <3>1, <4>2, <4>3, LotTaken
    <3>2. \A j \in Lots : j # k => \A q \in Processes : worker'[<<q, j>>] = worker[<<q, j>>]
      BY <1>4, <2>i, <2>j
    <3>3. \A j \in Lots : j # k /\ ~lost' => csv'[j] = csv[j]
      BY <1>4, <2>e
    <3> QED
      BY <1>1, <2>0, <2>a, <2>f, <3>1, <3>2, <3>3, LotsFrame DEF history
  <2>6. TrancheOnce'
    <3>1. CASE k # 0
      <4>1. <<"launcher", 0>> \in Workers /\ <<"launcher", 0>> # w0
        BY <1>4, <2>i, <3>1 DEF Processes
      <4>2. worker'[<<"launcher", 0>>] = worker[<<"launcher", 0>>] /\ (~lost' => csv'[0] = csv[0])
        BY <1>4, <2>e, <2>j, <3>1, <4>1
      <4>3. 0 \in mon'.todo /\ mon'.step # "idle" => 0 \in mon.todo /\ mon.step # "idle"
        BY <2>0, <2>h
      <4> QED
        BY <1>1, <2>0, <2>f, <2>g, <4>2, <4>3, TrancheFrame DEF history
    <3>2. CASE k = 0
      <4> SUFFICES ASSUME Undisturbed(0)' PROVE TrancheOnce'
        BY DEF TrancheOnce
      <4>1. Undisturbed(0)
        BY <2>0, <2>f DEF Undisturbed, history
      <4>2. csv[0].state = "pending"
        BY <1>1, <2>0, <2>a, <3>2, <4>1 DEF TrancheOnce
      <4>3. Spent <= rearmed[0] /\ worker[<<"launcher", 0>>] = "none" /\ ~Rearms(pen[<<"edit">>])
        BY <1>1, <4>1, <4>2 DEF TrancheOnce
      <4>4. entered[0] \in Nat /\ rearmed[0] \in Nat /\ entered' = entered /\ rearmed' = rearmed
        BY <1>2, <1>4, <2>0 DEF history
      <4>5. worker'[<<"launcher", 0>>] = "placing" /\ csv'[0].state = "entering" /\ 0 \notin mon'.todo
        BY <2>b, <2>d, <2>h, <2>j, <3>2
      <4>6. Spent' <= 1 + rearmed'[0]
        BY <4>3, <4>4, <4>5 DEF Spent
      <4>7. ~Rearms(pen'[<<"edit">>])
        BY <2>g, <4>3 DEF Rearms
      <4> HIDE DEF Rearms, Spent
      <4> QED
        BY <4>5, <4>6, <4>7 DEF TrancheOnce
    <3> QED
      BY <3>1, <3>2
  <2>7. RowsStay'
    <3>1. row # NoRow
      BY <2>b, RowFacts
    <3>2. ~lost' => \A j \in Lots : csv[j] # NoRow => csv'[j] # NoRow
      BY <1>4, <2>d, <2>e, <3>1
    <3> QED
      BY <1>1, <2>0, <2>f, <3>2, RowsFrame
  <2> QED
    BY <2>1, <2>2, <2>3, <2>4, <2>5, <2>6, <2>7 DEF PlanInv
<1> QED
  BY <1>8, <1>9, <1>10, <1>11, <1>12, <1>13

\* When the edit's pen changes, the others do not.
LEMMA EditAlone ==
  ASSUME \A v \in Writers : v # <<"edit">> => pen'[v] = pen[v]
  PROVE  /\ \A q \in Asks : pen'[<<"ask", q>>] = pen[<<"ask", q>>]
         /\ \A v \in Workers : pen'[<<"worker", v>>] = pen[<<"worker", v>>]
         /\ pen'[<<"monitor">>] = pen[<<"monitor">>]
BY WriterFacts

\* What an operator may write into the tranche row.
LEMMA TrancheEditFacts ==
  ASSUME PlanTypeOK, NEW row \in TrancheEdits
  PROVE  /\ row \in PlanRows
         /\ row.state = csv[0].state \/ (csv[0].state = "failed" /\ row.state = "pending")
<1>1. csv[0] \in PlanRows /\ "pending" \in PlanStates
  BY KeysFacts DEF PlanTypeOK, PlanStates
<1>2. CASE row = csv[0]
  BY <1>1, <1>2
<1>3. CASE row = [csv[0] EXCEPT !.paused = ~@]
  BY <1>1, <1>3 DEF PlanRows
<1>4. CASE csv[0].state = "failed" /\ row = [csv[0] EXCEPT !.state = "pending"]
  BY <1>1, <1>4, RowFacts
<1> QED
  BY <1>2, <1>3, <1>4 DEF TrancheEdits

\* An operator loads a row...
LEMMA EditStep ==
  ASSUME PlanInv, NEW k \in Keys, Edit(k)
  PROVE  PlanInv'
<1> DEFINE me == <<"edit">>
<1>1. /\ PlanTypeOK /\ PlanNumbers /\ AskPens /\ WorkerPens /\ MonitorPen /\ EditPen /\ LotsOnce /\ TrancheOnce /\ RowsStay
      /\ me \in Writers
  BY WriterFacts DEF PlanInv
<1>2. /\ csv \in [Keys -> PlanRows] /\ rearmed \in [Keys -> Nat] /\ entered \in [Keys -> Nat] /\ 0 \in Keys /\ 0 \notin Lots
      /\ (k = 0 \/ k \in Lots) /\ FileOf(0) = {0} /\ (\A j \in Lots : FileOf(j) = Lots) /\ pen \in [Writers -> PlanPens]
  BY <1>1, PlanTypes, KeysFacts
<1>3. UNCHANGED <<scene, csv, counter, ask, lot, worker, mon, fired, up, ticks, crashes, entered, marked, orphan, lost>>
  BY DEF Edit
<1>4. PICK row \in IF k = 0 THEN TrancheEdits ELSE ManualEdits(k) :
        /\ Load(me, k, row)
        /\ rearmed' = [rearmed EXCEPT ![k] = IF row.state # csv[k].state THEN @ + 1 ELSE @]
  BY DEF Edit
<1>5. /\ row \in PlanRows /\ (k # 0 => row = csv[k])
      /\ row.state = csv[k].state \/ (k = 0 /\ csv[k].state = "failed" /\ row.state = "pending")
  <2>1. CASE k = 0
    BY <1>1, <1>4, <2>1, TrancheEditFacts
  <2>2. CASE k # 0
    BY <1>2, <1>4, <2>2 DEF ManualEdits
  <2> QED
    BY <2>1, <2>2
<1> HIDE DEF me
<1>6. pen' \in [Writers -> PlanPens] /\ \A v \in Writers : v # me => pen'[v] = pen[v]
  BY <1>1, <1>4, <1>5, LoadFacts
<1>7. /\ pen'[me].from \in [FileOf(k) -> PlanRows] /\ pen'[me].from[k] = csv[k]
      /\ pen'[me].to = [pen'[me].from EXCEPT ![k] = row]
  BY <1>1, <1>4, <1>5, LoadFacts
<1>8. pen[me] = NoPen /\ pen'[me] # NoPen /\ k \in FileOf(k) /\ pen'[me].to[k] = row
  <2>1. pen[me] = NoPen /\ pen'[me] # NoPen
    BY <1>1, <1>4, <1>5, LoadFacts
  <2>2. k \in FileOf(k)
    BY <1>2
  <2>3. pen'[me].to[k] = row
    BY <1>7, <2>2
  <2> QED
    BY <2>1, <2>2, <2>3
<1>9. /\ \A q \in Asks : pen'[<<"ask", q>>] = pen[<<"ask", q>>]
      /\ \A v \in Workers : pen'[<<"worker", v>>] = pen[<<"worker", v>>]
      /\ pen'[<<"monitor">>] = pen[<<"monitor">>]
  <2>1. \A v \in Writers : v # <<"edit">> => pen'[v] = pen[v]
    BY <1>6 DEF me
  <2> QED
    BY <2>1, EditAlone
<1>10. rearmed' \in [Keys -> Nat] /\ (k = 0 /\ row.state # csv[0].state => rearmed'[0] = rearmed[0] + 1)
       /\ rearmed'[0] >= rearmed[0] /\ rearmed[0] \in Nat /\ rearmed'[0] \in Nat
  BY <1>2, <1>4
<1>11. PlanTypeOK'
  BY <1>1, <1>3, <1>6, <1>10 DEF PlanTypeOK
<1>12. PlanNumbers' /\ AskPens' /\ WorkerPens' /\ MonitorPen'
  BY <1>1, <1>3, <1>9, NumbersFrame, AskFrame, WorkerFrame, MonitorFrame
<1>13. EditPen'
  <2>1. CASE k # 0
    <3>1. pen'[me].from \in [Lots -> PlanRows]
      BY <1>2, <1>7, <2>1
    <3>2. pen'[me].to = pen'[me].from
      BY <1>2, <1>5, <1>7, <2>1, <3>1
    <3> QED
      BY <3>1, <3>2 DEF EditPen, me
  <2>2. CASE k = 0
    <3>1. pen'[me].from \in [{0} -> PlanRows]
      BY <1>2, <1>7, <2>2
    <3>2. /\ pen'[me].to = [pen'[me].from EXCEPT ![0] = row]
          /\ row.state = pen'[me].from[0].state \/ (pen'[me].from[0].state = "failed" /\ row.state = "pending")
      BY <1>5, <1>7, <2>2
    <3> QED
      BY <1>5, <3>1, <3>2 DEF EditPen, me
  <2> QED
    BY <2>1, <2>2
<1>14. LotsOnce'
  BY <1>1, <1>2, <1>3, LotsFrame
<1>15. TrancheOnce'
  <2> SUFFICES ASSUME Undisturbed(0)' PROVE TrancheOnce'
    BY DEF TrancheOnce
  <2>1. Undisturbed(0)
    BY <1>3 DEF Undisturbed
  <2>2. Spent' = Spent /\ Spent \in Nat
    BY <1>2, <1>3 DEF Spent
  <2>4. Rearms(pen'[me]) => csv[0].state = "failed" /\ Spent <= 1 + rearmed[0] /\ rearmed'[0] = rearmed[0] + 1
    <3> SUFFICES ASSUME Rearms(pen'[me]) PROVE csv[0].state = "failed" /\ Spent <= 1 + rearmed[0] /\ rearmed'[0] = rearmed[0] + 1
      OBVIOUS
    <3>1. 0 \in FileOf(k)
      BY <1>7 DEF Rearms
    <3>2. k = 0
      BY <1>2, <3>1
    <3>3. csv[0].state = "failed" /\ row.state = "pending"
      BY <1>7, <1>8, <3>2 DEF Rearms
    <3> QED
      BY <1>1, <1>10, <2>1, <3>2, <3>3 DEF TrancheOnce
  <2>5. Rearms(pen[me])' <=> Rearms(pen'[me])
    BY DEF Rearms
  <2>6. Rearms(pen[<<"edit">>])' <=> Rearms(pen'[me])
    BY <2>5 DEF me, Rearms
  <2> HIDE DEF Rearms, Spent
  <2> QED
    BY <1>1, <1>3, <1>10, <2>1, <2>2, <2>4, <2>6 DEF TrancheOnce
<1>16. RowsStay'
  BY <1>1, <1>3, RowsFrame
<1> QED
  BY <1>11, <1>12, <1>13, <1>14, <1>15, <1>16 DEF PlanInv

\* ...and saves it.
LEMMA EditedStep ==
  ASSUME PlanInv, Edited
  PROVE  PlanInv'
<1> DEFINE me == <<"edit">>
           p == pen[me]
<1>1. /\ PlanTypeOK /\ PlanNumbers /\ AskPens /\ WorkerPens /\ MonitorPen /\ EditPen /\ LotsOnce /\ TrancheOnce /\ RowsStay
      /\ me \in Writers
  BY WriterFacts DEF PlanInv
<1>2. /\ csv \in [Keys -> PlanRows] /\ rearmed \in [Keys -> Nat] /\ entered \in [Keys -> Nat] /\ 0 \in Keys /\ 0 \notin Lots
      /\ Lots \subseteq Keys /\ FileOf(0) = {0}
  BY <1>1, PlanTypes, KeysFacts
<1>3. Save(me) /\ UNCHANGED <<scene, counter, ask, lot, worker, mon, fired, up, edits, ticks, crashes, history>>
  BY DEF Edited
<1> HIDE DEF me
<1>4. /\ pen' \in [Writers -> PlanPens] /\ pen'[me] = NoPen /\ pen[me] # NoPen /\ \A v \in Writers : v # me => pen'[v] = pen[v]
      /\ csv' \in [Keys -> PlanRows] /\ lost' \in BOOLEAN /\ (lost => lost')
  BY <1>1, <1>3, SaveFacts
<1>5. /\ \A q \in Asks : pen'[<<"ask", q>>] = pen[<<"ask", q>>]
      /\ \A v \in Workers : pen'[<<"worker", v>>] = pen[<<"worker", v>>]
      /\ pen'[<<"monitor">>] = pen[<<"monitor">>]
  <2>1. \A v \in Writers : v # <<"edit">> => pen'[v] = pen[v]
    BY <1>4 DEF me
  <2> QED
    BY <2>1, EditAlone
<1>6. /\ \A j \in Lots : ~lost' => csv'[j] = csv[j]
      /\ ~lost' => ~lost
      /\ ~lost' => \/ csv'[0].state = csv[0].state
                   \/ csv[0].state = "failed" /\ csv'[0].state = "pending" /\ Rearms(p)
  <2>1. CASE p.from \in [Lots -> PlanRows] /\ p.to = p.from
    BY <1>1, <1>2, <1>3, <2>1, SavesNothing
  <2>2. CASE /\ p.from \in [{0} -> PlanRows]
             /\ \E row \in PlanRows :
                  /\ p.to = [p.from EXCEPT ![0] = row]
                  /\ row.state = p.from[0].state \/ (p.from[0].state = "failed" /\ row.state = "pending")
    <3>1. PICK row \in PlanRows : /\ p.to = [p.from EXCEPT ![0] = row]
                                  /\ row.state = p.from[0].state \/ (p.from[0].state = "failed" /\ row.state = "pending")
      BY <2>2
    <3>2. pen[me].from \in [FileOf(0) -> PlanRows] /\ pen[me].to = [pen[me].from EXCEPT ![0] = row]
      BY <1>2, <2>2, <3>1
    <3>3. csv'[0] = row
      BY <1>1, <1>2, <1>3, <3>2, SavesOneRow
    <3>4. ~lost' => ~lost /\ csv[0] = pen[me].from[0] /\ \A j \in Keys : j # 0 => csv'[j] = csv[j]
      BY <1>1, <1>2, <1>3, <3>2, SavesOneRow
    <3>5. p.to[0] = row /\ 0 \in DOMAIN p.from
      BY <2>2, <3>1
    <3>6. p.from[0].state = "failed" /\ row.state = "pending" => Rearms(p)
      BY <1>4, <3>5 DEF Rearms
    <3> HIDE DEF Rearms
    <3>7. ~lost' => csv[0] = p.from[0]
      BY <3>4
    <3> QED
      BY <1>2, <3>1, <3>3, <3>4, <3>6, <3>7
  <2> QED
    BY <1>1, <1>4, <2>1, <2>2 DEF EditPen, me
<1>7. PlanTypeOK'
  BY <1>1, <1>3, <1>4 DEF PlanTypeOK, history
<1>8. PlanNumbers' /\ AskPens' /\ WorkerPens' /\ MonitorPen'
  BY <1>1, <1>3, <1>5, NumbersFrame, AskFrame, WorkerFrame, MonitorFrame DEF history
<1>9. EditPen'
  BY <1>4 DEF EditPen, me
<1>10. LotsOnce'
  <2>1. \A j \in Lots : j # 0
    BY <1>2
  <2> QED
    BY <1>1, <1>2, <1>3, <1>4, <1>6, LotsFrame DEF history
<1>11. TrancheOnce'
  <2> SUFFICES ASSUME Undisturbed(0)' PROVE TrancheOnce'
    BY DEF TrancheOnce
  <2>1. Undisturbed(0) /\ ~lost'
    BY <1>3, <1>4 DEF Undisturbed, history
  <2>2. Spent' = Spent /\ rearmed' = rearmed /\ worker' = worker /\ mon' = mon
    BY <1>3 DEF Spent, history
  <2>3. ~Rearms(pen[<<"edit">>])'
    BY <1>4 DEF Rearms, me
  <2>4. \/ csv'[0].state = csv[0].state
        \/ csv[0].state = "failed" /\ csv'[0].state = "pending" /\ Rearms(pen[<<"edit">>])
    BY <1>6, <2>1 DEF me
  <2> HIDE DEF Rearms, Spent
  <2>5. CASE csv'[0].state = csv[0].state
    BY <1>1, <2>1, <2>2, <2>3, <2>5 DEF TrancheOnce
  <2>6. CASE csv[0].state = "failed" /\ csv'[0].state = "pending" /\ Rearms(pen[<<"edit">>])
    <3>1. /\ Spent <= rearmed[0] /\ Spent <= 1 + rearmed[0] /\ worker[<<"launcher", 0>>] = "none"
          /\ ~(0 \in mon.todo /\ mon.step # "idle")
      BY <1>1, <2>1, <2>6 DEF TrancheOnce
    <3> QED
      BY <2>2, <2>3, <2>6, <3>1 DEF TrancheOnce
  <2> QED
    BY <2>4, <2>5, <2>6
<1>12. RowsStay'
  BY <1>1, <1>3, <1>4, <1>6, RowsFrame
<1> QED
  BY <1>7, <1>8, <1>9, <1>10, <1>11, <1>12 DEF PlanInv

\* The launcher ends: whose work it was is orphaned, the others' pens are theirs.
LEMMA CrashStep ==
  ASSUME PlanInv, Crash
  PROVE  PlanInv'
<1>1. /\ PlanTypeOK /\ PlanNumbers /\ AskPens /\ WorkerPens /\ MonitorPen /\ EditPen /\ LotsOnce /\ TrancheOnce /\ RowsStay
  BY DEF PlanInv
<1>2. /\ worker \in [Workers -> PlanSteps] /\ pen \in [Writers -> PlanPens] /\ orphan \subseteq Keys
      /\ 0 \in Keys /\ Lots \subseteq Keys
  BY <1>1, PlanTypes, KeysFacts
<1>3. /\ up' = FALSE /\ mon' = [step |-> "idle", todo |-> {}] /\ fired' = {}
      /\ orphan' = orphan \cup {k \in Keys : Handled(k) \/ (mon.step = "spawn" /\ k = Turn)}
      /\ worker' = [w \in Workers |-> IF w[1] = "launcher" THEN "none" ELSE worker[w]]
      /\ pen' = [w \in Writers |-> IF Locked(w, "launcher") THEN NoPen ELSE pen[w]]
      /\ UNCHANGED <<scene, csv, counter, ask, lot, edits, ticks, entered, rearmed, marked, lost>>
  BY DEF Crash
<1>4. orphan \subseteq orphan' /\ orphan' \subseteq Keys /\ \A k \in Keys : k \notin orphan' => worker[<<"launcher", k>>] = "none"
  BY <1>2, <1>3 DEF Handled
<1>5. /\ worker' \in [Workers -> PlanSteps]
      /\ \A w \in Workers : w[1] = "launcher" => worker'[w] = "none"
      /\ \A w \in Workers : w[1] # "launcher" => worker'[w] = worker[w]
  BY <1>2, <1>3 DEF PlanSteps
<1>6. NoPen \in PlanPens
  BY DEF NoPen, PlanPens, PlanReads
<1>7. /\ pen' \in [Writers -> PlanPens] /\ pen'[<<"monitor">>] = NoPen /\ pen'[<<"edit">>] = pen[<<"edit">>]
      /\ \A r \in Asks : pen'[<<"ask", r>>] = pen[<<"ask", r>>]
      /\ \A w \in Workers : pen'[<<"worker", w>>] = IF w[1] = "launcher" THEN NoPen ELSE pen[<<"worker", w>>]
  BY <1>2, <1>3, <1>6, WriterFacts, LockedFacts
<1>8. PlanTypeOK'
  <2>1. mon' \in [step: MonSteps, todo: SUBSET Keys] /\ fired' \in SUBSET Keys /\ up' \in BOOLEAN
    <3>1. "idle" \in MonSteps /\ {} \in SUBSET Keys
      BY DEF MonSteps
    <3>2. up' \in BOOLEAN
      BY <1>3
    <3> QED
      BY <1>3, <3>1, <3>2
  <2> QED
    BY <1>1, <1>3, <1>4, <1>5, <1>7, <2>1 DEF PlanTypeOK
<1>9. PlanNumbers' /\ AskPens' /\ EditPen'
  BY <1>1, <1>3, <1>7, NumbersFrame, AskFrame, EditFrame
<1>10. WorkerPens'
  <2>1. worker'[<<"dashboard", 0>>] = "none"
    <3>1. <<"dashboard", 0>> \in Workers /\ <<"dashboard", 0>>[1] = "dashboard"
      BY <1>2, WriterFacts DEF Processes
    <3> QED
      BY <1>1, <1>5, <3>1 DEF WorkerPens
  <2>2. ASSUME NEW w \in Workers PROVE WorkerPen(pen'[<<"worker", w>>], w[2], worker'[w])
    <3>1. CASE w[1] = "launcher"
      BY <1>7, <3>1 DEF WorkerPen
    <3>2. CASE w[1] # "launcher"
      BY <1>1, <1>5, <1>7, <3>2 DEF WorkerPens
    <3> QED
      BY <3>1, <3>2
  <2> QED
    BY <2>1, <2>2 DEF WorkerPens
<1>11. MonitorPen'
  <2>1. mon'.step = "idle"
    BY <1>3
  <2> QED
    BY <1>7, <2>1, MonitorIdles
<1>12. LotsOnce'
  <2> SUFFICES ASSUME NEW k \in Lots, Undisturbed(k)' PROVE LotOnce(k)'
    BY DEF LotsOnce
  <2>1. LotOnce(k) /\ k \notin orphan'
    BY <1>1, <1>3, <1>4 DEF LotsOnce, Undisturbed
  <2>2. \A p \in Processes : worker'[<<p, k>>] = worker[<<p, k>>]
    <3> SUFFICES ASSUME NEW p \in Processes PROVE worker'[<<p, k>>] = worker[<<p, k>>]
      OBVIOUS
    <3>1. <<p, k>> \in Workers /\ <<p, k>>[1] = p /\ k \in Keys
      BY <1>2, WriterFacts
    <3> QED
      BY <1>4, <1>5, <2>1, <3>1
  <2> QED
    BY <1>3, <2>1, <2>2 DEF LotOnce
<1>13. TrancheOnce'
  <2>1. CASE 0 \in orphan'
    BY <2>1 DEF TrancheOnce, Undisturbed
  <2>2. CASE 0 \notin orphan'
    <3>1. <<"launcher", 0>> \in Workers /\ <<"launcher", 0>>[1] = "launcher"
      BY <1>2, WriterFacts DEF Processes
    <3>2. worker'[<<"launcher", 0>>] = worker[<<"launcher", 0>>]
      BY <1>2, <1>4, <1>5, <2>2, <3>1
    <3>3. mon'.step = "idle"
      BY <1>3
    <3> QED
      BY <1>1, <1>3, <1>4, <1>7, <3>2, <3>3, TrancheFrame
  <2> QED
    BY <2>1, <2>2
<1>14. RowsStay'
  BY <1>1, <1>3, RowsFrame
<1> QED
  BY <1>8, <1>9, <1>10, <1>11, <1>12, <1>13, <1>14 DEF PlanInv

\* Every step of the session plan keeps the invariant.
LEMMA PlanStep ==
  ASSUME PlanInv, [SNext]_svars
  PROVE  PlanInv'
<1>1. ASSUME UNCHANGED svars PROVE PlanInv'
  <2>1. /\ UNCHANGED <<scene, csv, counter, ask, lot, worker, mon, fired, up, pen>>
        /\ UNCHANGED <<entered, rearmed, marked, orphan, lost>>
    BY <1>1 DEF svars
  <2>2. PlanTypeOK'
    BY <2>1 DEF PlanInv, PlanTypeOK
  <2>3. PlanNumbers' /\ AskPens' /\ WorkerPens' /\ MonitorPen' /\ EditPen'
    BY <2>1, NumbersFrame, AskFrame, WorkerFrame, MonitorFrame, EditFrame DEF PlanInv
  <2>4. LotsOnce' /\ TrancheOnce'
    BY <2>1, QuietFrame
  <2>5. RowsStay'
    BY <2>1, RowsFrame DEF PlanInv
  <2> QED
    BY <2>2, <2>3, <2>4, <2>5 DEF PlanInv
<1>2. ASSUME Start PROVE PlanInv'
  <2>1. up' = TRUE /\ UNCHANGED <<scene, csv, counter, ask, lot, worker, mon, fired, pen, edits, ticks, crashes, history, lost>>
    BY <1>2 DEF Start
  <2>2. PlanTypeOK'
    <3>1. up' \in BOOLEAN
      BY <2>1
    <3> QED
      BY <2>1, <3>1 DEF PlanInv, PlanTypeOK, history
  <2>3. PlanNumbers' /\ AskPens' /\ WorkerPens' /\ MonitorPen' /\ EditPen'
    BY <2>1, NumbersFrame, AskFrame, WorkerFrame, MonitorFrame, EditFrame DEF PlanInv, history
  <2>4. LotsOnce' /\ TrancheOnce'
    BY <2>1, QuietFrame DEF history
  <2>5. RowsStay'
    BY <2>1, RowsFrame DEF PlanInv
  <2> QED
    BY <2>2, <2>3, <2>4, <2>5 DEF PlanInv
<1>3. ASSUME NEW r \in Asks,
             OpenPlan(r) \/ TakeNumber(r) \/ AppendRow(r) \/ Appended(r) \/ Watch(r) \/ Claim(r) \/ Claimed(r)
      PROVE  PlanInv'
  BY <1>3, AskStep
<1>4. ASSUME NEW w \in Workers, Work(w) \/ ApplyResult(w) \/ Applied(w) PROVE PlanInv'
  BY <1>4, WorkStep
<1>5. ASSUME Tick \/ EndTick \/ Gate \/ Marked \/ Spawn \/ Spawned PROVE PlanInv'
  BY <1>5, MonitorStep
<1>6. ASSUME NEW k \in Keys, Edit(k) PROVE PlanInv'
  BY <1>6, EditStep
<1> QED
  BY <1>1, <1>2, <1>3, <1>4, <1>5, <1>6, EditedStep, CrashStep DEF SNext

\* A day starts with the tranche row alone, and nobody at work.
LEMMA PlanStart ==
  ASSUME SInit
  PROVE  PlanInv
<1>1. /\ scene \in Scenes /\ csv = [k \in Keys |-> IF k = 0 THEN [NoRow EXCEPT !.state = "pending"] ELSE NoRow]
      /\ counter = 1 /\ ask = [r \in Asks |-> "new"] /\ lot = [r \in Asks |-> 0] /\ worker = [w \in Workers |-> "none"]
      /\ mon = [step |-> "idle", todo |-> {}] /\ fired = {} /\ up \in BOOLEAN /\ pen = [w \in Writers |-> NoPen]
      /\ entered = [k \in Keys |-> 0] /\ rearmed = [k \in Keys |-> 0] /\ marked = {} /\ orphan = {} /\ lost = FALSE
  BY DEF SInit
<1>2. /\ 0 \in Keys /\ 0 \notin Lots /\ Lots \subseteq Keys /\ <<"monitor">> \in Writers /\ <<"edit">> \in Writers
      /\ \A w \in Workers : <<"worker", w>> \in Writers
      /\ \A r \in Asks : <<"ask", r>> \in Writers
  BY KeysFacts, WriterFacts
<1>3. \A p \in Processes, k \in Keys : <<p, k>> \in Workers
  BY WriterFacts
<1>4. csv \in [Keys -> PlanRows] /\ csv[0].state = "pending" /\ \A k \in Lots : csv[k] = NoRow
  <2>1. [NoRow EXCEPT !.state = "pending"] \in PlanRows /\ [NoRow EXCEPT !.state = "pending"].state = "pending"
    <3>1. NoRow \in PlanRows /\ "pending" \in PlanStates
      BY RowFacts DEF PlanStates
    <3> QED
      BY <3>1, RowFacts
  <2> QED
    BY <1>1, <1>2, <2>1, RowFacts
<1>5. PlanTypeOK
  <2>1. NoPen \in PlanPens /\ "none" \in PlanSteps /\ "new" \in AskSteps /\ "idle" \in MonSteps
    BY DEF NoPen, PlanPens, PlanReads, PlanSteps, AskSteps, MonSteps
  <2>2. ask \in [Asks -> AskSteps] /\ lot \in [Asks -> Nat] /\ worker \in [Workers -> PlanSteps]
    BY <1>1, <2>1
  <2>3. mon \in [step: MonSteps, todo: SUBSET Keys] /\ pen \in [Writers -> PlanPens]
    BY <1>1, <2>1
  <2>4. entered \in [Keys -> Nat] /\ rearmed \in [Keys -> Nat] /\ counter \in Nat \ {0}
    BY <1>1
  <2>5. marked \in SUBSET Keys /\ orphan \in SUBSET Keys /\ fired \in SUBSET Keys /\ scene \in Scenes /\ up \in BOOLEAN
    BY <1>1
  <2>6. FALSE \in BOOLEAN
    OBVIOUS
  <2>7. lost \in BOOLEAN
    BY <1>1, <2>6, Zenon
  <2> QED
    BY <1>4, <2>2, <2>3, <2>4, <2>5, <2>7 DEF PlanTypeOK
<1>6. PlanNumbers
  <2>1. Numbered = {} /\ Cardinality({}) = 0
    BY <1>1, FS_EmptySet DEF Numbered
  <2>2. \A r \in Asks : ask[r] = "new"
    BY <1>1
  <2> QED
    BY <1>1, <2>1, <2>2 DEF PlanNumbers, HasRow
<1>7. AskPens /\ WorkerPens /\ MonitorPen /\ EditPen
  <2>1. AskPens
    BY <1>1, <1>2 DEF AskPens, AskPen
  <2>2. WorkerPens
    BY <1>1, <1>2, <1>3 DEF WorkerPens, WorkerPen, Processes
  <2>3. MonitorPen
    BY <1>1, <1>2 DEF MonitorPen
  <2>4. EditPen
    BY <1>1, <1>2 DEF EditPen
  <2> QED
    BY <2>1, <2>2, <2>3, <2>4
<1>8. LotsOnce
  <2> SUFFICES ASSUME NEW k \in Lots PROVE LotOnce(k)
    BY DEF LotsOnce
  <2>1. entered[k] = 0 /\ csv[k].state = "none" /\ \A p \in Processes : worker[<<p, k>>] = "none"
    BY <1>1, <1>2, <1>3, <1>4, RowFacts
  <2> QED
    BY <2>1 DEF LotOnce
<1>9. TrancheOnce
  <2>1. worker[<<"launcher", 0>>] = "none" /\ entered[0] = 0 /\ rearmed[0] = 0 /\ mon.step = "idle"
    BY <1>1, <1>2, <1>3 DEF Processes
  <2>2. Spent = 0
    BY <2>1 DEF Spent
  <2>3. ~Rearms(pen[<<"edit">>])
    BY <1>1, <1>2 DEF Rearms
  <2> HIDE DEF Rearms, Spent
  <2> QED
    BY <2>1, <2>2, <2>3 DEF TrancheOnce
<1>10. RowsStay
  <2>1. \A r \in Asks : ask[r] = "new"
    BY <1>1
  <2> QED
    BY <2>1 DEF RowsStay, HasRow
<1> QED
  BY <1>5, <1>6, <1>7, <1>8, <1>9, <1>10 DEF PlanInv

\* The session plan's invariant holds in every state: what a writer holds is
\* one file as it was with one row changed, a row that may be claimed was never
\* worked on, and the tranche row is armed once for every order.
THEOREM PlanInvariant == SSpec => []PlanInv
<1>1. PlanInv /\ [SNext]_svars => PlanInv'
  BY PlanStep
<1> QED
  BY PlanStart, <1>1, PTL DEF SSpec

\* The invariant says what the plan promises.
LEMMA PlanPromises ==
  ASSUME PlanInv
  PROVE  EnteredOnce /\ NobodyForgotten
<1>1. /\ PlanTypeOK /\ LotsOnce /\ TrancheOnce /\ RowsStay
      /\ entered \in [Keys -> Nat] /\ rearmed \in [Keys -> Nat] /\ lost \in BOOLEAN
      /\ \A k \in Keys : k = 0 \/ k \in Lots
  BY PlanTypes, KeysFacts DEF PlanInv
<1>2. EnteredOnce
  <2> SUFFICES ASSUME NEW k \in Keys, Undisturbed(k) PROVE entered[k] <= 1 + rearmed[k]
    BY <1>1 DEF EnteredOnce, Undisturbed
  <2>1. CASE k = 0
    BY <1>1, <2>1 DEF TrancheOnce, Spent
  <2>2. CASE k \in Lots
    BY <1>1, <2>2 DEF LotsOnce, LotOnce
  <2> QED
    BY <1>1, <2>1, <2>2
<1>3. NobodyForgotten
  <2>1. ASSUME NEW k \in Lots, csv[k].state = "placing", k \notin orphan \cup marked, ~lost
        PROVE  \E p \in Processes : worker[<<p, k>>] # "none"
    BY <1>1, <2>1 DEF LotsOnce, LotOnce, Undisturbed
  <2>2. ASSUME NEW r \in Asks, ask[r] \in {"watch", "claim", "inline", "done"}, ~lost PROVE csv[lot[r]] # NoRow
    BY <1>1, <2>2 DEF RowsStay, HasRow
  <2> QED
    BY <2>1, <2>2 DEF NobodyForgotten
<1> QED
  BY <1>2, <1>3

(* --- History: the invariant of the books -------------------------------- *)
BookPrices == Levels \cup {None}
BookRows == [pnl: Int, closed: BOOLEAN, paper: BOOLEAN]
BookTrades == [status: {"open", "closed", "cancelled"}, sc: Int, lc: Int, at: Int]
BookSyncs == [step: {"idle", "upserted", "validated"}, valid: SUBSET Trades]

BooksTypeOK ==
    /\ clock \in 1..3 /\ spx \in Levels /\ streaming \in BOOLEAN
    /\ polled \in BookPrices /\ snapshot \in BookPrices /\ daily \in BookPrices /\ captured \in BookPrices
    /\ file \in [price: BookPrices, source: Sources]
    /\ trade \in [Trades -> BookTrades] /\ rows \in [Trades -> SUBSET BookRows]
    /\ sync \in [Syncers -> BookSyncs] /\ calm \in BOOLEAN

\* What is known of the close, is the close: MQTT's and the daily file's
\* always, the recorder's last poll when no sync ran before the cutoff.
FeedsTrue ==
    /\ captured # None => clock > 1 /\ captured = spx
    /\ daily # None => clock > 1 /\ daily = spx
    /\ file.price # None =>
          /\ file.source \in {"mqtt", "ohlc"} => clock > 1 /\ file.price = spx
          /\ "early" \notin Extras /\ file.source = "polls" => clock > 1 /\ file.price = polled
    /\ "early" \notin Extras => \A p \in Syncers : sync[p].step # "idle" => clock > 1

\* The day's total is that of the live rows, while there are any.
TotalTrue == LiveClosed(rows) # {} => total = SumOf(rows)

FilledRow(t) == {[pnl |-> Credit - (trade[t].sc - trade[t].lc), closed |-> TRUE, paper |-> t \in Paper]}
Blank(t) == trade[t].status = "cancelled" \/ (trade[t].status = "open" /\ clock = 1)

\* The stages of a sync that nothing overlaps.
SyncStages ==
    calm =>
        /\ \A p, q \in Syncers : sync[p].step # "idle" /\ sync[q].step # "idle" => p = q
        /\ \A t \in Trades : RealFills(t) => rows[t] = FilledRow(t)
        /\ \A p \in Syncers : sync[p].step = "validated" =>
              \A t \in Trades : (RealFills(t) => t \in sync[p].valid) /\ (Blank(t) => t \notin sync[p].valid)
        /\ (\A p \in Syncers : sync[p].step = "idle") => \A t \in Trades : Blank(t) => rows[t] = {}

BooksInv == BooksTypeOK /\ FeedsTrue /\ TotalTrue /\ SyncStages

\* What is offered, is a price with its source.
LEMMA OfferFacts ==
  ASSUME NEW price, NEW source, NEW place
  PROVE  \A c : c \in Offer(price, source, place) <=>
            price # None /\ c = [price |-> price, source |-> source, place |-> place]
BY DEF Offer

\* A price captured after the close is the day's last price.
LEMMA CapturedFacts ==
  ASSUME BooksTypeOK, FeedsTrue
  PROVE  Captured \in BookPrices /\ (Captured # None => clock > 1 /\ Captured = spx)
BY DEF Captured, BooksTypeOK, FeedsTrue, BookPrices

\* A candidate is the file's price, or a feed's.
LEMMA CandidateFacts ==
  ASSUME BooksTypeOK, NEW c \in Candidates
  PROVE  /\ c.price \in BookPrices \ {None} /\ c.source \in Sources /\ c.place \in 1..5
         /\ \/ c.price = file.price /\ c.source = file.source /\ c.place = 1
            \/ c.price = daily /\ c.source = "ohlc" /\ c.place = 2
            \/ c.price = polled /\ c.source = "polls" /\ c.place = 3
            \/ c.price = Captured /\ c.source = "mqtt" /\ c.place = 4 /\ clock # 1
            \/ c.price = snapshot /\ c.source = "snapshots" /\ c.place = 5
<1>1. /\ file.price \in BookPrices /\ file.source \in Sources /\ daily \in BookPrices /\ polled \in BookPrices
      /\ snapshot \in BookPrices
  BY DEF BooksTypeOK
<1>2. Captured \in BookPrices
  BY DEF Captured, BooksTypeOK, BookPrices
<1>3. CASE c \in Offer(file.price, file.source, 1)
  BY <1>1, <1>3, OfferFacts
<1>4. CASE c \in Offer(daily, "ohlc", 2)
  BY <1>1, <1>4, OfferFacts DEF Sources
<1>5. CASE c \in Offer(polled, "polls", 3)
  BY <1>1, <1>5, OfferFacts DEF Sources
<1>6. CASE c \in Offer(IF clock = 1 THEN None ELSE Captured, "mqtt", 4)
  BY <1>2, <1>6, OfferFacts DEF Sources
<1>7. CASE c \in Offer(snapshot, "snapshots", 5)
  BY <1>1, <1>7, OfferFacts DEF Sources
<1> QED
  BY <1>3, <1>4, <1>5, <1>6, <1>7 DEF Candidates

\* The priorities of the sources of a settlement price, as numbers.
LEMMA PriorityFacts ==
  /\ Priority("locked") = 100 /\ Priority("mqtt") = 85 /\ Priority("ohlc") = 80
  /\ Priority("polls") = 70 /\ Priority("snapshots") = 40 /\ \A s \in Sources : Priority(s) \in Nat
BY DEF Priority, Sources

\* The price found comes from a candidate that no other one outranks.
LEMMA ResolvedFacts ==
  ASSUME BooksTypeOK, Resolved # {}
  PROVE  LET c == CHOOSE r \in Resolved : TRUE IN
         /\ c \in Candidates /\ \A d \in Candidates : d # c => Priority(c.source) >= Priority(d.source)
         /\ \A d \in Candidates : d # c /\ Priority(c.source) = Priority(d.source) => c.place < d.place
         /\ ClosePrice = c.price
<1> DEFINE c == CHOOSE r \in Resolved : TRUE
<1>1. c \in Resolved
  OBVIOUS
<1>2. ClosePrice = c.price
  BY DEF ClosePrice
<1> HIDE DEF c
<1>3. c \in Candidates /\ \A d \in Candidates \ {c} :
        \/ Priority(c.source) > Priority(d.source)
        \/ Priority(c.source) = Priority(d.source) /\ c.place < d.place
  BY <1>1 DEF Resolved
<1>4. \A d \in Candidates : Priority(d.source) \in Nat
  BY CandidateFacts, PriorityFacts
<1>5. /\ c \in Candidates /\ \A d \in Candidates : d # c => Priority(c.source) >= Priority(d.source)
      /\ \A d \in Candidates : d # c /\ Priority(c.source) = Priority(d.source) => c.place < d.place
  BY <1>3, <1>4
<1> QED
  BY <1>2, <1>5 DEF c

\* What is written down: the file as it is, or a better source's price.
LEMMA EnsuredFacts ==
  ASSUME BooksTypeOK
  PROVE  /\ Ensured \in [price: BookPrices, source: Sources]
         /\ Ensured # file => file.price = None \/ Priority(Ensured.source) > Priority(file.source)
         /\ Ensured # file => Resolved # {} /\ file.source # "locked"
         /\ EnsuredPrice # None => Ensured.price = EnsuredPrice
<1>1. file \in [price: BookPrices, source: Sources] /\ file = [price |-> file.price, source |-> file.source]
  BY DEF BooksTypeOK
<1>2. CASE Resolved = {} \/ file.source = "locked"
  BY <1>1, <1>2 DEF Ensured, EnsuredPrice, ClosePrice
<1>3. CASE Resolved # {} /\ file.source # "locked"
  <2> DEFINE c == CHOOSE r \in Resolved : TRUE
  <2>1. Ensured = [price |-> c.price, source |-> c.source] /\ EnsuredPrice = ClosePrice
    BY <1>3 DEF Ensured, EnsuredPrice
  <2>2. c \in Candidates /\ ClosePrice = c.price
    BY <1>3, ResolvedFacts
  <2>3. /\ \A d \in Candidates : d # c => Priority(c.source) >= Priority(d.source)
        /\ \A d \in Candidates : d # c /\ Priority(c.source) = Priority(d.source) => c.place < d.place
    BY <1>3, ResolvedFacts
  <2> HIDE DEF c
  <2>4. c.price \in BookPrices /\ c.source \in Sources /\ c.place \in 1..5
    BY <2>2, CandidateFacts
  <2>5. ASSUME file.price # None, Ensured # file PROVE Priority(Ensured.source) > Priority(file.source)
    <3> DEFINE f == [price |-> file.price, source |-> file.source, place |-> 1]
    <3>1. f \in Candidates
      BY <2>5, OfferFacts DEF Candidates
    <3>2. f # c
      BY <1>1, <2>1, <2>5
    <3>3. f.place = 1 /\ f.source = file.source
      OBVIOUS
    <3> HIDE DEF f
    <3>4. Priority(c.source) >= Priority(file.source) /\ Priority(c.source) # Priority(file.source)
      BY <2>3, <2>4, <3>1, <3>2, <3>3
    <3>5. Priority(c.source) \in Nat /\ Priority(file.source) \in Nat
      BY <1>1, <2>4, PriorityFacts
    <3> QED
      BY <2>1, <3>4, <3>5
  <2> QED
    BY <1>3, <2>1, <2>2, <2>4, <2>5
<1> QED
  BY <1>2, <1>3

\* The price found is the index's close, when a feed that reaches the file knew it.
LEMMA CloseIsTrue ==
  ASSUME BooksTypeOK, FeedsTrue, Resolved # {}, clock > 1, file.source # "locked",
         Captured # None \/ daily # None \/ ("early" \notin Extras /\ polled = spx)
  PROVE  ClosePrice = spx
<1> DEFINE c == CHOOSE r \in Resolved : TRUE
<1>1. c \in Candidates /\ ClosePrice = c.price
  BY ResolvedFacts
<1>2. \A d \in Candidates : d # c => Priority(c.source) >= Priority(d.source)
  BY ResolvedFacts
<1> HIDE DEF c
<1>3. spx # None /\ spx \in Nat
  BY BooksAssumption DEF BooksTypeOK, None
<1>4. /\ c.price \in BookPrices \ {None} /\ c.source \in Sources
      /\ \/ c.price = file.price /\ c.source = file.source
         \/ c.price = daily /\ c.source = "ohlc"
         \/ c.price = polled /\ c.source = "polls"
         \/ c.price = Captured /\ c.source = "mqtt"
         \/ c.price = snapshot /\ c.source = "snapshots"
  BY <1>1, CandidateFacts
<1>5. c.source # "locked"
  BY <1>4
<1>6. c.source \in {"mqtt", "ohlc"} => c.price = spx
  BY <1>4, CapturedFacts DEF FeedsTrue
<1>7. CASE Captured # None
  <2> DEFINE d == [price |-> Captured, source |-> "mqtt", place |-> 4]
  <2>1. d \in Candidates /\ d.source = "mqtt"
    BY <1>7, OfferFacts DEF Candidates
  <2> HIDE DEF d
  <2>2. Priority(c.source) >= 85
    BY <1>2, <2>1, PriorityFacts
  <2> QED
    BY <1>1, <1>4, <1>5, <1>6, <2>2, PriorityFacts DEF Sources
<1>8. CASE daily # None
  <2> DEFINE d == [price |-> daily, source |-> "ohlc", place |-> 2]
  <2>1. d \in Candidates /\ d.source = "ohlc"
    BY <1>8, OfferFacts DEF Candidates
  <2> HIDE DEF d
  <2>2. Priority(c.source) >= 80
    BY <1>2, <2>1, PriorityFacts
  <2> QED
    BY <1>1, <1>4, <1>5, <1>6, <2>2, PriorityFacts DEF Sources
<1>9. CASE "early" \notin Extras /\ polled = spx
  <2> DEFINE d == [price |-> polled, source |-> "polls", place |-> 3]
  <2>1. d \in Candidates /\ d.source = "polls"
    BY <1>3, <1>9, OfferFacts DEF Candidates
  <2> HIDE DEF d
  <2>2. Priority(c.source) >= 70
    BY <1>2, <2>1, PriorityFacts
  <2>3. c.source \in {"mqtt", "ohlc", "polls"}
    BY <1>4, <1>5, <2>2, PriorityFacts DEF Sources
  <2>4. c.source = "polls" => c.price = spx
    BY <1>4, <1>9 DEF FeedsTrue
  <2> QED
    BY <1>1, <1>6, <2>3, <2>4
<1> QED
  BY <1>7, <1>8, <1>9

\* The value of an option at expiry is a number.
LEMMA IntrinsicFacts ==
  ASSUME NEW strike \in Int, NEW price \in Int
  PROVE  Intrinsic(strike, price) \in Int
<1>1. \E x \in {0, strike - price} : \A y \in {0, strike - price} : x >= y
  BY SMT
<1>2. Max({0, strike - price}) \in {0, strike - price}
  BY <1>1 DEF Max
<1> QED
  BY <1>2 DEF Intrinsic

\* The row of a trade that its fills closed.
LEMMA FilledFacts ==
  ASSUME BooksTypeOK, NEW t \in Trades, NEW price
  PROVE  /\ RealFills(t) => HistoryRow(t, price) = FilledRow(t)
         /\ Blank(t) => HistoryRow(t, price) = {}
         /\ price \in BookPrices => HistoryRow(t, price) \in SUBSET BookRows
<1>1. trade[t] \in BookTrades /\ trade[t].sc \in Int /\ trade[t].lc \in Int
  BY DEF BooksTypeOK, BookTrades
<1>2. ASSUME RealFills(t) PROVE HistoryRow(t, price) = FilledRow(t)
  <2>1. trade[t].status = "closed"
    BY <1>2 DEF RealFills
  <2>2. SettledPnl(t, price) = Credit - (trade[t].sc - trade[t].lc)
    BY <1>2 DEF SettledPnl
  <2> QED
    BY <1>2, <2>1, <2>2 DEF HistoryRow, FilledRow
<1>3. ASSUME Blank(t) PROVE HistoryRow(t, price) = {}
  BY <1>3 DEF Blank, HistoryRow, RealFills
<1>4. ASSUME price \in BookPrices PROVE HistoryRow(t, price) \in SUBSET BookRows
  <2>1. price \in Int
    BY <1>4, BooksAssumption DEF BookPrices, None
  <2>2. SettledPnl(t, price) \in Int
    <3>1. Intrinsic(ShortK, price) \in Int /\ Intrinsic(LongK, price) \in Int
      BY <2>1, BooksAssumption, IntrinsicFacts
    <3> QED
      BY <1>1, <3>1, BooksAssumption DEF SettledPnl
  <2>3. TRUE \in BOOLEAN /\ (t \in Paper) \in BOOLEAN
    OBVIOUS
  <2>4. [pnl |-> SettledPnl(t, price), closed |-> TRUE, paper |-> t \in Paper] \in BookRows
    BY <2>2, <2>3, Zenon DEF BookRows
  <2> QED
    BY <2>4 DEF HistoryRow
<1> QED
  BY <1>2, <1>3, <1>4

\* The row the dashboard's summary writes itself is a row.
LEMMA ShownRow ==
  ASSUME BooksTypeOK, NEW t \in Trades
  PROVE  {[pnl |-> IF RealFills(t) THEN Credit - (trade[t].sc - trade[t].lc) ELSE 0,
           closed |-> RealFills(t), paper |-> FALSE]} \in SUBSET BookRows
<1> DEFINE pnl == IF RealFills(t) THEN Credit - (trade[t].sc - trade[t].lc) ELSE 0
<1>1. pnl \in Int
  BY BooksAssumption DEF BooksTypeOK, BookTrades
<1>2. RealFills(t) \in BOOLEAN /\ FALSE \in BOOLEAN
  BY DEF RealFills
<1> HIDE DEF pnl
<1>3. [pnl |-> pnl, closed |-> RealFills(t), paper |-> FALSE] \in BookRows
  BY <1>1, <1>2, Zenon DEF BookRows
<1> QED
  BY <1>3 DEF pnl

\* Refreshing the total makes it that of the rows.
LEMMA TotalFollows ==
  ASSUME total' = Refreshed(rows')
  PROVE  TotalTrue'
BY DEF TotalTrue, Refreshed

\* The day's total is right while neither it nor a row moves.
LEMMA TotalFrame ==
  ASSUME TotalTrue, rows' = rows, total' = total
  PROVE  TotalTrue'
BY DEF TotalTrue

\* What a step must leave alone for a part of the invariant to stay.
LEMMA FeedsFrame ==
  ASSUME FeedsTrue, clock' = clock, spx' = spx, polled' = polled, daily' = daily, captured' = captured, file' = file,
         \A p \in Syncers : sync'[p].step # "idle" => sync[p].step # "idle"
  PROVE  FeedsTrue'
BY DEF FeedsTrue

\* Writing down what was found keeps what is known of the close true.
LEMMA EnsuredKeeps ==
  ASSUME BooksTypeOK, FeedsTrue, clock' = clock, spx' = spx, polled' = polled, daily' = daily,
         captured' = Captured, file' = Ensured, "early" \notin Extras => clock > 1
  PROVE  FeedsTrue'
<1>1. captured' # None => clock > 1 /\ captured' = spx
  BY CapturedFacts
<1>2. CASE file' = file
  BY <1>1, <1>2 DEF FeedsTrue
<1>3. CASE file' # file
  <2> DEFINE c == CHOOSE r \in Resolved : TRUE
  <2>1. Resolved # {} /\ file.source # "locked"
    BY <1>3, EnsuredFacts
  <2>2. file' = [price |-> c.price, source |-> c.source]
    BY <2>1 DEF Ensured
  <2>3. c \in Candidates
    BY <2>1, ResolvedFacts
  <2> HIDE DEF c
  <2>4. /\ file'.price = c.price /\ file'.source = c.source /\ c.price # None
        /\ \/ c.price = file.price /\ c.source = file.source
           \/ c.price = daily /\ c.source = "ohlc"
           \/ c.price = polled /\ c.source = "polls"
           \/ c.price = Captured /\ c.source = "mqtt"
           \/ c.price = snapshot /\ c.source = "snapshots"
    BY <2>2, <2>3, CandidateFacts
  <2>5. c.source \in {"mqtt", "ohlc"} => clock > 1 /\ c.price = spx
    BY <2>4, CapturedFacts DEF FeedsTrue
  <2>6. "early" \notin Extras /\ c.source = "polls" => clock > 1 /\ c.price = polled
    BY <2>4 DEF FeedsTrue
  <2>7. "early" \notin Extras => \A p \in Syncers : sync'[p].step # "idle" => clock' > 1
    OBVIOUS
  <2> QED
    BY <1>1, <2>4, <2>5, <2>6, <2>7 DEF FeedsTrue
<1> QED
  BY <1>2, <1>3

\* The sync's stages hold while the trade and the sync rest and no row moves.
LEMMA CalmFrame ==
  ASSUME SyncStages, calm' => calm, clock' = clock, trade' = trade, sync' = sync,
         calm' => \A t \in Trades : rows'[t] = rows[t]
  PROVE  SyncStages'
BY DEF SyncStages, RealFills, FilledRow, Blank

\* What a step of the books does to the settlement file and the trades.
CloseStep ==
    /\ file' # file => file.price = None \/ Priority(file'.source) > Priority(file.source)
    /\ \A t \in Trades : trade'[t].at # trade[t].at =>
          /\ trade'[t].at = file'.price
          /\ file.source # "locked" /\ (captured' # None \/ daily # None
                  \/ ("early" \notin Extras /\ polled = spx)) => trade'[t].at = spx

\* Every step of the books keeps the invariant.
LEMMA BooksStep ==
  ASSUME BooksInv, [HNext]_hvars
  PROVE  BooksInv' /\ CloseStep
<1>1. /\ BooksTypeOK /\ FeedsTrue /\ TotalTrue /\ SyncStages
      /\ clock \in 1..3 /\ spx \in Levels /\ polled \in BookPrices /\ daily \in BookPrices /\ captured \in BookPrices
      /\ file \in [price: BookPrices, source: Sources] /\ trade \in [Trades -> BookTrades]
      /\ rows \in [Trades -> SUBSET BookRows] /\ sync \in [Syncers -> BookSyncs] /\ calm \in BOOLEAN
  BY DEF BooksInv, BooksTypeOK
<1>2. Captured \in BookPrices
  BY <1>1, CapturedFacts
<1>3. Ensured \in [price: BookPrices, source: Sources]
  BY <1>1, EnsuredFacts
<1>4. Levels \subseteq BookPrices /\ None \in BookPrices /\ Levels \subseteq Int
  BY BooksAssumption DEF BookPrices
<1>5. ASSUME UNCHANGED hvars PROVE BooksInv' /\ CloseStep
  <2>1. UNCHANGED <<clock, moves, feeds, captured, file, trade, rows, total, shown, sync, calm>>
    BY <1>5 DEF hvars
  <2>2. BooksTypeOK'
    BY <1>1, <2>1 DEF BooksTypeOK, feeds
  <2>3. FeedsTrue' /\ TotalTrue' /\ SyncStages'
    BY <1>1, <2>1, FeedsFrame, TotalFrame, CalmFrame DEF feeds
  <2> QED
    BY <2>1, <2>2, <2>3 DEF BooksInv, CloseStep
<1>6. ASSUME Move PROVE BooksInv' /\ CloseStep
  <2>1. /\ clock = 1 /\ spx' \in Levels /\ polled' \in {polled, spx'} /\ streaming' \in BOOLEAN
        /\ UNCHANGED <<clock, snapshot, daily, captured, file, trade, rows, total, shown, sync, calm>>
    BY <1>6 DEF Move
  <2>2. BooksTypeOK'
    BY <1>1, <1>4, <2>1 DEF BooksTypeOK
  <2>3. FeedsTrue'
    BY <1>1, <2>1 DEF FeedsTrue
  <2>4. TotalTrue' /\ SyncStages'
    BY <1>1, <2>1, TotalFrame, CalmFrame
  <2> QED
    BY <2>1, <2>2, <2>3, <2>4 DEF BooksInv, CloseStep
<1>7. ASSUME Stream PROVE BooksInv' /\ CloseStep
  <2>1. /\ streaming' = TRUE
        /\ UNCHANGED <<clock, spx, polled, snapshot, daily, captured, file, trade, rows, total, shown, sync, calm>>
    BY <1>7 DEF Stream
  <2>2. streaming' \in BOOLEAN
    BY <2>1
  <2>3. BooksTypeOK'
    BY <1>1, <2>1, <2>2 DEF BooksTypeOK
  <2>4. FeedsTrue' /\ TotalTrue' /\ SyncStages'
    BY <1>1, <2>1, FeedsFrame, TotalFrame, CalmFrame
  <2> QED
    BY <2>1, <2>3, <2>4 DEF BooksInv, CloseStep
<1>8. ASSUME Clock PROVE BooksInv' /\ CloseStep
  <2>1. /\ clock < 3 /\ clock' = clock + 1 /\ daily' \in (IF clock = 2 THEN {None, spx} ELSE {None}) /\ calm' = FALSE
        /\ UNCHANGED <<moves, spx, streaming, polled, snapshot, captured, file, trade, rows, total, shown, sync>>
    BY <1>8 DEF Clock
  <2>2. clock' \in 1..3 /\ clock' > 1 /\ daily' \in BookPrices
    BY <1>1, <1>4, <2>1
  <2>3. calm' \in BOOLEAN
    BY <2>1
  <2>4. BooksTypeOK'
    BY <1>1, <2>1, <2>2, <2>3 DEF BooksTypeOK
  <2>5. FeedsTrue'
    BY <1>1, <2>1, <2>2 DEF FeedsTrue
  <2>6. TotalTrue' /\ SyncStages'
    BY <1>1, <2>1, TotalFrame DEF SyncStages
  <2> QED
    BY <2>1, <2>4, <2>5, <2>6 DEF BooksInv, CloseStep
<1>9. ASSUME LockClose PROVE BooksInv' /\ CloseStep
  <2>1. /\ file.source # "locked" /\ calm' = FALSE
        /\ UNCHANGED <<clock, moves, feeds, captured, trade, rows, total, shown, sync>>
    BY <1>9 DEF LockClose
  <2>2. PICK price \in Levels : file' = [price |-> price, source |-> "locked"]
    BY <1>9 DEF LockClose
  <2>3. file' \in [price: BookPrices, source: Sources] /\ file'.source = "locked"
    BY <1>4, <2>2 DEF Sources
  <2>4. calm' \in BOOLEAN
    BY <2>1
  <2>5. BooksTypeOK'
    BY <1>1, <2>1, <2>3, <2>4 DEF BooksTypeOK, feeds
  <2>6. FeedsTrue'
    BY <1>1, <2>1, <2>3 DEF FeedsTrue, feeds
  <2>7. TotalTrue' /\ SyncStages'
    BY <1>1, <2>1, TotalFrame DEF SyncStages
  <2>8. CloseStep
    <3>1. file.source \in Sources
      BY <1>1
    <3> QED
      BY <2>1, <2>3, <3>1, PriorityFacts DEF CloseStep, Sources
  <2> QED
    BY <2>5, <2>6, <2>7, <2>8 DEF BooksInv
<1>10. ASSUME Summary PROVE BooksInv' /\ CloseStep
  <2> DEFINE new(t) == IF trade[t].status = "closed" /\ t \notin shown
                       THEN {[pnl |-> IF RealFills(t) THEN Credit - (trade[t].sc - trade[t].lc) ELSE 0,
                              closed |-> RealFills(t), paper |-> FALSE]}
                       ELSE {}
  <2>1. /\ captured' = Captured /\ rows' = Upserted([t \in Trades |-> new(t)])
        /\ total' = (IF \A t \in Trades : new(t) = {} THEN total ELSE Refreshed(rows'))
        /\ calm' = (calm /\ \A t \in Trades : new(t) = {})
        /\ UNCHANGED <<clock, moves, feeds, file, trade, sync>>
    BY <1>10 DEF Summary
  <2>2. \A t \in Trades : new(t) \in SUBSET BookRows
    BY <1>1, ShownRow
  <2> HIDE DEF new
  <2>3. rows' \in [Trades -> SUBSET BookRows] /\ \A t \in Trades : new(t) = {} => rows'[t] = rows[t]
    BY <1>1, <2>1, <2>2 DEF Upserted
  <2>4. calm' \in BOOLEAN
    BY <2>1
  <2>5. BooksTypeOK'
    BY <1>1, <1>2, <2>1, <2>3, <2>4 DEF BooksTypeOK, feeds
  <2>6. FeedsTrue'
    <3>1. captured' # None => clock > 1 /\ captured' = spx
      BY <1>1, <2>1, CapturedFacts
    <3> QED
      BY <1>1, <2>1, <3>1 DEF FeedsTrue, feeds
  <2>7. TotalTrue'
    <3>1. CASE \A t \in Trades : new(t) = {}
      <4>1. rows' = rows
        BY <1>1, <2>3, <3>1
      <4> QED
        BY <1>1, <2>1, <3>1, <4>1, TotalFrame
    <3>2. CASE ~\A t \in Trades : new(t) = {}
      BY <2>1, <3>2, TotalFollows
    <3> QED
      BY <3>1, <3>2
  <2>8. SyncStages'
    BY <1>1, <2>1, <2>3, CalmFrame
  <2> QED
    BY <2>1, <2>5, <2>6, <2>7, <2>8 DEF BooksInv, CloseStep
<1>11. ASSUME NEW t \in Trades, StopOut(t) PROVE BooksInv' /\ CloseStep
  <2>1. /\ snapshot' = spx /\ calm' = FALSE
        /\ UNCHANGED <<clock, moves, spx, streaming, polled, daily, captured, file, rows, total, shown, sync>>
    BY <1>11 DEF StopOut
  <2>2. PICK long \in {0, None} : trade' = [trade EXCEPT ![t] = [@ EXCEPT !.status = "closed", !.sc = 2, !.lc = long]]
    BY <1>11 DEF StopOut
  <2>3. trade' \in [Trades -> BookTrades] /\ \A u \in Trades : trade'[u].at = trade[u].at
    <3> DEFINE stopped == [trade[t] EXCEPT !.status = "closed", !.sc = 2, !.lc = long]
    <3>1. stopped \in BookTrades /\ stopped.at = trade[t].at
      <4> DEFINE a == [trade[t] EXCEPT !.status = "closed"]
                 b == [a EXCEPT !.sc = 2]
                 c == [b EXCEPT !.lc = long]
      <4>1. trade[t] \in BookTrades /\ long \in Int
        BY <1>1 DEF None
      <4>2. a \in BookTrades /\ a.at = trade[t].at
        BY <4>1 DEF BookTrades
      <4>3. stopped = c
        OBVIOUS
      <4> HIDE DEF a, stopped
      <4>4. b \in BookTrades /\ b.at = trade[t].at
        BY <4>2 DEF BookTrades
      <4> HIDE DEF b
      <4>5. c \in BookTrades /\ c.at = trade[t].at
        BY <4>1, <4>4 DEF BookTrades
      <4> QED
        BY <4>3, <4>5
    <3>2. trade' = [trade EXCEPT ![t] = stopped]
      BY <2>2
    <3> HIDE DEF stopped
    <3> QED
      BY <1>1, <3>1, <3>2
  <2>4. calm' \in BOOLEAN
    BY <2>1
  <2>5. BooksTypeOK'
    BY <1>1, <1>4, <2>1, <2>3, <2>4 DEF BooksTypeOK
  <2>6. FeedsTrue' /\ TotalTrue' /\ SyncStages'
    BY <1>1, <2>1, FeedsFrame, TotalFrame DEF SyncStages
  <2> QED
    BY <2>1, <2>3, <2>5, <2>6 DEF BooksInv, CloseStep
<1>12. ASSUME NEW t \in Trades, LongPriced(t) PROVE BooksInv' /\ CloseStep
  <2>1. /\ trade' = [trade EXCEPT ![t].lc = 0] /\ calm' = FALSE
        /\ UNCHANGED <<clock, moves, feeds, captured, file, rows, total, shown, sync>>
    BY <1>12 DEF LongPriced
  <2>2. trade' \in [Trades -> BookTrades] /\ \A u \in Trades : trade'[u].at = trade[u].at
    <3> DEFINE priced == [trade[t] EXCEPT !.lc = 0]
    <3>1. priced \in BookTrades /\ priced.at = trade[t].at
      <4>1. trade[t] \in BookTrades
        BY <1>1
      <4> QED
        BY <4>1 DEF BookTrades
    <3>2. trade' = [trade EXCEPT ![t] = priced]
      BY <2>1
    <3> HIDE DEF priced
    <3> QED
      BY <1>1, <3>1, <3>2
  <2>4. calm' \in BOOLEAN
    BY <2>1
  <2>5. BooksTypeOK'
    BY <1>1, <2>1, <2>2, <2>4 DEF BooksTypeOK, feeds
  <2>6. FeedsTrue' /\ TotalTrue' /\ SyncStages'
    BY <1>1, <2>1, FeedsFrame, TotalFrame DEF SyncStages, feeds
  <2> QED
    BY <2>1, <2>2, <2>5, <2>6 DEF BooksInv, CloseStep
<1>13. ASSUME NEW t \in Trades, SettleAtExpiry(t) PROVE BooksInv' /\ CloseStep
  <2>1. /\ clock > 1 /\ EnsuredPrice # None /\ captured' = Captured /\ file' = Ensured /\ calm' = FALSE
        /\ UNCHANGED <<clock, moves, feeds, rows, total, shown, sync>>
    BY <1>13 DEF SettleAtExpiry
  <2> DEFINE settled == [status |-> "closed", at |-> EnsuredPrice,
                         sc |-> Intrinsic(ShortK, EnsuredPrice), lc |-> Intrinsic(LongK, EnsuredPrice)]
  <2>2. trade' = [trade EXCEPT ![t] = settled]
    BY <1>13 DEF SettleAtExpiry
  <2>3. file'.price = EnsuredPrice /\ EnsuredPrice \in BookPrices
    <3>1. file'.price = EnsuredPrice
      BY <1>1, <2>1, EnsuredFacts
    <3> QED
      BY <1>3, <2>1, <3>1
  <2>4. settled \in BookTrades /\ settled.at = EnsuredPrice
    <3>1. EnsuredPrice \in Int
      BY <1>4, <2>3 DEF BookPrices, None
    <3>2. Intrinsic(ShortK, EnsuredPrice) \in Int /\ Intrinsic(LongK, EnsuredPrice) \in Int
      BY <3>1, BooksAssumption, IntrinsicFacts
    <3> QED
      BY <3>1, <3>2 DEF BookTrades
  <2> HIDE DEF settled
  <2>5. trade' \in [Trades -> BookTrades] /\ trade'[t].at = EnsuredPrice /\ \A u \in Trades : u # t => trade'[u] = trade[u]
    BY <1>1, <2>2, <2>4
  <2>6. calm' \in BOOLEAN
    BY <2>1
  <2>7. BooksTypeOK'
    BY <1>1, <1>2, <1>3, <2>1, <2>5, <2>6 DEF BooksTypeOK, feeds
  <2>8. FeedsTrue'
    BY <1>1, <2>1, EnsuredKeeps DEF feeds
  <2>9. TotalTrue' /\ SyncStages'
    BY <1>1, <2>1, TotalFrame DEF SyncStages
  <2>10. CloseStep
    <3>1. file' # file => file.price = None \/ Priority(file'.source) > Priority(file.source)
      BY <1>1, <2>1, EnsuredFacts
    <3>2. ASSUME file.source # "locked", captured' # None \/ daily # None \/ ("early" \notin Extras /\ polled = spx)
          PROVE  trade'[t].at = spx
      <4>1. EnsuredPrice = ClosePrice /\ Resolved # {}
        BY <2>1, <3>2 DEF EnsuredPrice, ClosePrice
      <4>2. ClosePrice = spx
        BY <1>1, <2>1, <3>2, <4>1, CloseIsTrue
      <4> QED
        BY <2>5, <4>1, <4>2
    <3> QED
      BY <2>3, <2>5, <3>1, <3>2 DEF CloseStep
  <2> QED
    BY <2>7, <2>8, <2>9, <2>10 DEF BooksInv
<1>14. ASSUME NEW p \in Syncers, SyncUpsert(p) PROVE BooksInv' /\ CloseStep
  <2>1. /\ MaySync(p) /\ sync[p].step = "idle" /\ captured' = Captured /\ file' = Ensured
        /\ rows' = Upserted([t \in Trades |-> HistoryRow(t, EnsuredPrice)]) /\ total' = Refreshed(rows')
        /\ sync' = [sync EXCEPT ![p].step = "upserted"] /\ calm' = \A q \in Syncers : sync[q].step = "idle"
        /\ UNCHANGED <<clock, moves, feeds, trade, shown>>
    BY <1>14 DEF SyncUpsert
  <2>2. EnsuredPrice \in BookPrices
    <3>1. EnsuredPrice = None \/ EnsuredPrice = Ensured.price
      BY <1>1, EnsuredFacts
    <3> QED
      BY <1>3, <1>4, <3>1
  <2>3. /\ rows' \in [Trades -> SUBSET BookRows]
        /\ \A t \in Trades : RealFills(t) => rows'[t] = FilledRow(t)
    <3>1. \A t \in Trades : HistoryRow(t, EnsuredPrice) \in SUBSET BookRows
      BY <1>1, <2>2, FilledFacts
    <3>2. \A t \in Trades : RealFills(t) => HistoryRow(t, EnsuredPrice) = FilledRow(t) /\ FilledRow(t) # {}
      BY <1>1, FilledFacts DEF FilledRow
    <3> QED
      BY <1>1, <2>1, <3>1, <3>2 DEF Upserted
  <2>4. /\ sync' \in [Syncers -> BookSyncs] /\ sync'[p].step = "upserted" /\ \A q \in Syncers : q # p => sync'[q] = sync[q]
    <3> DEFINE s == [sync[p] EXCEPT !.step = "upserted"]
    <3>1. s \in BookSyncs /\ s.step = "upserted"
      <4>1. sync[p] \in BookSyncs
        BY <1>1
      <4>2. sync[p].valid \in SUBSET Trades /\ "upserted" \in {"idle", "upserted", "validated"}
        BY <4>1 DEF BookSyncs
      <4>3. s = [step |-> "upserted", valid |-> sync[p].valid]
        BY <4>1 DEF BookSyncs
      <4> QED
        BY <4>2, <4>3 DEF BookSyncs
    <3>2. sync' = [sync EXCEPT ![p] = s]
      BY <2>1
    <3> HIDE DEF s
    <3> QED
      BY <1>1, <3>1, <3>2
  <2>5. calm' \in BOOLEAN
    BY <2>1
  <2>6. BooksTypeOK'
    BY <1>1, <1>2, <1>3, <2>1, <2>3, <2>4, <2>5 DEF BooksTypeOK, feeds
  <2>7. FeedsTrue'
    <3>1. "early" \notin Extras => clock > 1
      BY <2>1 DEF MaySync
    <3> QED
      BY <1>1, <2>1, <3>1, EnsuredKeeps DEF feeds
  <2>8. TotalTrue'
    BY <2>1, TotalFollows
  <2>9. SyncStages'
    <3> SUFFICES ASSUME calm' PROVE SyncStages'
      BY DEF SyncStages
    <3>1. \A q \in Syncers : q # p => sync'[q].step = "idle"
      BY <2>1, <2>4
    <3>2. \A t \in Trades : RealFills(t)' => rows'[t] = FilledRow(t)'
      BY <2>1, <2>3 DEF RealFills, FilledRow
    <3> QED
      BY <2>4, <3>1, <3>2 DEF SyncStages
  <2>10. CloseStep
    <3>1. file' # file => file.price = None \/ Priority(file'.source) > Priority(file.source)
      BY <1>1, <2>1, EnsuredFacts
    <3> QED
      BY <2>1, <3>1 DEF CloseStep
  <2> QED
    BY <2>6, <2>7, <2>8, <2>9, <2>10 DEF BooksInv
<1>15. ASSUME NEW p \in Syncers, SyncValidate(p) PROVE BooksInv' /\ CloseStep
  <2> DEFINE valid == {t \in Trades : HistoryRow(t, EnsuredPrice) # {}}
  <2>1. /\ sync[p].step = "upserted" /\ captured' = Captured /\ file' = Ensured
        /\ sync' = [sync EXCEPT ![p] = [step |-> "validated", valid |-> valid]]
        /\ UNCHANGED <<clock, moves, feeds, trade, rows, total, shown, calm>>
    BY <1>15 DEF SyncValidate
  <2>2. \A t \in Trades : (RealFills(t) => t \in valid) /\ (Blank(t) => t \notin valid)
    <3>1. \A t \in Trades : FilledRow(t) # {}
      BY DEF FilledRow
    <3> QED
      BY <1>1, <3>1, FilledFacts
  <2>3. valid \in SUBSET Trades
    OBVIOUS
  <2> HIDE DEF valid
  <2>4. /\ sync' \in [Syncers -> BookSyncs] /\ sync'[p] = [step |-> "validated", valid |-> valid]
        /\ \A q \in Syncers : q # p => sync'[q] = sync[q]
    <3>1. [step |-> "validated", valid |-> valid] \in BookSyncs
      BY <2>3 DEF BookSyncs
    <3> QED
      BY <1>1, <2>1, <3>1
  <2>5. sync'[p].step = "validated" /\ sync'[p].valid = valid
    BY <2>4
  <2>6. BooksTypeOK'
    BY <1>1, <1>2, <1>3, <2>1, <2>4 DEF BooksTypeOK, feeds
  <2>7. FeedsTrue'
    <3>1. "early" \notin Extras => clock > 1
      BY <1>1, <2>1 DEF FeedsTrue
    <3> QED
      BY <1>1, <2>1, <3>1, EnsuredKeeps DEF feeds
  <2>8. TotalTrue'
    BY <1>1, <2>1, TotalFrame
  <2>9. SyncStages'
    <3> SUFFICES ASSUME calm' PROVE SyncStages'
      BY DEF SyncStages
    <3>1. \A t \in Trades : RealFills(t)' = RealFills(t) /\ FilledRow(t)' = FilledRow(t) /\ Blank(t)' = Blank(t)
      BY <2>1 DEF RealFills, FilledRow, Blank
    <3>2. calm /\ \A q \in Syncers : q # p => sync[q].step = "idle"
      BY <1>1, <2>1 DEF SyncStages
    <3>3. \A q \in Syncers : q # p => sync'[q].step = "idle"
      BY <2>4, <3>2
    <3>4. \A t \in Trades : RealFills(t)' => rows'[t] = FilledRow(t)'
      BY <1>1, <2>1, <3>1, <3>2 DEF SyncStages
    <3>5. \A t \in Trades : (RealFills(t)' => t \in valid) /\ (Blank(t)' => t \notin valid)
      BY <2>2, <3>1
    <3> QED
      BY <2>5, <3>3, <3>4, <3>5 DEF SyncStages
  <2>10. CloseStep
    <3>1. file' # file => file.price = None \/ Priority(file'.source) > Priority(file.source)
      BY <1>1, <2>1, EnsuredFacts
    <3> QED
      BY <2>1, <3>1 DEF CloseStep
  <2> QED
    BY <2>6, <2>7, <2>8, <2>9, <2>10 DEF BooksInv
<1>16. ASSUME NEW p \in Syncers, SyncPurge(p) PROVE BooksInv' /\ CloseStep
  <2>1. /\ sync[p].step = "validated" /\ rows' = Purged(p) /\ total' = (IF rows' = rows THEN total ELSE Refreshed(rows'))
        /\ sync' = [sync EXCEPT ![p] = [step |-> "idle", valid |-> {}]]
        /\ UNCHANGED <<clock, moves, feeds, captured, file, trade, shown, calm>>
    BY <1>16 DEF SyncPurge
  <2>2. /\ rows' \in [Trades -> SUBSET BookRows]
        /\ \A t \in Trades : rows'[t] = IF t \in sync[p].valid THEN rows[t] ELSE {}
    BY <1>1, <2>1 DEF Purged
  <2>3. /\ sync' \in [Syncers -> BookSyncs] /\ sync'[p] = [step |-> "idle", valid |-> {}]
        /\ \A q \in Syncers : q # p => sync'[q] = sync[q]
    <3>1. [step |-> "idle", valid |-> {}] \in BookSyncs
      BY DEF BookSyncs
    <3> QED
      BY <1>1, <2>1, <3>1
  <2>4. sync'[p].step = "idle"
    BY <2>3
  <2>5. BooksTypeOK'
    BY <1>1, <2>1, <2>2, <2>3 DEF BooksTypeOK, feeds
  <2>6. FeedsTrue'
    <3>1. \A q \in Syncers : sync'[q].step # "idle" => sync[q].step # "idle"
      BY <2>3, <2>4
    <3> QED
      BY <1>1, <2>1, <3>1, FeedsFrame DEF feeds
  <2>7. TotalTrue'
    BY <1>1, <2>1, TotalFrame, TotalFollows
  <2>8. SyncStages'
    <3> SUFFICES ASSUME calm' PROVE SyncStages'
      BY DEF SyncStages
    <3>1. \A t \in Trades : RealFills(t)' = RealFills(t) /\ FilledRow(t)' = FilledRow(t) /\ Blank(t)' = Blank(t)
      BY <2>1 DEF RealFills, FilledRow, Blank
    <3>2. calm /\ \A q \in Syncers : q # p => sync[q].step = "idle"
      BY <1>1, <2>1 DEF SyncStages
    <3>3. \A q \in Syncers : sync'[q].step = "idle"
      BY <2>3, <2>4, <3>2
    <3>4. \A t \in Trades : RealFills(t)' => rows'[t] = FilledRow(t)'
      BY <1>1, <2>1, <2>2, <3>1, <3>2 DEF SyncStages
    <3>5. \A t \in Trades : Blank(t)' => rows'[t] = {}
      BY <1>1, <2>1, <2>2, <3>1, <3>2 DEF SyncStages
    <3> QED
      BY <3>3, <3>4, <3>5 DEF SyncStages
  <2> QED
    BY <2>1, <2>5, <2>6, <2>7, <2>8 DEF BooksInv, CloseStep
<1> QED
  BY <1>5, <1>6, <1>7, <1>8, <1>9, <1>10, <1>11, <1>12, <1>13, <1>14, <1>15, <1>16 DEF HNext

\* A day begins with empty books.
LEMMA BooksStart ==
  ASSUME HInit
  PROVE  BooksInv
<1>1. /\ clock = 1 /\ spx \in Levels /\ streaming \in BOOLEAN /\ polled = None /\ snapshot = None /\ daily = None
      /\ captured = None /\ file = [price |-> None, source |-> "mqtt"]
      /\ trade \in [Trades -> {[status |-> "open", sc |-> None, lc |-> None, at |-> None],
                               [status |-> "cancelled", sc |-> None, lc |-> None, at |-> None]}]
      /\ rows = [t \in Trades |-> {}] /\ sync = [p \in Syncers |-> [step |-> "idle", valid |-> {}]] /\ calm = FALSE
  BY DEF HInit
<1>2. BooksTypeOK
  <2>1. /\ [status |-> "open", sc |-> None, lc |-> None, at |-> None] \in BookTrades
        /\ [status |-> "cancelled", sc |-> None, lc |-> None, at |-> None] \in BookTrades
    BY DEF BookTrades, None
  <2>2. trade \in [Trades -> BookTrades]
    BY <1>1, <2>1
  <2>3. None \in BookPrices /\ "mqtt" \in Sources /\ [step |-> "idle", valid |-> {}] \in BookSyncs
    BY DEF BookPrices, Sources, BookSyncs
  <2>4. file \in [price: BookPrices, source: Sources]
    BY <1>1, <2>3
  <2>5. rows \in [Trades -> SUBSET BookRows] /\ sync \in [Syncers -> BookSyncs]
    BY <1>1, <2>3
  <2>6. calm \in BOOLEAN
    BY <1>1
  <2> QED
    BY <1>1, <2>2, <2>3, <2>4, <2>5, <2>6 DEF BooksTypeOK
<1>3. FeedsTrue
  <2>1. file.price = None /\ \A p \in Syncers : sync[p].step = "idle"
    BY <1>1
  <2> QED
    BY <1>1, <2>1 DEF FeedsTrue
<1>4. TotalTrue
  <2>1. LiveClosed(rows) = {}
    BY <1>1 DEF LiveClosed
  <2> QED
    BY <2>1 DEF TotalTrue
<1>5. SyncStages
  BY <1>1 DEF SyncStages
<1> QED
  BY <1>2, <1>3, <1>4, <1>5 DEF BooksInv

\* The books' invariant holds in every state: what is known of the close is
\* the close, the total is that of the live rows, and a sync that nothing
\* overlaps leaves the rows its trades call for.
THEOREM BooksInvariant == HSpec => []BooksInv
<1>1. BooksInv /\ [HNext]_hvars => BooksInv'
  BY BooksStep
<1> QED
  BY BooksStart, <1>1, PTL DEF HSpec

\* After a sync that nothing overlapped the rows and the total are true
\* (sync_trades_for_date, refresh_daily_total).
THEOREM RowsAreTrue == HSpec => []RowsTrue
<1>1. BooksInv => RowsTrue
  BY DEF BooksInv, SyncStages, TotalTrue, RowsTrue, FilledRow, Blank
<1> QED
  BY BooksInvariant, <1>1, PTL

\* The settlement file only improves, and a trade settles at the index's
\* close when a feed that reaches the file knew it (resolve_spx_close,
\* ensure_eod_close).
THEOREM CloseIsKept == HSpec => CloseSticks
<1>1. BooksInv /\ [HNext]_hvars => [CloseStep]_hvars
  BY BooksStep
<1> QED
  BY BooksInvariant, <1>1, PTL DEF HSpec, CloseSticks, CloseStep

(* --- MeanReversion: the invariant of the strategy ----------------------- *)
FadeBefore == {"off", "wait", "ask", "bounds", "watch", "enter", "cool"}
FadeSteps == FadeBefore \cup {"fill", "book", "note", "hold", "quote", "close", "closed", "tidy", "end"}
FadeTrades == [st: {"none", "open", "closed"}, leg: {"none", "open", "closing", "closed"}, locked: BOOLEAN]
FadeSessions == [entered: BOOLEAN, bounds: 0..2]
FadePresses == [at: {"idle", "read", "marked", "sent", "closed", "moved"}, trade: FadeTrades]

FadeTypeOK ==
  /\ fadescene \in FadeScenes /\ hour \in 0..4 /\ off \in BOOLEAN /\ fade \in FadeSteps
  /\ copy \in FadeTrades /\ active \in FadeTrades /\ past \in {"none", "thread", "desk", "settled"}
  /\ session \in FadeSessions /\ press \in FadePresses /\ own \in 0..1 /\ sold \in 0..1
  /\ opening \in {"none", "working", "filled", "rejected", "cancelling", "cancelled"}
  /\ closing \in {"none", "working", "filled"}

\* The session and the trade file say where the day is: nobody who may still enter has entered, an order sent is an
\* entry noted or about to be, and an entry has left its trade in one of the two places.
FadeEntry ==
  /\ "toggle" \notin fadescene => ~off
  /\ "crash" \notin fadescene /\ fade \in FadeBefore => ~session.entered
  /\ fade \in {"bounds", "watch", "enter", "cool", "fill", "book"} => ~session.entered
  /\ fade \in {"hold", "quote", "close", "closed", "tidy"} => session.entered
  /\ sold = 1 => session.entered \/ fade \in {"fill", "book", "note"}
  /\ active.st # "none" \/ press.at # "idle" => session.entered \/ fade = "note"
  /\ session.entered \/ fade = "note" => active.st # "none" \/ past # "none"
  /\ fade = "tidy" \/ press.at = "moved" => past # "none"

\* What the thread and the dashboard hold of the trade is an open trade.
FadeCopies ==
  /\ press.at # "idle" => press.trade.st = "open"
  /\ fade \in {"note", "hold", "quote", "close", "closed"} => copy.st = "open"

FadeWorking == opening \in {"working", "cancelling"}
FadeAccount ==
  /\ sold = 0 => opening \in {"none", "rejected"}
  /\ own = 1 \/ closing # "none" => opening = "filled"
  /\ closing = "working" => own = 1
  /\ closing = "filled" => own = 0
  /\ fade = "book" => opening # "working"
  /\ hour = 4 => own = 0 /\ ~FadeWorking /\ closing = "none"

\* Nothing is held that no order closes, and nothing comes any more.
FadeFlat == closing # "none" \/ (own = 0 /\ ~FadeWorking)
FadeCovered ==
  fadescene \cap {"refuse", "slow"} = {} =>
    /\ fade \notin {"fill", "book"} => ~FadeWorking /\ (FadeFlat \/ active.st = "open")
    /\ fade \in {"closed", "tidy"} \/ press.at \in {"sent", "closed", "moved"} => FadeFlat

FadeLocks ==
  "desk" \notin fadescene =>
    /\ press.at = "idle"
    /\ fade \in {"note", "hold", "quote"} /\ active.st = "open" /\ active.locked => copy.locked

FadeInv == FadeTypeOK /\ FadeEntry /\ FadeCopies /\ FadeAccount /\ FadeCovered /\ FadeLocks

\* The records the code builds are records of their kinds.
LEMMA FadeRecords ==
  /\ NoTrade \in FadeTrades /\ Unpressed \in FadePresses
  /\ \A s \in FadeSessions : /\ [s EXCEPT !.entered = FALSE] \in FadeSessions
                              /\ [s EXCEPT !.entered = TRUE] \in FadeSessions
                              /\ \A b \in 0..2 : [s EXCEPT !.bounds = b] \in FadeSessions
  /\ \A t \in FadeTrades : [t EXCEPT !.st = "closed", !.leg = "closed"] \in FadeTrades
  /\ \A p \in FadePresses, at \in {"marked", "sent", "closed", "moved"} : [p EXCEPT !.at = at] \in FadePresses
BY DEF NoTrade, Unpressed, FadeTrades, FadeSessions, FadePresses

\* A skipped entry leaves a session on file.
LEMMA FadeSkip == ASSUME FadeTypeOK, Skipped PROVE session' \in FadeSessions
<1>1. session \in FadeSessions
  BY DEF FadeTypeOK
<1> QED
  BY <1>1 DEF Skipped, FadeSessions

\* Bounds kept for the day leave a session on file.
LEMMA FadeBound ==
  ASSUME FadeTypeOK, NEW b \in 1..2, session' = [session EXCEPT !.bounds = Kept(session, b)]
  PROVE  session' \in FadeSessions
<1>1. session \in FadeSessions
  BY DEF FadeTypeOK
<1>2. Kept(session, b) \in 0..2
  BY <1>1 DEF FadeSessions, Kept
<1> QED
  BY <1>1, <1>2 DEF FadeSessions

\* Every step of the strategy, the dashboard and the settlement keeps the invariant.
LEMMA FadeStep ==
  ASSUME FadeCrashAt \cap {"fill", "book", "note"} = {},
         \A s \in FadeScenes : ~({"toggle", "crash"} \subseteq s),
         FadeInv, [FadeNext]_fadevars
  PROVE  FadeInv'
<1>0. FadeTypeOK
  BY DEF FadeInv
<1>1. CASE Boot
  <2>1. session' \in FadeSessions
    BY <1>0, <1>1, FadeSkip, FadeRecords DEF Boot, AtStep, fadefiles, FadeTypeOK, FadePresses, Kept
  <2>2. FadeTypeOK'
    BY <1>0, <1>1, <2>1 DEF Boot, NoTrade, Skipped, AtStep, fadeworld, fadefiles, fadeorders, FadeInv, FadeEntry,
       FadeTypeOK, FadeBefore, FadeSteps
  <2>3. FadeEntry' /\ FadeCopies'
    BY <1>1 DEF Boot, NoTrade, Skipped, AtStep, fadeworld, fadefiles, fadeorders, FadeInv, FadeEntry, FadeCopies,
       FadeAccount, FadeCovered, FadeLocks, FadeWorking, FadeFlat, FadeTypeOK, FadeBefore, FadeSteps, FadeTrades,
       FadeSessions, FadePresses
  <2>4. FadeAccount' /\ FadeCovered' /\ FadeLocks'
    BY <1>1 DEF Boot, NoTrade, Skipped, AtStep, fadeworld, fadefiles, fadeorders, FadeInv, FadeEntry, FadeCopies,
       FadeAccount, FadeCovered, FadeLocks, FadeWorking, FadeFlat, FadeTypeOK, FadeBefore, FadeSteps, FadeTrades,
       FadeSessions, FadePresses
  <2> QED
    BY <2>2, <2>3, <2>4 DEF FadeInv
<1>2. CASE OpenWindow
  BY <1>2 DEF OpenWindow, AtStep, fadeworld, fadefiles, fadeorders, FadeInv, FadeEntry, FadeCopies, FadeAccount,
     FadeCovered, FadeLocks, FadeWorking, FadeFlat, FadeTypeOK, FadeBefore, FadeSteps, FadeTrades, FadeSessions,
     FadePresses
<1>3. CASE Resume
  <2>1. session' \in FadeSessions
    BY <1>0, <1>3, FadeSkip, FadeRecords DEF Resume, AtStep, fadefiles, FadeTypeOK, FadePresses, Kept
  <2>2. FadeTypeOK'
    BY <1>0, <1>3, <2>1 DEF Resume, EnteredToday, Skipped, AtStep, fadeworld, fadefiles, fadeorders, FadeInv,
       FadeEntry, FadeTypeOK, FadeBefore, FadeSteps
  <2>3. FadeEntry' /\ FadeCopies'
    BY <1>3 DEF Resume, EnteredToday, Skipped, AtStep, fadeworld, fadefiles, fadeorders, FadeInv, FadeEntry,
       FadeCopies, FadeAccount, FadeCovered, FadeLocks, FadeWorking, FadeFlat, FadeTypeOK, FadeBefore, FadeSteps,
       FadeTrades, FadeSessions, FadePresses
  <2>4. FadeAccount' /\ FadeCovered' /\ FadeLocks'
    BY <1>3 DEF Resume, EnteredToday, Skipped, AtStep, fadeworld, fadefiles, fadeorders, FadeInv, FadeEntry,
       FadeCopies, FadeAccount, FadeCovered, FadeLocks, FadeWorking, FadeFlat, FadeTypeOK, FadeBefore, FadeSteps,
       FadeTrades, FadeSessions, FadePresses
  <2> QED
    BY <2>2, <2>3, <2>4 DEF FadeInv
<1>4. CASE SetBounds
  <2>1. session' \in FadeSessions
    BY <1>0, <1>4, FadeSkip, FadeBound DEF SetBounds
  <2>2. FadeTypeOK'
    BY <1>0, <1>4, <2>1 DEF SetBounds, Kept, Skipped, AtStep, fadeworld, fadefiles, fadeorders, FadeInv, FadeEntry,
       FadeTypeOK, FadeBefore, FadeSteps
  <2>3. FadeEntry' /\ FadeCopies'
    BY <1>4 DEF SetBounds, Kept, Skipped, AtStep, fadeworld, fadefiles, fadeorders, FadeInv, FadeEntry, FadeCopies,
       FadeAccount, FadeCovered, FadeLocks, FadeWorking, FadeFlat, FadeTypeOK, FadeBefore, FadeSteps, FadeTrades,
       FadeSessions, FadePresses
  <2>4. FadeAccount' /\ FadeCovered' /\ FadeLocks'
    BY <1>4 DEF SetBounds, Kept, Skipped, AtStep, fadeworld, fadefiles, fadeorders, FadeInv, FadeEntry, FadeCopies,
       FadeAccount, FadeCovered, FadeLocks, FadeWorking, FadeFlat, FadeTypeOK, FadeBefore, FadeSteps, FadeTrades,
       FadeSessions, FadePresses
  <2> QED
    BY <2>2, <2>3, <2>4 DEF FadeInv
<1>5. CASE MonitorForTrigger
  <2>1. session' \in FadeSessions
    BY <1>0, <1>5, FadeSkip, FadeRecords DEF MonitorForTrigger, AtStep, fadefiles, FadeTypeOK, FadePresses, Kept
  <2>2. FadeTypeOK'
    BY <1>0, <1>5, <2>1 DEF MonitorForTrigger, Skipped, AtStep, fadeworld, fadefiles, fadeorders, FadeInv,
       FadeEntry, FadeTypeOK, FadeBefore, FadeSteps
  <2>3. FadeEntry' /\ FadeCopies'
    BY <1>5 DEF MonitorForTrigger, Skipped, AtStep, fadeworld, fadefiles, fadeorders, FadeInv, FadeEntry,
       FadeCopies, FadeAccount, FadeCovered, FadeLocks, FadeWorking, FadeFlat, FadeTypeOK, FadeBefore, FadeSteps,
       FadeTrades, FadeSessions, FadePresses
  <2>4. FadeAccount' /\ FadeCovered' /\ FadeLocks'
    BY <1>5 DEF MonitorForTrigger, Skipped, AtStep, fadeworld, fadefiles, fadeorders, FadeInv, FadeEntry,
       FadeCopies, FadeAccount, FadeCovered, FadeLocks, FadeWorking, FadeFlat, FadeTypeOK, FadeBefore, FadeSteps,
       FadeTrades, FadeSessions, FadePresses
  <2> QED
    BY <2>2, <2>3, <2>4 DEF FadeInv
<1>6. CASE Enter
  <2>1. session' \in FadeSessions
    BY <1>0, <1>6, FadeSkip, FadeRecords DEF Enter, AtStep, fadefiles, FadeTypeOK, FadePresses, Kept
  <2>2. FadeTypeOK'
    BY <1>0, <1>6, <2>1 DEF Enter, Skipped, AtStep, fadeworld, fadefiles, fadeorders, FadeInv, FadeEntry,
       FadeTypeOK, FadeBefore, FadeSteps
  <2>3. FadeEntry' /\ FadeCopies'
    BY <1>6 DEF Enter, Skipped, AtStep, fadeworld, fadefiles, fadeorders, FadeInv, FadeEntry, FadeCopies,
       FadeAccount, FadeCovered, FadeLocks, FadeWorking, FadeFlat, FadeTypeOK, FadeBefore, FadeSteps, FadeTrades,
       FadeSessions, FadePresses
  <2>4. FadeAccount' /\ FadeCovered' /\ FadeLocks'
    BY <1>6 DEF Enter, Skipped, AtStep, fadeworld, fadefiles, fadeorders, FadeInv, FadeEntry, FadeCopies,
       FadeAccount, FadeCovered, FadeLocks, FadeWorking, FadeFlat, FadeTypeOK, FadeBefore, FadeSteps, FadeTrades,
       FadeSessions, FadePresses
  <2> QED
    BY <2>2, <2>3, <2>4 DEF FadeInv
<1>7. CASE Cooled
  BY <1>7 DEF Cooled, AtStep, fadeworld, fadefiles, fadeorders, FadeInv, FadeEntry, FadeCopies, FadeAccount,
     FadeCovered, FadeLocks, FadeWorking, FadeFlat, FadeTypeOK, FadeBefore, FadeSteps, FadeTrades, FadeSessions,
     FadePresses
<1>8. CASE Await
  BY <1>8 DEF Await, AtStep, fadeworld, fadefiles, fadeorders, FadeInv, FadeEntry, FadeCopies, FadeAccount,
     FadeCovered, FadeLocks, FadeWorking, FadeFlat, FadeTypeOK, FadeBefore, FadeSteps, FadeTrades, FadeSessions,
     FadePresses
<1>9. CASE Book
  BY <1>9 DEF Book, AtStep, fadeworld, fadefiles, fadeorders, FadeInv, FadeEntry, FadeCopies, FadeAccount,
     FadeCovered, FadeLocks, FadeWorking, FadeFlat, FadeTypeOK, FadeBefore, FadeSteps, FadeTrades, FadeSessions,
     FadePresses
<1>10. CASE Note
  <2>1. session' \in FadeSessions
    BY <1>0, <1>10, FadeRecords DEF Note, EnteredSaved, AtStep, fadefiles, FadeTypeOK, FadePresses, Kept
  <2>2. FadeTypeOK'
    BY <1>0, <1>10, <2>1 DEF Note, EnteredSaved, AtStep, fadeworld, fadefiles, fadeorders, FadeInv, FadeEntry,
       FadeTypeOK, FadeBefore, FadeSteps
  <2>3. FadeEntry' /\ FadeCopies'
    BY <1>10 DEF Note, EnteredSaved, AtStep, fadeworld, fadefiles, fadeorders, FadeInv, FadeEntry, FadeCopies,
       FadeAccount, FadeCovered, FadeLocks, FadeWorking, FadeFlat, FadeTypeOK, FadeBefore, FadeSteps, FadeTrades,
       FadeSessions, FadePresses
  <2>4. FadeAccount' /\ FadeCovered' /\ FadeLocks'
    BY <1>10 DEF Note, EnteredSaved, AtStep, fadeworld, fadefiles, fadeorders, FadeInv, FadeEntry, FadeCopies,
       FadeAccount, FadeCovered, FadeLocks, FadeWorking, FadeFlat, FadeTypeOK, FadeBefore, FadeSteps, FadeTrades,
       FadeSessions, FadePresses
  <2> QED
    BY <2>2, <2>3, <2>4 DEF FadeInv
<1>11. CASE Glance
  BY <1>11 DEF Glance, AtStep, fadeworld, fadefiles, fadeorders, FadeInv, FadeEntry, FadeCopies, FadeAccount,
     FadeCovered, FadeLocks, FadeWorking, FadeFlat, FadeTypeOK, FadeBefore, FadeSteps, FadeTrades, FadeSessions,
     FadePresses
<1>12. CASE Quote
  BY <1>12 DEF Quote, Revalued, Marks, StopOf, Target, LockAt, AtStep, fadeworld, fadefiles, fadeorders, FadeInv,
     FadeEntry, FadeCopies, FadeAccount, FadeCovered, FadeLocks, FadeWorking, FadeFlat, FadeTypeOK, FadeBefore,
     FadeSteps, FadeTrades, FadeSessions, FadePresses
<1>13. CASE Close
  BY <1>13 DEF Close, SendClose, Room, Refusable, AtStep, fadeworld, fadefiles, fadeorders, FadeInv, FadeEntry,
     FadeCopies, FadeAccount, FadeCovered, FadeLocks, FadeWorking, FadeFlat, FadeTypeOK, FadeBefore, FadeSteps,
     FadeTrades, FadeSessions, FadePresses
<1>14. CASE ToHistory
  <2>1. press' \in FadePresses /\ active' \in FadeTrades /\ copy' \in FadeTrades
    BY <1>0, <1>14, FadeRecords DEF ToHistory, AtStep, fadefiles, FadeTypeOK, FadePresses, Kept
  <2>2. FadeTypeOK'
    BY <1>0, <1>14, <2>1 DEF ToHistory, AtStep, fadeworld, fadefiles, fadeorders, FadeInv, FadeEntry, FadeTypeOK,
       FadeBefore, FadeSteps
  <2>3. FadeEntry' /\ FadeCopies'
    BY <1>14 DEF ToHistory, AtStep, fadeworld, fadefiles, fadeorders, FadeInv, FadeEntry, FadeCopies, FadeAccount,
       FadeCovered, FadeLocks, FadeWorking, FadeFlat, FadeTypeOK, FadeBefore, FadeSteps, FadeTrades, FadeSessions,
       FadePresses
  <2>4. FadeAccount' /\ FadeCovered' /\ FadeLocks'
    BY <1>14 DEF ToHistory, AtStep, fadeworld, fadefiles, fadeorders, FadeInv, FadeEntry, FadeCopies, FadeAccount,
       FadeCovered, FadeLocks, FadeWorking, FadeFlat, FadeTypeOK, FadeBefore, FadeSteps, FadeTrades, FadeSessions,
       FadePresses
  <2> QED
    BY <2>2, <2>3, <2>4 DEF FadeInv
<1>15. CASE Tidy
  <2>1. session' \in FadeSessions /\ active' \in FadeTrades
    BY <1>0, <1>15, FadeRecords DEF Tidy, EnteredSaved, NoTrade, AtStep, fadefiles, FadeTypeOK
  <2>2. FadeTypeOK'
    BY <1>0, <1>15, <2>1 DEF Tidy, EnteredSaved, NoTrade, AtStep, fadeworld, fadefiles, fadeorders, FadeInv,
       FadeEntry, FadeTypeOK, FadeBefore, FadeSteps
  <2>3. FadeEntry' /\ FadeCopies'
    BY <1>15 DEF Tidy, EnteredSaved, NoTrade, AtStep, fadeworld, fadefiles, fadeorders, FadeInv, FadeEntry,
       FadeCopies, FadeAccount, FadeCovered, FadeLocks, FadeWorking, FadeFlat, FadeTypeOK, FadeBefore, FadeSteps,
       FadeTrades, FadeSessions, FadePresses
  <2>4. FadeAccount' /\ FadeCovered' /\ FadeLocks'
    BY <1>15 DEF Tidy, EnteredSaved, NoTrade, AtStep, fadeworld, fadefiles, fadeorders, FadeInv, FadeEntry,
       FadeCopies, FadeAccount, FadeCovered, FadeLocks, FadeWorking, FadeFlat, FadeTypeOK, FadeBefore, FadeSteps,
       FadeTrades, FadeSessions, FadePresses
  <2> QED
    BY <2>2, <2>3, <2>4 DEF FadeInv
<1>16. CASE PressRead
  BY <1>16 DEF PressRead, Switched, OfPress, AtStep, fadeworld, fadefiles, fadeorders, FadeInv, FadeEntry,
     FadeCopies, FadeAccount, FadeCovered, FadeLocks, FadeWorking, FadeFlat, FadeTypeOK, FadeBefore, FadeSteps,
     FadeTrades, FadeSessions, FadePresses
<1>17. CASE PressMark
  BY <1>17 DEF PressMark, OfPress, AtStep, fadeworld, fadefiles, fadeorders, FadeInv, FadeEntry, FadeCopies,
     FadeAccount, FadeCovered, FadeLocks, FadeWorking, FadeFlat, FadeTypeOK, FadeBefore, FadeSteps, FadeTrades,
     FadeSessions, FadePresses
<1>18. CASE PressSend
  <2>1. press' \in FadePresses /\ active' \in FadeTrades /\ copy' \in FadeTrades
    BY <1>0, <1>18, FadeRecords DEF PressSend, OfPress, Room, SendClose, Refusable, Unpressed, AtStep, fadefiles,
       FadeTypeOK, FadePresses, Kept
  <2>2. FadeTypeOK'
    BY <1>0, <1>18, <2>1 DEF PressSend, OfPress, Room, SendClose, Refusable, Unpressed, AtStep, fadeworld,
       fadefiles, fadeorders, FadeInv, FadeEntry, FadeTypeOK, FadeBefore, FadeSteps
  <2>3. FadeEntry' /\ FadeCopies'
    BY <1>18 DEF PressSend, OfPress, Room, SendClose, Refusable, Unpressed, AtStep, fadeworld, fadefiles,
       fadeorders, FadeInv, FadeEntry, FadeCopies, FadeAccount, FadeCovered, FadeLocks, FadeWorking, FadeFlat,
       FadeTypeOK, FadeBefore, FadeSteps, FadeTrades, FadeSessions, FadePresses
  <2>4. FadeAccount' /\ FadeCovered' /\ FadeLocks'
    BY <1>18 DEF PressSend, OfPress, Room, SendClose, Refusable, Unpressed, AtStep, fadeworld, fadefiles,
       fadeorders, FadeInv, FadeEntry, FadeCopies, FadeAccount, FadeCovered, FadeLocks, FadeWorking, FadeFlat,
       FadeTypeOK, FadeBefore, FadeSteps, FadeTrades, FadeSessions, FadePresses
  <2> QED
    BY <2>2, <2>3, <2>4 DEF FadeInv
<1>19. CASE PressClosed
  <2>1. press' \in FadePresses /\ active' \in FadeTrades /\ copy' \in FadeTrades
    BY <1>0, <1>19, FadeRecords DEF PressClosed, OfPress, AtStep, fadefiles, FadeTypeOK, FadePresses, Kept
  <2>2. FadeTypeOK'
    BY <1>0, <1>19, <2>1 DEF PressClosed, OfPress, AtStep, fadeworld, fadefiles, fadeorders, FadeInv, FadeEntry,
       FadeTypeOK, FadeBefore, FadeSteps
  <2>3. FadeEntry' /\ FadeCopies'
    BY <1>19 DEF PressClosed, OfPress, AtStep, fadeworld, fadefiles, fadeorders, FadeInv, FadeEntry, FadeCopies,
       FadeAccount, FadeCovered, FadeLocks, FadeWorking, FadeFlat, FadeTypeOK, FadeBefore, FadeSteps, FadeTrades,
       FadeSessions, FadePresses
  <2>4. FadeAccount' /\ FadeCovered' /\ FadeLocks'
    BY <1>19 DEF PressClosed, OfPress, AtStep, fadeworld, fadefiles, fadeorders, FadeInv, FadeEntry, FadeCopies,
       FadeAccount, FadeCovered, FadeLocks, FadeWorking, FadeFlat, FadeTypeOK, FadeBefore, FadeSteps, FadeTrades,
       FadeSessions, FadePresses
  <2> QED
    BY <2>2, <2>3, <2>4 DEF FadeInv
<1>20. CASE PressMove
  <2>1. press' \in FadePresses /\ active' \in FadeTrades /\ copy' \in FadeTrades
    BY <1>0, <1>20, FadeRecords DEF PressMove, OfPress, Unpressed, AtStep, fadefiles, FadeTypeOK, FadePresses, Kept
  <2>2. FadeTypeOK'
    BY <1>0, <1>20, <2>1 DEF PressMove, OfPress, NoTrade, Unpressed, AtStep, fadeworld, fadefiles, fadeorders,
       FadeInv, FadeEntry, FadeTypeOK, FadeBefore, FadeSteps
  <2>3. FadeEntry' /\ FadeCopies'
    BY <1>20 DEF PressMove, OfPress, NoTrade, Unpressed, AtStep, fadeworld, fadefiles, fadeorders, FadeInv,
       FadeEntry, FadeCopies, FadeAccount, FadeCovered, FadeLocks, FadeWorking, FadeFlat, FadeTypeOK, FadeBefore,
       FadeSteps, FadeTrades, FadeSessions, FadePresses
  <2>4. FadeAccount' /\ FadeCovered' /\ FadeLocks'
    BY <1>20 DEF PressMove, OfPress, NoTrade, Unpressed, AtStep, fadeworld, fadefiles, fadeorders, FadeInv,
       FadeEntry, FadeCopies, FadeAccount, FadeCovered, FadeLocks, FadeWorking, FadeFlat, FadeTypeOK, FadeBefore,
       FadeSteps, FadeTrades, FadeSessions, FadePresses
  <2> QED
    BY <2>2, <2>3, <2>4 DEF FadeInv
<1>21. CASE Settled
  BY <1>21 DEF Settled, NoTrade, Unpressed, AtStep, fadeworld, fadefiles, fadeorders, FadeInv, FadeEntry,
     FadeCopies, FadeAccount, FadeCovered, FadeLocks, FadeWorking, FadeFlat, FadeTypeOK, FadeBefore, FadeSteps,
     FadeTrades, FadeSessions, FadePresses
<1>22. CASE Brokerage
  BY <1>22 DEF Brokerage, AtStep, fadeworld, fadefiles, fadeorders, FadeInv, FadeEntry, FadeCopies, FadeAccount,
     FadeCovered, FadeLocks, FadeWorking, FadeFlat, FadeTypeOK, FadeBefore, FadeSteps, FadeTrades, FadeSessions,
     FadePresses
<1>23. CASE Hour
  BY <1>23 DEF Hour, AtStep, fadeworld, fadefiles, fadeorders, FadeInv, FadeEntry, FadeCopies, FadeAccount,
     FadeCovered, FadeLocks, FadeWorking, FadeFlat, FadeTypeOK, FadeBefore, FadeSteps, FadeTrades, FadeSessions,
     FadePresses
<1>24. CASE Toggle
  BY <1>24 DEF Toggle, Switched, AtStep, fadeworld, fadefiles, fadeorders, FadeInv, FadeEntry, FadeCopies,
     FadeAccount, FadeCovered, FadeLocks, FadeWorking, FadeFlat, FadeTypeOK, FadeBefore, FadeSteps, FadeTrades,
     FadeSessions, FadePresses
<1>25. CASE Die
  BY <1>25 DEF Die, Switched, NoTrade, AtStep, fadeworld, fadefiles, fadeorders, FadeInv, FadeEntry, FadeCopies,
     FadeAccount, FadeCovered, FadeLocks, FadeWorking, FadeFlat, FadeTypeOK, FadeBefore, FadeSteps, FadeTrades,
     FadeSessions, FadePresses
<1>26. CASE UNCHANGED fadevars
  BY <1>26 DEF fadevars, AtStep, fadeworld, fadefiles, fadeorders, FadeInv, FadeEntry, FadeCopies, FadeAccount,
     FadeCovered, FadeLocks, FadeWorking, FadeFlat, FadeTypeOK, FadeBefore, FadeSteps, FadeTrades, FadeSessions,
     FadePresses
<1> QED
  BY <1>1, <1>2, <1>3, <1>4, <1>5, <1>6, <1>7, <1>8, <1>9, <1>10, <1>11, <1>12, <1>13, <1>14, <1>15, <1>16, <1>17,
     <1>18, <1>19, <1>20, <1>21, <1>22, <1>23, <1>24, <1>25, <1>26 DEF FadeNext, FadeThread

FadeDay ==
  /\ session.bounds # 0 => session'.bounds = session.bounds
  /\ ~({"toggle", "crash"} \subseteq fadescene) /\ session.entered => session'.entered
  /\ active.st = "open" /\ active'.st = "open" /\ active.locked /\ "desk" \notin fadescene => active'.locked

\* No step forgets that the day's entry was made.
LEMMA FadeDayStep ==
  ASSUME FadeCrashAt \cap {"fill", "book", "note"} = {},
         \A s \in FadeScenes : ~({"toggle", "crash"} \subseteq s),
         FadeInv, FadeNext
  PROVE  FadeDay
<1>0. session \in FadeSessions
  BY DEF FadeInv, FadeTypeOK
<1>1. CASE Boot
  BY <1>0, <1>1 DEF Boot, NoTrade, Skipped, AtStep, fadeworld, fadefiles, fadeorders, FadeDay, FadeInv, FadeEntry,
     FadeCopies, FadeLocks, FadeSessions
<1>2. CASE OpenWindow
  BY <1>0, <1>2 DEF OpenWindow, AtStep, fadeworld, fadefiles, fadeorders, FadeDay, FadeInv, FadeEntry, FadeCopies,
     FadeLocks, FadeSessions
<1>3. CASE Resume
  BY <1>0, <1>3 DEF Resume, EnteredToday, Skipped, AtStep, fadeworld, fadefiles, fadeorders, FadeDay, FadeInv,
     FadeEntry, FadeCopies, FadeLocks, FadeSessions, FadeBefore
<1>4. CASE SetBounds
  BY <1>0, <1>4 DEF SetBounds, Kept, Skipped, AtStep, fadeworld, fadefiles, fadeorders, FadeDay, FadeInv, FadeEntry,
     FadeCopies, FadeLocks, FadeSessions
<1>5. CASE MonitorForTrigger
  BY <1>0, <1>5 DEF MonitorForTrigger, Skipped, AtStep, fadeworld, fadefiles, fadeorders, FadeDay, FadeInv,
     FadeEntry, FadeCopies, FadeLocks, FadeSessions
<1>6. CASE Enter
  BY <1>0, <1>6 DEF Enter, Skipped, AtStep, fadeworld, fadefiles, fadeorders, FadeDay, FadeInv, FadeEntry,
     FadeCopies, FadeLocks, FadeSessions
<1>7. CASE Cooled
  BY <1>0, <1>7 DEF Cooled, AtStep, fadeworld, fadefiles, fadeorders, FadeDay, FadeInv, FadeEntry, FadeCopies,
     FadeLocks, FadeSessions
<1>8. CASE Await
  BY <1>0, <1>8 DEF Await, AtStep, fadeworld, fadefiles, fadeorders, FadeDay, FadeInv, FadeEntry, FadeCopies,
     FadeLocks, FadeSessions
<1>9. CASE Book
  BY <1>0, <1>9 DEF Book, AtStep, fadeworld, fadefiles, fadeorders, FadeDay, FadeInv, FadeEntry, FadeCopies,
     FadeLocks, FadeSessions
<1>10. CASE Note
  BY <1>0, <1>10 DEF Note, EnteredSaved, AtStep, fadeworld, fadefiles, fadeorders, FadeDay, FadeInv, FadeEntry,
     FadeCopies, FadeLocks, FadeSessions
<1>11. CASE Glance
  BY <1>0, <1>11 DEF Glance, AtStep, fadeworld, fadefiles, fadeorders, FadeDay, FadeInv, FadeEntry, FadeCopies,
     FadeLocks, FadeSessions
<1>12. CASE Quote
  BY <1>0, <1>12 DEF Quote, Revalued, Marks, StopOf, Target, LockAt, AtStep, fadeworld, fadefiles, fadeorders,
     FadeDay, FadeInv, FadeEntry, FadeCopies, FadeLocks, FadeSessions, FadeTypeOK, FadeTrades
<1>13. CASE Close
  BY <1>0, <1>13 DEF Close, SendClose, Room, Refusable, AtStep, fadeworld, fadefiles, fadeorders, FadeDay, FadeInv,
     FadeEntry, FadeCopies, FadeLocks, FadeSessions
<1>14. CASE ToHistory
  BY <1>0, <1>14 DEF ToHistory, AtStep, fadeworld, fadefiles, fadeorders, FadeDay, FadeInv, FadeEntry, FadeCopies,
     FadeLocks, FadeSessions
<1>15. CASE Tidy
  BY <1>0, <1>15 DEF Tidy, EnteredSaved, NoTrade, AtStep, fadeworld, fadefiles, fadeorders, FadeDay, FadeInv,
     FadeEntry, FadeCopies, FadeLocks, FadeSessions
<1>16. CASE PressRead
  BY <1>0, <1>16 DEF PressRead, Switched, OfPress, AtStep, fadeworld, fadefiles, fadeorders, FadeDay, FadeInv,
     FadeEntry, FadeCopies, FadeLocks, FadeSessions
<1>17. CASE PressMark
  BY <1>0, <1>17 DEF PressMark, OfPress, AtStep, fadeworld, fadefiles, fadeorders, FadeDay, FadeInv, FadeEntry,
     FadeCopies, FadeLocks, FadeSessions
<1>18. CASE PressSend
  BY <1>0, <1>18 DEF PressSend, OfPress, Room, SendClose, Refusable, Unpressed, AtStep, fadeworld, fadefiles,
     fadeorders, FadeDay, FadeInv, FadeEntry, FadeCopies, FadeLocks, FadeSessions
<1>19. CASE PressClosed
  BY <1>0, <1>19 DEF PressClosed, OfPress, AtStep, fadeworld, fadefiles, fadeorders, FadeDay, FadeInv, FadeEntry,
     FadeCopies, FadeLocks, FadeSessions
<1>20. CASE PressMove
  BY <1>0, <1>20 DEF PressMove, OfPress, NoTrade, Unpressed, AtStep, fadeworld, fadefiles, fadeorders, FadeDay,
     FadeInv, FadeEntry, FadeCopies, FadeLocks, FadeSessions
<1>21. CASE Settled
  BY <1>0, <1>21 DEF Settled, NoTrade, Unpressed, AtStep, fadeworld, fadefiles, fadeorders, FadeDay, FadeInv,
     FadeEntry, FadeCopies, FadeLocks, FadeSessions
<1>22. CASE Brokerage
  BY <1>0, <1>22 DEF Brokerage, AtStep, fadeworld, fadefiles, fadeorders, FadeDay, FadeInv, FadeEntry, FadeCopies,
     FadeLocks, FadeSessions
<1>23. CASE Hour
  BY <1>0, <1>23 DEF Hour, AtStep, fadeworld, fadefiles, fadeorders, FadeDay, FadeInv, FadeEntry, FadeCopies,
     FadeLocks, FadeSessions
<1>24. CASE Toggle
  BY <1>0, <1>24 DEF Toggle, Switched, AtStep, fadeworld, fadefiles, fadeorders, FadeDay, FadeInv, FadeEntry,
     FadeCopies, FadeLocks, FadeSessions
<1>25. CASE Die
  BY <1>0, <1>25 DEF Die, Switched, NoTrade, AtStep, fadeworld, fadefiles, fadeorders, FadeDay, FadeInv, FadeEntry,
     FadeCopies, FadeLocks, FadeSessions
<1> QED
  BY <1>1, <1>2, <1>3, <1>4, <1>5, <1>6, <1>7, <1>8, <1>9, <1>10, <1>11, <1>12, <1>13, <1>14, <1>15, <1>16, <1>17,
     <1>18, <1>19, <1>20, <1>21, <1>22, <1>23, <1>24, <1>25 DEF FadeNext, FadeThread

\* The invariant of the mean-reversion strategy holds in every state, for a crash that is not between an entry's fill
\* and its note in the session file, and for days on which the operator's switch and a crash do not meet.
THEOREM FadeInvariant ==
  ASSUME FadeCrashAt \cap {"fill", "book", "note"} = {},
         \A s \in FadeScenes : ~({"toggle", "crash"} \subseteq s)
  PROVE  FadeSpec => []FadeInv
<1>1. ASSUME FadeInit PROVE FadeInv
  <2>1. 0 \in 0..1 /\ 0 \in 0..2 /\ 0 \in 0..4
    OBVIOUS
  <2>2. session \in FadeSessions
    BY <1>1, <2>1, Zenon DEF FadeInit, FadeResting, FadeSessions
  <2>3. FadeTypeOK
    BY <1>1, <2>1, <2>2, FadeRecords, ZenonT(30) DEF FadeInit, FadeResting, FadeTypeOK, FadeBefore, FadeSteps
  <2> QED
    BY <1>1, <2>3 DEF FadeInit, FadeResting, NoTrade, Unpressed, FadeInv, FadeEntry, FadeCopies, FadeAccount,
       FadeCovered, FadeLocks, FadeWorking, FadeFlat, FadeBefore
<1>2. FadeInv /\ [FadeNext]_fadevars => FadeInv'
  BY FadeStep
<1> QED
  BY <1>1, <1>2, PTL DEF FadeSpec

\* FadeOnFile, under the same two hypotheses: a second opening order is never sent, and what the account holds and no
\* order closes is on file as open once the entry is booked (run, _execute_entry, _manage_open_trade,
\* close_structure).
THEOREM FadeIsOnFile ==
  ASSUME FadeCrashAt \cap {"fill", "book", "note"} = {},
         \A s \in FadeScenes : ~({"toggle", "crash"} \subseteq s)
  PROVE  FadeSpec => []FadeOnFile
<1>1. FadeInv => FadeOnFile
  BY DEF FadeOnFile, FadeInv, FadeEntry, FadeCopies, FadeAccount, FadeCovered, FadeLocks, FadeWorking, FadeFlat,
     FadeTypeOK, FadeBefore, FadeSteps, FadeTrades, FadeSessions, FadePresses
<1> QED
  BY <1>1, FadeInvariant, PTL

\* DayRemembered, under the same two hypotheses: bounds once kept, a day once entered and a stop once moved to its
\* lock stay so through every restart (_save_session, _load_session, _manage_open_trade).
THEOREM DayIsRemembered ==
  ASSUME FadeCrashAt \cap {"fill", "book", "note"} = {},
         \A s \in FadeScenes : ~({"toggle", "crash"} \subseteq s)
  PROVE  FadeSpec => DayRemembered
<1>1. FadeInv /\ [FadeNext]_fadevars => [FadeDay]_fadevars
  BY FadeDayStep
<1> QED
  BY <1>1, FadeInvariant, PTL DEF FadeSpec, DayRemembered, FadeDay

(* --- PaperMode: the invariant of the modes ------------------------------ *)
ModeChoices == Modes \cup {"unset"}
ModeLayers == [ModeKeys -> ModeChoices]
ModeStores == [today: ModeLayers, kept: ModeLayers, modes: ModeLayers, settings: Modes]
ModeBots == [alive: BOOLEAN, on: BOOLEAN, cfg: ModeLayers, via: ModeChoices, old: BOOLEAN]
ModeTrades == [st: {"none", "pending", "open"}, key: ModeKeys, lay: ModeChoices, stamp: ModeChoices, todo: BOOLEAN]
ModeCloses == [lay: ModeChoices, stamp: ModeChoices, went: ModeChoices, by: {"nobody", "monitor", "desk", "thread"}]

ModeTypeOK ==
  /\ mscene \in ModeScenes /\ store \in ModeStores /\ word \in [ModeKeys -> Modes] /\ bot \in ModeBots
  /\ pos \in ModeTrades /\ last \in ModeCloses /\ draft \in Seq(ModeLayers) /\ torn \in BOOLEAN

\* A running thread knows its mode; a trade's stamp, where it has one, is where it lies.
ModeTradesKnown ==
  /\ bot.on => bot.alive /\ Threaded
  /\ bot.alive => Threaded /\ bot.cfg["paper"] \in Modes /\ (Is("fade") => bot.via = bot.cfg["paper"])
  /\ pos.todo => pos.st # "none"
  /\ pos.st # "none" => pos.lay \in Modes /\ pos.stamp \in {"unset", pos.lay}
  /\ pos.st # "none" /\ Threaded => pos.stamp = pos.lay

KeysUsed == IF Is("sleeves") THEN ModeKeys ELSE {"paper"}
Within(f, w) == \A k \in KeysUsed : f[k] \in {"unset", w[k]}
Fallback(s, w, k) == IF k \in Subs THEN w["paper"] ELSE IF Is("meic") THEN s.settings ELSE Yaml

\* Each store that speaks of a key repeats the operator's word; where the modes are silent the kept overrides are, and
\* the word is what the precedence falls back to.
ModeStoresAgree(s, w) ==
  /\ Is("meic") => s.settings = w["paper"]
  /\ Within(s.kept, w) /\ Within(s.modes, w)
  /\ \A k \in Traded : s.modes[k] = "unset" <=> s.kept[k] = "unset"
  /\ \A k \in Traded : s.modes[k] = "unset" => w[k] = Fallback(s, w, k)
  /\ Is("sleeves") /\ s.kept["paper"] = "unset" => w["paper"] = Yaml

ModeAgreement ==
  /\ torn \/ draft # <<>> => Is("fade")
  /\ ModeStoresAgree(store, word)
  /\ ~torn => Within(store.today, word)
  /\ bot.alive /\ ~bot.old => \A k \in Traded : store.kept[k] = "unset" => bot.cfg[k] = word[k]

ModeInv == ModeTypeOK /\ ModeTradesKnown /\ ClosesWhereItLies /\ (~Is("panel") /\ ~Is("drop") => ModeAgreement)

\* A scene is of one strategy.
LEMMA OneStrategy ==
  ASSUME mscene \in ModeScenes
  PROVE  /\ ~(Is("meic") /\ Is("manual")) /\ ~(Is("meic") /\ Threaded) /\ ~(Is("manual") /\ Threaded)
         /\ ~(Is("fade") /\ Is("sleeves"))
         /\ Is("meic") \/ Is("manual") \/ Threaded
<1>1. PICK x \in Strategies : mscene \cap Strategies = {x}
  BY ModeAssumption
<1> QED
  BY <1>1 DEF Is, Threaded, Strategies

\* `a or b` of Python: the first word that is set.
LEMMA OrFacts ==
  /\ \A a, b \in ModeChoices : Or(a, b) \in ModeChoices
  /\ \A a \in ModeChoices, b \in Modes : Or(a, b) \in Modes
  /\ \A a : Or("unset", a) = a /\ Or(a, "unset") = a
  /\ \A a \in Modes : \A b : Or(a, b) = a
BY DEF Or, ModeChoices, Modes

\* Filling one layer from another is `or`, key by key.
LEMMA FillFacts ==
  ASSUME NEW f \in ModeLayers, NEW g \in ModeLayers
  PROVE  Fill(f, g) \in ModeLayers /\ \A k \in ModeKeys : Fill(f, g)[k] = Or(f[k], g[k])
<1>1. \A k \in ModeKeys : Or(f[k], g[k]) \in ModeChoices
  BY OrFacts DEF ModeLayers
<1> QED
  BY <1>1 DEF Fill, ModeLayers

\* The empty layer is a layer.
LEMMA NothingIsLayer == Nothing \in ModeLayers
BY DEF Nothing, ModeLayers, ModeChoices

\* Which keys a strategy uses and trades under.
LEMMA KeyFacts ==
  /\ ModeKeys = {"paper", "dir", "non"} /\ Subs = {"dir", "non"} /\ Subs \subseteq ModeKeys
  /\ KeysUsed \subseteq ModeKeys /\ Traded \subseteq KeysUsed /\ "paper" \in KeysUsed
  /\ Is("sleeves") => KeysUsed = ModeKeys /\ Traded = Subs
  /\ ~Is("sleeves") => KeysUsed = {"paper"} /\ Traded = {"paper"}
  /\ Yaml \in Modes /\ (~Is("manual") => Yaml = "paper") /\ Modes = {"paper", "live"}
BY DEF ModeKeys, Subs, KeysUsed, Traded, Yaml, Modes

\* What the modes say of a key, for a sleeve also by the whole.
Spoken(s, k) == IF Is("sleeves") THEN Or(s.modes[k], s.modes["paper"]) ELSE s.modes[k]

\* What the modes file says of each key.
LEMMA ModesOfFacts ==
  ASSUME NEW s \in ModeStores
  PROVE  ModesOf(s.modes) \in ModeLayers /\ \A k \in ModeKeys : ModesOf(s.modes)[k] = Spoken(s, k)
<1>1. s.modes \in ModeLayers /\ \A k \in ModeKeys : s.modes[k] \in ModeChoices
  BY DEF ModeStores, ModeLayers
<1>2. [k \in ModeKeys |-> s.modes["paper"]] \in ModeLayers
  BY <1>1, KeyFacts DEF ModeLayers
<1> QED
  BY <1>1, <1>2, FillFacts DEF ModesOf, Spoken

\* What the overrides of a start say: today's, then the modes', then the kept ones.
LEMMA LoadedFacts ==
  ASSUME NEW s \in ModeStores
  PROVE  /\ Loaded(s) \in ModeLayers
         /\ \A k \in ModeKeys : Loaded(s)[k] = Or(s.today[k], Or(Spoken(s, k), s.kept[k]))
<1>1. s.kept \in ModeLayers /\ s.today \in ModeLayers
  BY DEF ModeStores
<1>2. /\ Fill(ModesOf(s.modes), s.kept) \in ModeLayers
      /\ \A k \in ModeKeys : Fill(ModesOf(s.modes), s.kept)[k] = Or(Spoken(s, k), s.kept[k])
  BY <1>1, FillFacts, ModesOfFacts
<1> QED
  BY <1>1, <1>2, FillFacts DEF Loaded

\* Reading: a key in use is loaded as the operator's word or not at all.
LEMMA LoadedWithin ==
  ASSUME NEW s \in ModeStores, NEW w \in [ModeKeys -> Modes], ModeStoresAgree(s, w), Within(s.today, w)
  PROVE  Within(Loaded(s), w)
<1> SUFFICES ASSUME NEW k \in KeysUsed PROVE Loaded(s)[k] \in {"unset", w[k]}
  BY DEF Within
<1>1. k \in ModeKeys
  BY KeyFacts
<1>2. {s.today[k], s.modes[k], s.kept[k]} \subseteq {"unset", w[k]} /\ s.modes["paper"] \in {"unset", w["paper"]}
  BY KeyFacts DEF ModeStoresAgree, Within
<1>3. Spoken(s, k) \in {"unset", w[k]}
  <2>1. CASE Is("sleeves") /\ k \in Subs
    BY <1>2, <2>1, KeyFacts DEF Spoken, ModeStoresAgree, Fallback, Or
  <2>2. CASE ~Is("sleeves") \/ k = "paper"
    BY <1>2, <2>2 DEF Spoken, Or
  <2> QED
    BY <2>1, <2>2, <1>1, KeyFacts
<1> QED
  BY <1>1, <1>2, <1>3, LoadedFacts DEF Or

\* What the dashboard shows is the operator's word.
LEMMA ShownIsWord ==
  ASSUME mscene \in ModeScenes, NEW s \in ModeStores, NEW w \in [ModeKeys -> Modes],
         ModeStoresAgree(s, w), Within(s.today, w), NEW k \in Traded
  PROVE  Shown(s, k) = w[k]
<1>1. k \in KeysUsed /\ k \in ModeKeys /\ w[k] \in Modes
  BY KeyFacts
<1>2. Loaded(s)[k] \in {"unset", w[k]} /\ Loaded(s)["paper"] \in {"unset", w["paper"]}
  BY <1>1, LoadedWithin, KeyFacts DEF Within
<1>3. CASE Loaded(s)[k] # "unset"
  BY <1>2, <1>3 DEF Shown, Or
<1>4. CASE Loaded(s)[k] = "unset"
  <2>1. s.today[k] = "unset" /\ Spoken(s, k) = "unset" /\ s.kept[k] = "unset"
    BY <1>1, <1>4, LoadedFacts DEF Or
  <2>2. s.modes[k] = "unset" /\ (k \in Subs => s.modes["paper"] = "unset")
    BY <2>1, KeyFacts DEF Spoken, Or
  <2>3. w[k] = Fallback(s, w, k)
    BY <2>2 DEF ModeStoresAgree
  <2>4. CASE k \in Subs
    <3>1. Is("sleeves")
      BY <2>4, KeyFacts
    <3>2. Persisted(s.modes, k) \in {"unset", "paper"}
      BY <2>2, <2>4 DEF Persisted
    <3>3. ~Is("meic") /\ Yaml = "paper"
      BY <3>1, OneStrategy DEF Threaded, Yaml
    <3>4. Loaded(s)["paper"] = "unset" => w["paper"] = "paper"
      <4>1. SUFFICES ASSUME Loaded(s)["paper"] = "unset" PROVE s.kept["paper"] = "unset"
        BY <3>1, <3>3 DEF ModeStoresAgree
      <4> QED
        BY <4>1, LoadedFacts, KeyFacts DEF Or
    <3> QED
      BY <1>2, <1>4, <2>3, <2>4, <3>2, <3>3, <3>4 DEF Shown, Or, Fallback
  <2>5. CASE k \notin Subs
    BY <1>4, <2>2, <2>3, <2>5 DEF Shown, Or, Fallback, Persisted
  <2> QED
    BY <2>4, <2>5
<1> QED
  BY <1>3, <1>4

\* ...and so is the mode of the next entry, in a process that remembers no deleted override.
LEMMA BuiltFacts ==
  ASSUME NEW s \in ModeStores
  PROVE  /\ Built(s) \in ModeLayers /\ Built(s)["paper"] \in Modes
         /\ \A k \in Subs : Built(s)[k] = Spoken(s, k)
         /\ Built(s)["paper"] = Or(s.modes["paper"], Yaml)
<1>1. [Nothing EXCEPT !["paper"] = Yaml] \in ModeLayers
  BY NothingIsLayer, KeyFacts DEF ModeLayers, ModeChoices
<1> DEFINE yaml == [Nothing EXCEPT !["paper"] = Yaml]
<1>2. /\ Built(s) \in ModeLayers
      /\ \A k \in ModeKeys : Built(s)[k] = Or(Spoken(s, k), yaml[k])
  <2>1. ModesOf(s.modes) \in ModeLayers /\ \A k \in ModeKeys : ModesOf(s.modes)[k] = Spoken(s, k)
    BY ModesOfFacts
  <2>2. /\ Fill(ModesOf(s.modes), yaml) \in ModeLayers
        /\ \A k \in ModeKeys : Fill(ModesOf(s.modes), yaml)[k] = Or(ModesOf(s.modes)[k], yaml[k])
    <3> HIDE DEF yaml
    <3> QED
      BY <1>1, <2>1, FillFacts DEF yaml
  <2>3. Built(s) = Fill(ModesOf(s.modes), yaml)
    BY DEF Built
  <2> HIDE DEF yaml
  <2> QED
    BY <2>1, <2>2, <2>3
<1>3. /\ [Nothing EXCEPT !["paper"] = Yaml]["paper"] = Yaml
      /\ \A k \in Subs : [Nothing EXCEPT !["paper"] = Yaml][k] = "unset"
  BY KeyFacts DEF Nothing
<1>4. \A k \in ModeKeys : Spoken(s, k) \in ModeChoices
  BY ModesOfFacts DEF ModeLayers
<1>5. Built(s)["paper"] = Or(s.modes["paper"], Yaml)
  BY <1>2, <1>3, KeyFacts DEF Spoken, Or
<1> QED
  BY <1>2, <1>3, <1>4, <1>5, OrFacts, KeyFacts

\* The configuration in force is the overrides over the one built at the start; a sleeve without a word follows the
\* strategy.
LEMMA EffectiveFacts ==
  ASSUME NEW s \in ModeStores, NEW c \in ModeLayers, c["paper"] \in Modes
  PROVE  /\ Effective(s, c) \in ModeLayers /\ Effective(s, c)["paper"] = Or(Loaded(s)["paper"], c["paper"])
         /\ Effective(s, c)["paper"] \in Modes
         /\ Is("sleeves") => \A k \in Subs : Effective(s, c)[k] = Or(Or(Loaded(s)[k], c[k]), Effective(s, c)["paper"])
<1> DEFINE f == Fill(Loaded(s), c)
           g == [k \in ModeKeys |-> f["paper"]]
<1>1. f \in ModeLayers /\ \A k \in ModeKeys : f[k] = Or(Loaded(s)[k], c[k])
  BY LoadedFacts, FillFacts
<1>2. f["paper"] \in Modes
  BY <1>1, LoadedFacts, OrFacts, KeyFacts DEF ModeLayers
<1>3. g \in ModeLayers /\ \A k \in ModeKeys : g[k] = f["paper"]
  BY <1>2 DEF ModeLayers, ModeChoices
<1>4. Fill(f, g) \in ModeLayers /\ \A k \in ModeKeys : Fill(f, g)[k] = Or(f[k], f["paper"])
  BY <1>1, <1>3, FillFacts
<1>5. Effective(s, c) = IF Is("sleeves") THEN Fill(f, g) ELSE f
  BY DEF Effective
<1>6. Or(f["paper"], f["paper"]) = f["paper"]
  BY DEF Or
<1> QED
  BY <1>1, <1>2, <1>4, <1>5, <1>6, KeyFacts

\* Where the stores agree with the operator's word, the configuration in force says it.
LEMMA EffectiveIsWord ==
  ASSUME mscene \in ModeScenes, Threaded, NEW s \in ModeStores, NEW w \in [ModeKeys -> Modes],
         ModeStoresAgree(s, w), Within(s.today, w), NEW c \in ModeLayers, c["paper"] \in Modes,
         c = Built(s) \/ \A j \in Traded : s.kept[j] = "unset" => c[j] = w[j], NEW k \in Traded
  PROVE  ModeIn(Effective(s, c), k) = w[k] /\ Effective(s, c)[k] = w[k]
<1>3. Loaded(s)[k] \in {"unset", w[k]} /\ w[k] \in Modes /\ k \in ModeKeys
  BY LoadedWithin, KeyFacts DEF Within
<1>4. Loaded(s)[k] = "unset" => s.kept[k] = "unset" /\ Spoken(s, k) = "unset" /\ s.today[k] = "unset"
  BY <1>3, LoadedFacts DEF Or
<1>5. c # Built(s) => (Loaded(s)[k] = "unset" => c[k] = w[k])
  BY <1>4
<1>6. ~Is("meic") /\ c = Built(s) /\ k \notin Subs => (Loaded(s)[k] = "unset" => c[k] = w[k])
  <2> SUFFICES ASSUME ~Is("meic"), c = Built(s), k \notin Subs, Loaded(s)[k] = "unset" PROVE c[k] = w[k]
    OBVIOUS
  <2>1. k = "paper" /\ ~Is("sleeves")
    BY <1>3, KeyFacts
  <2>2. s.modes["paper"] = "unset"
    BY <1>4, <2>1 DEF Spoken
  <2> QED
    BY <2>1, <2>2, BuiltFacts DEF ModeStoresAgree, Fallback, Or
<1>9. CASE Is("fade")
  <2>1. k = "paper" /\ k \notin Subs /\ ~Is("meic") /\ ~Is("manual")
    BY <1>9, OneStrategy, KeyFacts DEF Threaded
  <2>2. Effective(s, c)["paper"] = Or(Loaded(s)["paper"], c["paper"])
    BY EffectiveFacts
  <2>3. Effective(s, c)["paper"] = w["paper"]
    BY <1>3, <1>5, <1>6, <2>1, <2>2 DEF Or
  <2> QED
    BY <2>1, <2>3 DEF ModeIn, Or
<1>10. CASE Is("sleeves")
  <2>1. k \in Subs /\ ~Is("meic") /\ ~Is("manual")
    BY <1>10, OneStrategy, KeyFacts DEF Threaded
  <2>2. /\ Effective(s, c)[k] = Or(Or(Loaded(s)[k], c[k]), Effective(s, c)["paper"])
        /\ Effective(s, c)["paper"] = Or(Loaded(s)["paper"], c["paper"])
        /\ Effective(s, c)["paper"] \in Modes
    BY <1>10, <2>1, EffectiveFacts
  <2>3. Effective(s, c)[k] = w[k]
    <3>1. CASE Loaded(s)[k] # "unset" \/ c # Built(s)
      BY <1>3, <1>5, <2>2, <3>1 DEF Or, Modes
    <3>2. CASE Loaded(s)[k] = "unset" /\ c = Built(s)
      <4>1. c[k] = "unset"
        BY <1>4, <2>1, <3>2, BuiltFacts
      <4>2. s.modes[k] = "unset" /\ s.modes["paper"] = "unset"
        BY <1>4, <1>10, <3>2 DEF Spoken, Or
      <4>3. c["paper"] = "paper" /\ w[k] = w["paper"]
        BY <1>10, <2>1, <3>2, <4>2, OneStrategy, BuiltFacts DEF Or, ModeStoresAgree, Fallback, Yaml, Threaded
      <4>4. Loaded(s)["paper"] \in {"unset", w["paper"]} /\ w["paper"] \in Modes
        BY LoadedWithin, KeyFacts DEF Within
      <4>5. Loaded(s)["paper"] = "unset" => w["paper"] = "paper"
        <5>1. SUFFICES ASSUME Loaded(s)["paper"] = "unset" PROVE s.kept["paper"] = "unset"
          BY <1>10, <2>1 DEF ModeStoresAgree, Yaml
        <5> QED
          BY <5>1, LoadedFacts, KeyFacts DEF Or
      <4> QED
        BY <2>2, <3>2, <4>1, <4>3, <4>4, <4>5 DEF Or, Modes
    <3> QED
      BY <3>1, <3>2
  <2> QED
    BY <1>3, <2>1, <2>3 DEF ModeIn, Or, Modes
<1> QED
  BY <1>9, <1>10 DEF Threaded

\* The next trade of a process that read the stores takes the operator's word.
LEMMA NextIsWord ==
  ASSUME ModeInv, ModeAgreement, ~torn, ~bot.old, NEW k \in Traded
  PROVE  NextMode(k) = word[k]
<1> DEFINE c == IF bot.alive THEN bot.cfg ELSE Built(store)
<1>1. /\ store \in ModeStores /\ word \in [ModeKeys -> Modes] /\ mscene \in ModeScenes /\ bot.cfg \in ModeLayers
      /\ Within(store.today, word) /\ ModeStoresAgree(store, word)
  BY DEF ModeInv, ModeTypeOK, ModeBots, ModeAgreement
<1>2. c \in ModeLayers /\ c["paper"] \in Modes
  BY <1>1, BuiltFacts DEF ModeInv, ModeTradesKnown
<1>3. c = Built(store) \/ \A j \in Traded : store.kept[j] = "unset" => c[j] = word[j]
  BY DEF ModeAgreement
<1>4. CASE Is("meic")
  <2>1. k = "paper"
    BY <1>1, <1>4, OneStrategy, KeyFacts DEF Threaded
  <2>2. NextMode(k) = store.settings
    BY <1>1, <1>4, OneStrategy DEF NextMode
  <2> QED
    BY <1>1, <1>4, <2>1, <2>2 DEF ModeStoresAgree
<1>5. CASE Is("manual")
  BY <1>1, <1>5, OneStrategy, ShownIsWord DEF NextMode
<1>6. CASE Threaded
  <2>1. NextMode(k) = ModeIn(Effective(store, c), k)
    BY <1>1, <1>6, OneStrategy DEF NextMode
  <2> HIDE DEF c
  <2> QED
    BY <1>1, <1>2, <1>3, <1>6, <2>1, EffectiveIsWord
<1> QED
  BY <1>1, <1>4, <1>5, <1>6, OneStrategy

\* Writing: what a choice does to each store...
LEMMA SameFacts ==
  ASSUME mscene \in ModeScenes, NEW k \in Traded \cup {"paper"}
  PROVE  /\ k \in ModeKeys /\ k \in Same(k) /\ Same(k) \subseteq ModeKeys
         /\ Is("sleeves") /\ "paper" \in Same(k) => Same(k) = ModeKeys /\ k = "paper"
         /\ Is("sleeves") /\ k # "paper" => k \in Subs
         /\ ~Is("sleeves") => k = "paper" /\ Same(k) = {"paper"} /\ Same(k) = KeysUsed
         /\ k # "paper" => Is("sleeves") /\ Same(k) = {k}
BY KeyFacts DEF Same

\* What one `set mode` leaves in each store.
LEMMA SetModeFacts ==
  ASSUME mscene \in ModeScenes, NEW s \in ModeStores, NEW k \in Traded \cup {"paper"}, NEW v \in Modes
  PROVE  LET t == SetMode(s, k, v) IN
         /\ t \in ModeStores /\ t.kept = s.kept /\ t.settings = IF Is("meic") THEN v ELSE s.settings
         /\ \A j \in ModeKeys : t.modes[j] = IF j \in Same(k) THEN v ELSE s.modes[j]
         /\ \A j \in ModeKeys : t.today[j] = IF j \in Same(k) THEN v ELSE Or(s.modes[j], Loaded(s)[j])
<1> DEFINE m == [j \in ModeKeys |-> IF j \in Same(k) THEN v ELSE s.modes[j]]
           n == IF Is("meic") THEN v ELSE s.settings
           t == [s EXCEPT !.modes = m, !.settings = n]
<1>1. s.today \in ModeLayers /\ s.kept \in ModeLayers /\ s.modes \in ModeLayers /\ s.settings \in Modes
  BY DEF ModeStores
<1>2. m \in ModeLayers /\ n \in Modes /\ \A j \in ModeKeys : m[j] = IF j \in Same(k) THEN v ELSE s.modes[j]
  BY <1>1 DEF ModeLayers, ModeChoices
<1>3. SetMode(s, k, v) = [t EXCEPT !.today = Fill(m, Loaded(t))]
  BY DEF SetMode
<1> HIDE DEF m, n
<1>4. t \in ModeStores /\ t.today = s.today /\ t.kept = s.kept /\ t.modes = m /\ t.settings = n
  BY <1>1, <1>2 DEF ModeStores
<1> HIDE DEF t
<1>5. Loaded(t) \in ModeLayers /\ \A j \in ModeKeys \ Same(k) : Loaded(t)[j] = Loaded(s)[j]
  <2>1. \A j \in ModeKeys \ Same(k) : Spoken(t, j) = Spoken(s, j)
    BY <1>2, <1>4, SameFacts, KeyFacts DEF Spoken
  <2> QED
    BY <1>4, <2>1, LoadedFacts
<1>6. /\ Fill(m, Loaded(t)) \in ModeLayers
      /\ \A j \in ModeKeys : Fill(m, Loaded(t))[j] = Or(m[j], Loaded(t)[j])
  BY <1>2, <1>5, FillFacts
<1> DEFINE f == Fill(m, Loaded(t))
           r == [t EXCEPT !.today = f]
<1>7. r \in ModeStores /\ r.today = f /\ r.kept = s.kept /\ r.modes = m /\ r.settings = n
  <2> HIDE DEF f
  <2> QED
    BY <1>4, <1>6 DEF f, ModeStores
<1>8. \A j \in ModeKeys : Or(m[j], Loaded(t)[j]) = IF j \in Same(k) THEN v ELSE Or(s.modes[j], Loaded(s)[j])
  BY <1>2, <1>5, OrFacts
<1>9. SetMode(s, k, v) = r
  BY <1>3
<1> HIDE DEF f, r
<1> QED
  BY <1>2, <1>6, <1>7, <1>8, <1>9 DEF n, f

\* What one save of the overrides leaves in each store.
LEMMA SetOverridesFacts ==
  ASSUME mscene \in ModeScenes, NEW s \in ModeStores, NEW k \in Traded \cup {"paper"}, NEW v \in Modes
  PROVE  LET t == SetOverrides(s, k, v) IN
         /\ t \in ModeStores /\ t.settings = IF Is("meic") THEN v ELSE s.settings
         /\ \A j \in ModeKeys : t.kept[j] = IF j \in Same(k) THEN v ELSE s.kept[j]
         /\ \A j \in ModeKeys : t.modes[j] = IF j \in Same(k) THEN v ELSE s.modes[j]
         /\ \A j \in ModeKeys : t.today[j] =
              IF j \in Same(k) THEN v ELSE Or(s.modes[j], Or(Loaded(s)[j], Or(Spoken(s, j), s.kept[j])))
<1> DEFINE u == [j \in ModeKeys |-> IF j \in Same(k) THEN v ELSE "unset"]
           f == Fill(u, Loaded(s))
           g == Fill(u, s.kept)
           r == [s EXCEPT !.today = f, !.kept = g]
<1>1. s.today \in ModeLayers /\ s.kept \in ModeLayers /\ s.modes \in ModeLayers /\ s.settings \in Modes
  BY DEF ModeStores
<1>2. u \in ModeLayers /\ \A j \in ModeKeys : u[j] = IF j \in Same(k) THEN v ELSE "unset"
  BY DEF ModeLayers, ModeChoices
<1> HIDE DEF u
<1>3. f \in ModeLayers /\ \A j \in ModeKeys : f[j] = IF j \in Same(k) THEN v ELSE Loaded(s)[j]
  BY <1>2, LoadedFacts, FillFacts, OrFacts
<1>4. g \in ModeLayers /\ \A j \in ModeKeys : g[j] = IF j \in Same(k) THEN v ELSE s.kept[j]
  BY <1>1, <1>2, FillFacts, OrFacts
<1>5. SetOverrides(s, k, v) = SetMode(r, k, v)
  BY DEF SetOverrides, u
<1> HIDE DEF f, g
<1>7. r \in ModeStores /\ r.today = f /\ r.kept = g /\ r.modes = s.modes /\ r.settings = s.settings
  BY <1>1, <1>3, <1>4 DEF ModeStores
<1> HIDE DEF r
<1>8. \A j \in ModeKeys \ Same(k) : Loaded(r)[j] = Or(Loaded(s)[j], Or(Spoken(s, j), s.kept[j]))
  BY <1>3, <1>4, <1>7, LoadedFacts DEF Spoken
<1> QED
  BY <1>4, <1>5, <1>7, <1>8, SetModeFacts

\* ...and the stores still agree with the word.
LEMMA SpokenWithin ==
  ASSUME NEW s \in ModeStores, NEW w \in [ModeKeys -> Modes], ModeStoresAgree(s, w), NEW k \in KeysUsed
  PROVE  Spoken(s, k) \in {"unset", w[k]}
<1>1. k \in ModeKeys /\ s.modes[k] \in {"unset", w[k]} /\ s.modes["paper"] \in {"unset", w["paper"]}
  BY KeyFacts DEF ModeStoresAgree, Within
<1>2. CASE Is("sleeves") /\ k \in Subs
  BY <1>1, <1>2, KeyFacts DEF Spoken, ModeStoresAgree, Fallback, Or
<1>3. CASE ~Is("sleeves") \/ k = "paper"
  BY <1>1, <1>3 DEF Spoken, Or
<1> QED
  BY <1>1, <1>2, <1>3, KeyFacts

\* The dashboard's two writes leave the stores in agreement with the new word.
LEMMA ControlKeeps ==
  ASSUME mscene \in ModeScenes, NEW s \in ModeStores, NEW w \in [ModeKeys -> Modes],
         NEW k \in Traded \cup {"paper"}, NEW v \in Modes,
         NEW t, t = SetMode(SetOverrides(s, k, v), k, v),
         NEW x \in [ModeKeys -> Modes], \A j \in ModeKeys : x[j] = IF j \in Same(k) THEN v ELSE w[j]
  PROVE  /\ t \in ModeStores
         /\ \A j \in ModeKeys : t.kept[j] = IF j \in Same(k) THEN v ELSE s.kept[j]
         /\ ModeStoresAgree(s, w) => ModeStoresAgree(t, x)
         /\ ModeStoresAgree(s, w) /\ (Within(s.today, w) \/ ~Is("sleeves")) => Within(t.today, x)
<1> DEFINE r == SetOverrides(s, k, v)
<1>0. t = SetMode(r, k, v)
  OBVIOUS
<1>1. /\ r \in ModeStores /\ r.settings = IF Is("meic") THEN v ELSE s.settings
      /\ \A j \in ModeKeys : r.kept[j] = IF j \in Same(k) THEN v ELSE s.kept[j]
      /\ \A j \in ModeKeys : r.modes[j] = IF j \in Same(k) THEN v ELSE s.modes[j]
      /\ \A j \in ModeKeys : r.today[j] =
              IF j \in Same(k) THEN v ELSE Or(s.modes[j], Or(Loaded(s)[j], Or(Spoken(s, j), s.kept[j])))
  BY SetOverridesFacts
<1> HIDE DEF r
<1>2. /\ t \in ModeStores /\ t.kept = r.kept /\ t.settings = IF Is("meic") THEN v ELSE r.settings
      /\ \A j \in ModeKeys : t.modes[j] = IF j \in Same(k) THEN v ELSE r.modes[j]
      /\ \A j \in ModeKeys : t.today[j] = IF j \in Same(k) THEN v ELSE Or(r.modes[j], Loaded(r)[j])
  BY <1>0, <1>1, SetModeFacts
<1>3. x \in [ModeKeys -> Modes] /\ \A j \in ModeKeys : x[j] = IF j \in Same(k) THEN v ELSE w[j]
  OBVIOUS
<1>4. /\ \A j \in ModeKeys : t.kept[j] = IF j \in Same(k) THEN v ELSE s.kept[j]
      /\ \A j \in ModeKeys : t.modes[j] = IF j \in Same(k) THEN v ELSE s.modes[j]
  BY <1>1, <1>2
<1>5. ASSUME ModeStoresAgree(s, w) PROVE ModeStoresAgree(t, x)
  <2>1. Is("meic") => t.settings = x["paper"]
    BY <1>2, <1>3, KeyFacts, SameFacts, OneStrategy DEF Threaded
  <2>2. Within(t.kept, x) /\ Within(t.modes, x)
    BY <1>3, <1>4, <1>5, KeyFacts DEF ModeStoresAgree, Within
  <2>3. \A j \in Traded : t.modes[j] = "unset" <=> t.kept[j] = "unset"
    <3>1. v # "unset"
      BY DEF Modes
    <3> QED
      BY <1>4, <1>5, <3>1, KeyFacts DEF ModeStoresAgree
  <2>4. ASSUME NEW j \in Traded, t.modes[j] = "unset" PROVE x[j] = Fallback(t, x, j)
    <3>1. j \notin Same(k) /\ j \in ModeKeys /\ s.modes[j] = "unset"
      BY <1>4, <2>4, KeyFacts DEF Modes
    <3>2. Is("sleeves") /\ j \in Subs /\ "paper" \notin Same(k)
      BY <3>1, SameFacts, KeyFacts
    <3> QED
      BY <1>3, <1>5, <3>1, <3>2, KeyFacts DEF ModeStoresAgree, Fallback
  <2>5. Is("sleeves") /\ t.kept["paper"] = "unset" => x["paper"] = Yaml
    BY <1>3, <1>4, <1>5, KeyFacts DEF ModeStoresAgree
  <2> QED
    BY <2>1, <2>2, <2>3, <2>4, <2>5 DEF ModeStoresAgree
<1>6. ASSUME ModeStoresAgree(s, w), Within(s.today, w) \/ ~Is("sleeves") PROVE Within(t.today, x)
  <2> SUFFICES ASSUME NEW j \in KeysUsed PROVE t.today[j] \in {"unset", x[j]}
    BY DEF Within
  <2>1. j \in ModeKeys
    BY KeyFacts
  <2>2. CASE j \in Same(k)
    BY <1>2, <1>3, <2>1, <2>2
  <2>3. CASE j \notin Same(k)
    <3>1. Is("sleeves") /\ Within(s.today, w) /\ "paper" \notin Same(k)
      BY <1>6, <2>3, SameFacts, KeyFacts
    <3>2. {s.modes[j], s.kept[j], Loaded(s)[j], Spoken(s, j)} \subseteq {"unset", w[j]}
      BY <1>6, <3>1, LoadedWithin, SpokenWithin DEF ModeStoresAgree, Within
    <3>3. Spoken(r, j) = Spoken(s, j) /\ r.kept[j] = s.kept[j] /\ r.modes[j] = s.modes[j]
      BY <1>1, <2>1, <2>3, <3>1, KeyFacts DEF Spoken
    <3>4. r.today[j] \in {"unset", w[j]}
      BY <1>1, <2>1, <2>3, <3>2 DEF Or
    <3>5. Loaded(r)[j] = Or(r.today[j], Or(Spoken(r, j), r.kept[j]))
      BY <1>1, <2>1, LoadedFacts
    <3>6. Loaded(r)[j] \in {"unset", w[j]}
      BY <3>2, <3>3, <3>4, <3>5 DEF Or
    <3> QED
      BY <1>2, <1>3, <2>1, <2>3, <3>2, <3>3, <3>6 DEF Or
  <2> QED
    BY <2>2, <2>3
<1> QED
  BY <1>2, <1>4, <1>5, <1>6

\* Removing a key from a layer leaves it unset and the sleeves' other keys as they were.
LEMMA WithoutFacts ==
  ASSUME mscene \in ModeScenes, NEW f \in ModeLayers, NEW k \in Traded \cup {"paper"}
  PROVE  /\ Without(f, k) \in ModeLayers /\ Without(f, k)[k] = "unset"
         /\ \A j \in ModeKeys : Without(f, k)[j] \in {"unset", f[j]}
         /\ Is("sleeves") => \A j \in Subs \ Same(k) : Without(f, k)[j] = f[j]
<1> DEFINE g == [j \in ModeKeys |-> IF j \in Same(k) THEN "unset" ELSE f[j]]
<1>1. /\ g \in ModeLayers
      /\ \A j \in ModeKeys : g[j] = IF j \in Same(k) THEN "unset" ELSE f[j]
  BY DEF ModeLayers, ModeChoices
<1>2. Without(f, k) = IF Is("sleeves") /\ \A j \in Subs : g[j] = "unset" THEN Nothing ELSE g
  BY DEF Without
<1>3. \A j \in ModeKeys : Nothing[j] = "unset"
  BY DEF Nothing
<1> HIDE DEF g
<1> QED
  BY <1>1, <1>2, <1>3, SameFacts, KeyFacts, NothingIsLayer

\* Deleting an override leaves the stores in agreement with the word it falls back to.
LEMMA DeleteKeeps ==
  ASSUME mscene \in ModeScenes, NEW s \in ModeStores, NEW w \in [ModeKeys -> Modes],
         NEW k \in Traded \cup {"paper"}
  PROVE  LET t == DeleteOverride(s, k)
             x == [j \in ModeKeys |->
                     IF j \notin Same(k) THEN w[j]
                     ELSE IF k \in Subs THEN w["paper"]
                     ELSE IF Is("meic") THEN s.settings ELSE Yaml]
         IN  /\ t \in ModeStores /\ x \in [ModeKeys -> Modes]
             /\ (Is("sleeves") => k # "paper") /\ ModeStoresAgree(s, w) => ModeStoresAgree(t, x)
             /\ (Is("sleeves") => k # "paper" /\ Within(s.today, w)) /\ ModeStoresAgree(s, w) => Within(t.today, x)
<1> DEFINE a == Without(Loaded(s), k)
           b == [s.kept EXCEPT ![k] = "unset"]
           c == Without(s.modes, k)
           t == DeleteOverride(s, k)
           x == [j \in ModeKeys |->
                     IF j \notin Same(k) THEN w[j]
                     ELSE IF k \in Subs THEN w["paper"]
                     ELSE IF Is("meic") THEN s.settings ELSE Yaml]
<1>1. s.today \in ModeLayers /\ s.kept \in ModeLayers /\ s.modes \in ModeLayers /\ s.settings \in Modes
  BY DEF ModeStores
<1>2. /\ a \in ModeLayers /\ a[k] = "unset" /\ \A j \in ModeKeys : a[j] \in {"unset", Loaded(s)[j]}
  BY LoadedFacts, WithoutFacts
<1>3. /\ c \in ModeLayers /\ c[k] = "unset" /\ \A j \in ModeKeys : c[j] \in {"unset", s.modes[j]}
      /\ Is("sleeves") => \A j \in Subs \ Same(k) : c[j] = s.modes[j]
  BY <1>1, WithoutFacts
<1>4. /\ b \in ModeLayers /\ \A j \in ModeKeys : b[j] = IF j = k THEN "unset" ELSE s.kept[j]
  BY <1>1, SameFacts DEF ModeLayers, ModeChoices
<1>6. /\ x \in [ModeKeys -> Modes]
      /\ \A j \in ModeKeys : x[j] = IF j \notin Same(k) THEN w[j]
                     ELSE IF k \in Subs THEN w["paper"]
                     ELSE IF Is("meic") THEN s.settings ELSE Yaml
  BY <1>1, KeyFacts
<1> HIDE DEF a, b, c, t, x
<1>7. t \in ModeStores /\ t.today = a /\ t.kept = b /\ t.modes = c /\ t.settings = s.settings
  <2>1. t = [s EXCEPT !.today = a, !.kept = b, !.modes = c]
    BY DEF DeleteOverride, t, a, b, c
  <2> QED
    BY <1>2, <1>3, <1>4, <2>1 DEF ModeStores
<1>8. k \in ModeKeys /\ (~Is("sleeves") => k = "paper" /\ KeysUsed = {"paper"} /\ k \notin Subs)
      /\ (Is("sleeves") /\ k # "paper" => Same(k) = {k} /\ k \in Subs)
  BY SameFacts, KeyFacts
<1>9. ASSUME Is("sleeves") => k # "paper", ModeStoresAgree(s, w) PROVE ModeStoresAgree(t, x)
  <2>1. CASE Is("sleeves")
    <3>1. Is("meic") => t.settings = x["paper"]
      BY <2>1, OneStrategy DEF Threaded
    <3>2. x["paper"] = w["paper"] /\ x[k] = w["paper"] /\ \A j \in ModeKeys \ {k} : x[j] = w[j]
      BY <1>6, <1>8, <1>9, <2>1, KeyFacts
    <3>3. Within(t.kept, x) /\ Within(t.modes, x)
      BY <1>3, <1>4, <1>7, <1>9, <3>2, KeyFacts DEF ModeStoresAgree, Within
    <3>4. \A j \in Traded : t.modes[j] = "unset" <=> t.kept[j] = "unset"
      BY <1>3, <1>4, <1>7, <1>8, <1>9, <2>1, KeyFacts DEF ModeStoresAgree
    <3>5. \A j \in Traded : t.modes[j] = "unset" => x[j] = Fallback(t, x, j)
      BY <1>3, <1>7, <1>8, <1>9, <2>1, <3>2, KeyFacts DEF ModeStoresAgree, Fallback
    <3>6. t.kept["paper"] = "unset" => x["paper"] = Yaml
      BY <1>4, <1>7, <1>9, <2>1, <3>2, KeyFacts DEF ModeStoresAgree
    <3> QED
      BY <3>1, <3>3, <3>4, <3>5, <3>6 DEF ModeStoresAgree
  <2>2. CASE ~Is("sleeves")
    <3>1. x["paper"] = (IF Is("meic") THEN s.settings ELSE Yaml)
      BY <1>6, <1>8, <2>2, SameFacts, KeyFacts
    <3>2. t.modes["paper"] = "unset" /\ t.kept["paper"] = "unset"
      BY <1>3, <1>4, <1>7, <1>8, <2>2
    <3> QED
      BY <1>7, <1>8, <2>2, <3>1, <3>2, KeyFacts DEF ModeStoresAgree, Within, Fallback
  <2> QED
    BY <2>1, <2>2
<1>10. ASSUME Is("sleeves") => k # "paper" /\ Within(s.today, w), ModeStoresAgree(s, w) PROVE Within(t.today, x)
  <2> SUFFICES ASSUME NEW j \in KeysUsed PROVE t.today[j] \in {"unset", x[j]}
    BY DEF Within
  <2>1. CASE j = k
    BY <1>2, <1>7, <2>1
  <2>2. CASE j # k
    <3>1. Is("sleeves") /\ x[j] = w[j]
      BY <1>6, <1>8, <1>10, <2>2, KeyFacts
    <3>2. Loaded(s)[j] \in {"unset", w[j]}
      BY <1>10, <3>1, LoadedWithin DEF Within
    <3> QED
      BY <1>2, <1>7, <3>1, <3>2, KeyFacts
  <2> QED
    BY <2>1, <2>2
<1> QED
  BY <1>6, <1>7, <1>9, <1>10 DEF t, x

\* Within a run the strategy stays the same, and with it the keys in use.
LEMMA SceneStays ==
  ASSUME mscene' = mscene
  PROVE  /\ Is("meic")' = Is("meic") /\ Is("manual")' = Is("manual") /\ Is("fade")' = Is("fade")
         /\ Is("sleeves")' = Is("sleeves") /\ Threaded' = Threaded /\ Is("panel")' = Is("panel") /\ Is("drop")' = Is("drop")
         /\ ModeStoresAgree(store, word)' = ModeStoresAgree(store', word')
         /\ Within(store.today, word)' = Within(store'.today, word')
         /\ Traded' = Traded
BY DEF Is, Threaded, ModeStoresAgree, Within, KeysUsed, Traded, Fallback, Yaml

\* The dashboard always shows a mode.
LEMMA ShownIsMode ==
  ASSUME mscene \in ModeScenes, NEW s \in ModeStores, NEW k \in ModeKeys
  PROVE  Shown(s, k) \in Modes
<1> DEFINE mine == Loaded(s)[k]
           whole == IF k \in Subs THEN Loaded(s)["paper"] ELSE "unset"
           config == IF Is("meic") THEN s.settings ELSE Yaml
           p == Persisted(s.modes, k)
<1>1. s.modes \in ModeLayers /\ s.settings \in Modes
  BY DEF ModeStores
<1>2. mine \in ModeChoices /\ whole \in ModeChoices /\ config \in Modes
  BY <1>1, LoadedFacts, KeyFacts DEF ModeLayers, ModeChoices
<1>3. p \in ModeChoices
  BY <1>1, KeyFacts DEF Persisted, ModeLayers, ModeChoices
<1>4. Shown(s, k) = Or(mine, Or(whole, Or(p, config)))
  BY DEF Shown
<1> HIDE DEF mine, whole, config, p
<1> QED
  BY <1>2, <1>3, <1>4, OrFacts

\* Every step of the modes' processes keeps the invariant.
LEMMA ModeStep ==
  ASSUME ModeInv, ModeNext
  PROVE  ModeInv'
<1> DEFINE Plain == ~Is("panel") /\ ~Is("drop")
<1>1. mscene' = mscene /\ mscene \in ModeScenes
  BY DEF ModeInv, ModeTypeOK, ModeNext, SetControl, DeleteControl, SleeveEnter, PostSettings, Rearm, NewDay,
     StartBot, StopBot,
         Refresh, SaveSession, Peek, Put, MeicEnter, Stamp, ManualEnter, FadeEnter, Filled, MonitorClose, DeskClose,
         ThreadClose, OfStore, OfBot, OfTrade, Opened, Closed
<1>2. /\ store \in ModeStores /\ word \in [ModeKeys -> Modes] /\ bot \in ModeBots /\ pos \in ModeTrades
      /\ last \in ModeCloses /\ draft \in Seq(ModeLayers) /\ torn \in BOOLEAN
      /\ store.today \in ModeLayers /\ store.settings \in Modes /\ bot.cfg \in ModeLayers /\ bot.alive \in BOOLEAN
      /\ bot.on \in BOOLEAN /\ bot.old \in BOOLEAN /\ bot.via \in ModeChoices
  BY DEF ModeInv, ModeTypeOK, ModeStores, ModeBots
<1> SUFFICES ModeTypeOK' /\ ModeTradesKnown' /\ ClosesWhereItLies' /\ (Plain => ModeAgreement')
  BY <1>1, SceneStays DEF ModeInv
<1> HIDE DEF Plain
<1>3. ASSUME NEW k \in ModeKeys, NEW v \in Modes, SetControl(k, v) PROVE ModeTypeOK' /\ ModeTradesKnown' /\ ClosesWhereItLies' /\ (Plain => ModeAgreement')
  <2>0. /\ k \in Traded \cup {"paper"} /\ store' = SetMode(SetOverrides(store, k, v), k, v)
        /\ word' = [j \in ModeKeys |-> IF j \in Same(k) THEN v ELSE word[j]] /\ torn' = (torn /\ k # "paper")
        /\ bot' = bot /\ pos' = pos /\ last' = last /\ draft' = draft
    BY <1>3 DEF SetControl, OfStore
  <2>a. /\ store' \in ModeStores /\ word' \in [ModeKeys -> Modes]
        /\ \A j \in ModeKeys : store'.kept[j] = IF j \in Same(k) THEN v ELSE store.kept[j]
        /\ ModeStoresAgree(store, word) => ModeStoresAgree(store', word')
        /\ ModeStoresAgree(store, word) /\ (Within(store.today, word) \/ ~Is("sleeves")) => Within(store'.today, word')
    <3> DEFINE t == SetMode(SetOverrides(store, k, v), k, v)
               x == [j \in ModeKeys |-> IF j \in Same(k) THEN v ELSE word[j]]
    <3>1. x \in [ModeKeys -> Modes] /\ \A j \in ModeKeys : x[j] = IF j \in Same(k) THEN v ELSE word[j]
      BY <1>2
    <3>2. store' = t /\ word' = x
      BY <2>0
    <3>3. t = SetMode(SetOverrides(store, k, v), k, v) /\ k \in Traded \cup {"paper"}
      BY <2>0
    <3> HIDE DEF t, x
    <3>4. /\ t \in ModeStores
          /\ \A j \in ModeKeys : t.kept[j] = IF j \in Same(k) THEN v ELSE store.kept[j]
          /\ ModeStoresAgree(store, word) => ModeStoresAgree(t, x)
          /\ ModeStoresAgree(store, word) /\ (Within(store.today, word) \/ ~Is("sleeves")) => Within(t.today, x)
      <4>1. mscene \in ModeScenes /\ store \in ModeStores /\ word \in [ModeKeys -> Modes] /\ v \in Modes
        BY <1>1, <1>2
      <4>2. t \in ModeStores
        BY <3>1, <3>3, <4>1, ControlKeeps
      <4>3. \A j \in ModeKeys : t.kept[j] = IF j \in Same(k) THEN v ELSE store.kept[j]
        BY <3>1, <3>3, <4>1, ControlKeeps
      <4>4. ModeStoresAgree(store, word) => ModeStoresAgree(t, x)
        BY <3>1, <3>3, <4>1, ControlKeeps
      <4>5. ModeStoresAgree(store, word) /\ (Within(store.today, word) \/ ~Is("sleeves")) => Within(t.today, x)
        BY <3>1, <3>3, <4>1, ControlKeeps
      <4> QED
        BY <4>2, <4>3, <4>4, <4>5
    <3> QED
      BY <3>1, <3>2, <3>4
  <2>1. ModeTypeOK'
    BY <1>1, <1>2, <2>0, <2>a DEF ModeTypeOK
  <2>2. ModeTradesKnown'
    BY <1>1, <1>3, <2>0, SceneStays DEF ModeInv, ModeTradesKnown
  <2>3. ClosesWhereItLies'
    BY <1>1, <1>3, <2>0, SceneStays DEF ModeInv, ClosesWhereItLies
  <2>4. ASSUME Plain PROVE ModeAgreement'
    <3>1. ModeAgreement
      BY <2>4 DEF Plain, ModeInv
    <3>2. torn => ~Is("sleeves")
      BY <1>1, <3>1, OneStrategy DEF ModeAgreement
    <3>3. ~torn' => Within(store'.today, word')
      BY <1>2, <2>0, <2>a, <3>1, <3>2 DEF ModeAgreement
    <3>4. \A j \in Traded : store'.kept[j] = "unset" => store.kept[j] = "unset" /\ word'[j] = word[j]
      BY <2>0, <2>a, KeyFacts DEF Modes
    <3> QED
      BY <1>1, <2>0, <2>a, <3>1, <3>3, <3>4, SceneStays DEF ModeAgreement
  <2> QED
    BY <2>1, <2>2, <2>3, <2>4
<1>4. ASSUME NEW k \in ModeKeys, DeleteControl(k) PROVE ModeTypeOK' /\ ModeTradesKnown' /\ ClosesWhereItLies' /\ (Plain => ModeAgreement')
  <2>0. /\ k \in Traded \cup {"paper"} /\ (Is("sleeves") /\ k = "paper" => Is("drop")) /\ store' = DeleteOverride(store, k)
        /\ word' = [j \in ModeKeys |->
                     IF j \notin Same(k) THEN word[j]
                     ELSE IF k \in Subs THEN word["paper"]
                     ELSE IF Is("meic") THEN store.settings ELSE Yaml]
        /\ bot' = [bot EXCEPT !.old = bot.old \/ bot.alive] /\ pos' = pos /\ last' = last /\ draft' = draft /\ torn' = torn
    BY <1>4 DEF DeleteControl
  <2>a. /\ store' \in ModeStores /\ word' \in [ModeKeys -> Modes]
        /\ (Is("sleeves") => k # "paper") /\ ModeStoresAgree(store, word) => ModeStoresAgree(store', word')
        /\ (Is("sleeves") => k # "paper" /\ Within(store.today, word)) /\ ModeStoresAgree(store, word)
              => Within(store'.today, word')
    <3> DEFINE t == DeleteOverride(store, k)
               x == [j \in ModeKeys |->
                     IF j \notin Same(k) THEN word[j]
                     ELSE IF k \in Subs THEN word["paper"]
                     ELSE IF Is("meic") THEN store.settings ELSE Yaml]
    <3>1. /\ t \in ModeStores /\ x \in [ModeKeys -> Modes]
          /\ (Is("sleeves") => k # "paper") /\ ModeStoresAgree(store, word) => ModeStoresAgree(t, x)
          /\ (Is("sleeves") => k # "paper" /\ Within(store.today, word)) /\ ModeStoresAgree(store, word)
                => Within(t.today, x)
      BY <1>1, <1>2, <2>0, DeleteKeeps, Zenon
    <3>2. store' = t /\ word' = x
      BY <2>0
    <3> HIDE DEF t, x
    <3> QED
      BY <3>1, <3>2
  <2>b. /\ bot' \in ModeBots /\ bot'.alive = bot.alive /\ bot'.on = bot.on /\ bot'.cfg = bot.cfg /\ bot'.via = bot.via
        /\ bot'.old = (bot.old \/ bot.alive)
    BY <1>2, <2>0 DEF ModeBots
  <2>1. ModeTypeOK'
    BY <1>1, <1>2, <2>0, <2>a, <2>b DEF ModeTypeOK
  <2>2. ModeTradesKnown'
    BY <1>1, <2>0, <2>b, SceneStays DEF ModeInv, ModeTradesKnown
  <2>3. ClosesWhereItLies'
    BY <1>1, <2>0, SceneStays DEF ModeInv, ClosesWhereItLies
  <2>4. ASSUME Plain PROVE ModeAgreement'
    <3>1. ModeAgreement /\ (Is("sleeves") => k # "paper")
      BY <2>0, <2>4 DEF Plain, ModeInv
    <3>2. torn => ~Is("sleeves")
      BY <1>1, <3>1, OneStrategy DEF ModeAgreement
    <3>3. ~torn' => Within(store'.today, word')
      BY <1>2, <2>0, <2>a, <3>1, <3>2 DEF ModeAgreement
    <3> QED
      BY <1>1, <1>2, <2>0, <2>a, <2>b, <3>1, <3>3, SceneStays DEF ModeAgreement
  <2> QED
    BY <2>1, <2>2, <2>3, <2>4
<1>5. ASSUME NEW v \in Modes, PostSettings(v) PROVE ModeTypeOK' /\ ModeTradesKnown' /\ ClosesWhereItLies' /\ (Plain => ModeAgreement')
  <2>0. /\ Is("panel") /\ store' = [store EXCEPT !.settings = v] /\ word' = [k \in ModeKeys |-> v] /\ torn' = torn
        /\ bot' = bot /\ pos' = pos /\ last' = last /\ draft' = draft
    BY <1>5 DEF PostSettings, OfStore
  <2>a. store' \in ModeStores
    BY <1>2, <2>0 DEF ModeStores
  <2>1. ModeTypeOK'
    BY <1>1, <1>2, <2>0, <2>a DEF ModeTypeOK
  <2>2. ModeTradesKnown'
    BY <1>1, <1>5, <2>0, SceneStays DEF ModeInv, ModeTradesKnown
  <2>3. ClosesWhereItLies'
    BY <1>1, <1>5, <2>0, SceneStays DEF ModeInv, ClosesWhereItLies
  <2>4. Plain => ModeAgreement'
    BY <2>0 DEF Plain
  <2> QED
    BY <2>1, <2>2, <2>3, <2>4
<1>6. ASSUME Rearm PROVE ModeTypeOK' /\ ModeTradesKnown' /\ ClosesWhereItLies' /\ (Plain => ModeAgreement')
  <2>0. /\ store' = [store EXCEPT !.today = Loaded(store)] /\ word' = word /\ torn' = torn
        /\ bot' = bot /\ pos' = pos /\ last' = last /\ draft' = draft
    BY <1>6 DEF Rearm, OfStore
  <2>a. Loaded(store) \in ModeLayers
    BY <1>2, LoadedFacts
  <2>b. /\ store' \in ModeStores /\ store'.today = Loaded(store) /\ store'.kept = store.kept /\ store'.modes = store.modes
        /\ store'.settings = store.settings
    BY <1>2, <2>0, <2>a DEF ModeStores
  <2>1. ModeTypeOK'
    BY <1>1, <1>2, <2>0, <2>b DEF ModeTypeOK
  <2>2. ModeTradesKnown'
    BY <1>1, <1>6, <2>0, SceneStays DEF ModeInv, ModeTradesKnown
  <2>3. ClosesWhereItLies'
    BY <1>1, <1>6, <2>0, SceneStays DEF ModeInv, ClosesWhereItLies
  <2>4. ASSUME Plain PROVE ModeAgreement'
    <3>1. ModeAgreement
      BY <2>4 DEF Plain, ModeInv
    <3>2. ~torn' => Within(store'.today, word')
      BY <1>2, <2>0, <2>b, <3>1, LoadedWithin DEF ModeAgreement
    <3>3. ModeStoresAgree(store', word')
      BY <2>0, <2>b, <3>1 DEF ModeAgreement, ModeStoresAgree, Fallback
    <3> QED
      BY <1>1, <2>0, <2>b, <3>1, <3>2, <3>3, SceneStays DEF ModeAgreement
  <2> QED
    BY <2>1, <2>2, <2>3, <2>4
<1>7. ASSUME SaveSession PROVE ModeTypeOK' /\ ModeTradesKnown' /\ ClosesWhereItLies' /\ (Plain => ModeAgreement')
  <2>0. /\ store' = [store EXCEPT !.today = Loaded(store)] /\ word' = word /\ torn' = torn
        /\ bot' = bot /\ pos' = pos /\ last' = last /\ draft' = draft
    BY <1>7 DEF SaveSession
  <2>a. Loaded(store) \in ModeLayers
    BY <1>2, LoadedFacts
  <2>b. /\ store' \in ModeStores /\ store'.today = Loaded(store) /\ store'.kept = store.kept /\ store'.modes = store.modes
        /\ store'.settings = store.settings
    BY <1>2, <2>0, <2>a DEF ModeStores
  <2>1. ModeTypeOK'
    BY <1>1, <1>2, <2>0, <2>b DEF ModeTypeOK
  <2>2. ModeTradesKnown'
    BY <1>1, <1>7, <2>0, SceneStays DEF ModeInv, ModeTradesKnown
  <2>3. ClosesWhereItLies'
    BY <1>1, <1>7, <2>0, SceneStays DEF ModeInv, ClosesWhereItLies
  <2>4. ASSUME Plain PROVE ModeAgreement'
    <3>1. ModeAgreement
      BY <2>4 DEF Plain, ModeInv
    <3>2. ~torn' => Within(store'.today, word')
      BY <1>2, <2>0, <2>b, <3>1, LoadedWithin DEF ModeAgreement
    <3>3. ModeStoresAgree(store', word')
      BY <2>0, <2>b, <3>1 DEF ModeAgreement, ModeStoresAgree, Fallback
    <3> QED
      BY <1>1, <2>0, <2>b, <3>1, <3>2, <3>3, SceneStays DEF ModeAgreement
  <2> QED
    BY <2>1, <2>2, <2>3, <2>4
<1>8. ASSUME NewDay PROVE ModeTypeOK' /\ ModeTradesKnown' /\ ClosesWhereItLies' /\ (Plain => ModeAgreement')
  <2>0. /\ store' = [store EXCEPT !.today = Nothing] /\ draft' = <<>> /\ torn' = FALSE
        /\ word' = word /\ bot' = bot /\ pos' = pos /\ last' = last
    BY <1>8 DEF NewDay
  <2>b. /\ store' \in ModeStores /\ store'.today = Nothing /\ store'.kept = store.kept /\ store'.modes = store.modes
        /\ store'.settings = store.settings
    BY <1>2, <2>0, NothingIsLayer DEF ModeStores
  <2>1. ModeTypeOK'
    <3>1. draft' \in Seq(ModeLayers)
      BY <2>0
    <3>2. torn' \in BOOLEAN
      BY <2>0, Zenon
    <3> QED
      BY <1>1, <1>2, <2>0, <2>b, <3>1, <3>2 DEF ModeTypeOK
  <2>2. ModeTradesKnown'
    BY <1>1, <1>8, <2>0, SceneStays DEF ModeInv, ModeTradesKnown
  <2>3. ClosesWhereItLies'
    BY <1>1, <1>8, <2>0, SceneStays DEF ModeInv, ClosesWhereItLies
  <2>4. ASSUME Plain PROVE ModeAgreement'
    <3>1. ModeAgreement
      BY <2>4 DEF Plain, ModeInv
    <3>2. Within(store'.today, word')
      BY <2>b, KeyFacts DEF Within, Nothing
    <3>3. ModeStoresAgree(store', word')
      BY <2>0, <2>b, <3>1 DEF ModeAgreement, ModeStoresAgree, Fallback
    <3> QED
      BY <1>1, <2>0, <2>b, <3>1, <3>2, <3>3, SceneStays DEF ModeAgreement
  <2> QED
    BY <2>1, <2>2, <2>3, <2>4
<1>9. ASSUME NEW fresh \in BOOLEAN, StartBot(fresh) PROVE ModeTypeOK' /\ ModeTradesKnown' /\ ClosesWhereItLies' /\ (Plain => ModeAgreement')
  <2> DEFINE c == IF fresh THEN Built(store) ELSE bot.cfg
             cfg == Effective(store, c)
  <2>0. /\ Threaded /\ (fresh \/ bot.alive)
        /\ bot' = [alive |-> TRUE, on |-> TRUE, cfg |-> cfg, via |-> cfg["paper"], old |-> torn \/ (bot.old /\ ~fresh)]
        /\ store' = store /\ word' = word /\ pos' = pos /\ last' = last /\ draft' = draft /\ torn' = torn
    BY <1>9 DEF StartBot, OfBot
  <2>a. c \in ModeLayers /\ c["paper"] \in Modes
    BY <1>2, <2>0, BuiltFacts DEF ModeInv, ModeTradesKnown
  <2>c. fresh => c = Built(store)
    OBVIOUS
  <2>d. ~fresh => c = bot.cfg
    OBVIOUS
  <2> HIDE DEF c
  <2>b. cfg \in ModeLayers /\ cfg["paper"] \in Modes
    BY <1>2, <2>a, EffectiveFacts
  <2>1. ModeTypeOK'
    <3>1. bot' \in ModeBots
      <4>1. cfg["paper"] \in ModeChoices /\ TRUE \in BOOLEAN /\ (torn \/ (bot.old /\ ~fresh)) \in BOOLEAN
        BY <1>2, <2>b DEF ModeChoices
      <4> HIDE DEF cfg
      <4> QED
        BY <2>0, <2>b, <4>1 DEF ModeBots
    <3> QED
      BY <1>1, <1>2, <2>0, <3>1 DEF ModeTypeOK
  <2>2. ModeTradesKnown'
    BY <1>1, <2>0, <2>b, SceneStays DEF ModeInv, ModeTradesKnown
  <2>3. ClosesWhereItLies'
    BY <1>1, <2>0, SceneStays DEF ModeInv, ClosesWhereItLies
  <2>4. ASSUME Plain PROVE ModeAgreement'
    <3>1. ModeAgreement
      BY <2>4 DEF Plain, ModeInv
    <3>2. ASSUME ~bot'.old, NEW k \in Traded PROVE bot'.cfg[k] = word[k]
      <4>1. ~torn /\ (fresh \/ ~bot.old)
        BY <2>0, <3>2
      <4>2. c = Built(store) \/ \A j \in Traded : store.kept[j] = "unset" => c[j] = word[j]
        BY <2>0, <2>c, <2>d, <3>1, <4>1 DEF ModeAgreement
      <4>3. cfg[k] = word[k]
        BY <1>1, <1>2, <2>0, <2>a, <3>1, <4>1, <4>2, EffectiveIsWord DEF ModeAgreement
      <4> QED
        BY <2>0, <4>3
    <3> QED
      BY <1>1, <2>0, <3>1, <3>2, SceneStays DEF ModeAgreement
  <2> QED
    BY <2>1, <2>2, <2>3, <2>4
<1>10. ASSUME NEW dead \in BOOLEAN, StopBot(dead) PROVE ModeTypeOK' /\ ModeTradesKnown' /\ ClosesWhereItLies' /\ (Plain => ModeAgreement')
  <2>0. /\ bot.on /\ bot' = [bot EXCEPT !.on = FALSE, !.alive = ~dead]
        /\ store' = store /\ word' = word /\ pos' = pos /\ last' = last /\ draft' = draft /\ torn' = torn
    BY <1>10 DEF StopBot, OfBot
  <2>b. /\ bot' \in ModeBots /\ bot'.alive = ~dead /\ bot'.on = FALSE /\ bot'.cfg = bot.cfg /\ bot'.via = bot.via
        /\ bot'.old = bot.old
    BY <1>2, <2>0 DEF ModeBots
  <2>1. ModeTypeOK'
    BY <1>1, <1>2, <2>0, <2>b DEF ModeTypeOK
  <2>2. ModeTradesKnown'
    BY <1>1, <2>0, <2>b, SceneStays DEF ModeInv, ModeTradesKnown
  <2>3. ClosesWhereItLies'
    BY <1>1, <2>0, SceneStays DEF ModeInv, ClosesWhereItLies
  <2>4. ASSUME Plain PROVE ModeAgreement'
    <3>1. ModeAgreement /\ bot.alive
      BY <2>0, <2>4 DEF Plain, ModeInv, ModeTradesKnown
    <3> QED
      BY <1>1, <2>0, <2>b, <3>1, SceneStays DEF ModeAgreement
  <2> QED
    BY <2>1, <2>2, <2>3, <2>4
<1>11. ASSUME Refresh PROVE ModeTypeOK' /\ ModeTradesKnown' /\ ClosesWhereItLies' /\ (Plain => ModeAgreement')
  <2> DEFINE f == Fill(Loaded(store), bot.cfg)
  <2>0. /\ bot.on /\ Is("sleeves") /\ bot' = [bot EXCEPT !.cfg = f]
        /\ store' = store /\ word' = word /\ pos' = pos /\ last' = last /\ draft' = draft /\ torn' = torn
    BY <1>11 DEF Refresh, OfBot
  <2>a. Loaded(store) \in ModeLayers /\ f \in ModeLayers /\ \A k \in ModeKeys : f[k] = Or(Loaded(store)[k], bot.cfg[k])
    BY <1>2, LoadedFacts, FillFacts
  <2>c. bot.cfg["paper"] \in Modes
    BY <2>0 DEF ModeInv, ModeTradesKnown
  <2>d. f["paper"] \in Modes
    BY <2>a, <2>c, OrFacts, KeyFacts DEF ModeLayers
  <2> HIDE DEF f
  <2>b. /\ bot' \in ModeBots /\ bot'.alive = bot.alive /\ bot'.on = bot.on /\ bot'.cfg = f /\ bot'.via = bot.via
        /\ bot'.old = bot.old
    BY <1>2, <2>0, <2>a DEF ModeBots
  <2>1. ModeTypeOK'
    BY <1>1, <1>2, <2>0, <2>b DEF ModeTypeOK
  <2>2. ModeTradesKnown'
    BY <1>1, <2>0, <2>b, <2>d, OneStrategy, SceneStays DEF ModeInv, ModeTradesKnown
  <2>3. ClosesWhereItLies'
    BY <1>1, <2>0, SceneStays DEF ModeInv, ClosesWhereItLies
  <2>4. ASSUME Plain PROVE ModeAgreement'
    <3>1. ModeAgreement /\ ~torn
      BY <1>1, <2>0, <2>4, OneStrategy DEF Plain, ModeInv, ModeAgreement
    <3>2. Within(Loaded(store), word)
      BY <1>2, <3>1, LoadedWithin DEF ModeAgreement
    <3>3. ASSUME NEW k \in Traded, bot.cfg[k] = word[k] PROVE f[k] = word[k]
      <4>1. k \in KeysUsed /\ k \in ModeKeys /\ word[k] \in Modes /\ Loaded(store)[k] \in {"unset", word[k]}
        BY <1>2, <3>2, KeyFacts DEF Within
      <4> QED
        BY <2>a, <3>3, <4>1 DEF Or
    <3> QED
      BY <1>1, <2>0, <2>b, <3>1, <3>3, SceneStays DEF ModeAgreement
  <2> QED
    BY <2>1, <2>2, <2>3, <2>4
<1>12. ASSUME Peek PROVE ModeTypeOK' /\ ModeTradesKnown' /\ ClosesWhereItLies' /\ (Plain => ModeAgreement')
  <2>0. /\ Is("fade") /\ draft' = <<store.today>>
        /\ store' = store /\ word' = word /\ pos' = pos /\ last' = last /\ bot' = bot /\ torn' = torn
    BY <1>12 DEF Peek
  <2>1. ModeTypeOK'
    <3>1. draft' \in Seq(ModeLayers)
      BY <1>2, <2>0
    <3> QED
      BY <1>1, <1>2, <2>0, <3>1 DEF ModeTypeOK
  <2>2. ModeTradesKnown'
    BY <1>1, <1>12, <2>0, SceneStays DEF ModeInv, ModeTradesKnown
  <2>3. ClosesWhereItLies'
    BY <1>1, <1>12, <2>0, SceneStays DEF ModeInv, ClosesWhereItLies
  <2>4. Plain => ModeAgreement'
    BY <1>1, <2>0, SceneStays DEF Plain, ModeInv, ModeAgreement
  <2> QED
    BY <2>1, <2>2, <2>3, <2>4
<1>13. ASSUME Put PROVE ModeTypeOK' /\ ModeTradesKnown' /\ ClosesWhereItLies' /\ (Plain => ModeAgreement')
  <2>0. /\ draft # <<>> /\ store' = [store EXCEPT !.today = draft[1]] /\ torn' = (torn \/ draft[1] # store.today)
        /\ draft' = <<>> /\ word' = word /\ pos' = pos /\ last' = last /\ bot' = bot
    BY <1>13 DEF Put
  <2>a. draft[1] \in ModeLayers
    BY <1>2, <2>0
  <2>b. /\ store' \in ModeStores /\ store'.today = draft[1] /\ store'.kept = store.kept /\ store'.modes = store.modes
        /\ store'.settings = store.settings
    BY <1>2, <2>0, <2>a DEF ModeStores
  <2>1. ModeTypeOK'
    <3>1. draft' \in Seq(ModeLayers) /\ torn' \in BOOLEAN
      BY <1>2, <2>0
    <3> QED
      BY <1>1, <1>2, <2>0, <2>b, <3>1 DEF ModeTypeOK
  <2>2. ModeTradesKnown'
    BY <1>1, <1>13, <2>0, SceneStays DEF ModeInv, ModeTradesKnown
  <2>3. ClosesWhereItLies'
    BY <1>1, <1>13, <2>0, SceneStays DEF ModeInv, ClosesWhereItLies
  <2>4. ASSUME Plain PROVE ModeAgreement'
    <3>1. ModeAgreement
      BY <2>4 DEF Plain, ModeInv
    <3>2. ~torn' => Within(store'.today, word')
      BY <1>2, <2>0, <2>b, <3>1 DEF ModeAgreement
    <3>3. ModeStoresAgree(store', word')
      BY <2>0, <2>b, <3>1 DEF ModeAgreement, ModeStoresAgree, Fallback
    <3> QED
      BY <1>1, <2>0, <2>b, <3>1, <3>2, <3>3, SceneStays DEF ModeAgreement
  <2> QED
    BY <2>1, <2>2, <2>3, <2>4
<1>14. ASSUME MeicEnter PROVE ModeTypeOK' /\ ModeTradesKnown' /\ ClosesWhereItLies' /\ (Plain => ModeAgreement')
  <2>0. /\ pos' = [st |-> "pending", key |-> "paper", lay |-> store.settings, stamp |-> "unset", todo |-> TRUE]
        /\ last' = last /\ store' = store /\ word' = word /\ bot' = bot /\ draft' = draft /\ torn' = torn /\ Is("meic")
    BY <1>14 DEF MeicEnter, Opened, OfTrade
  <2>a. store.settings \in Modes
    BY <1>2
  <2>1. ModeTypeOK'
    <3>1. pos' \in ModeTrades
      <4>1. "pending" \in {"none", "pending", "open"} /\ TRUE \in BOOLEAN /\ store.settings \in ModeChoices /\ "unset" \in ModeChoices
        BY <2>a DEF ModeChoices
      <4>2. "paper" \in ModeKeys
        BY KeyFacts
      <4> QED
        BY <2>0, <4>1, <4>2, Zenon DEF ModeTrades
    <3> QED
      BY <1>1, <1>2, <2>0, <3>1 DEF ModeTypeOK
  <2>2. ModeTradesKnown'
    BY <1>1, <2>0, <2>a, OneStrategy, SceneStays DEF ModeInv, ModeTradesKnown
  <2>3. ClosesWhereItLies'
    BY <1>1, <2>0, SceneStays DEF ModeInv, ClosesWhereItLies
  <2>4. Plain => ModeAgreement'
    BY <1>1, <2>0, SceneStays DEF Plain, ModeInv, ModeAgreement
  <2> QED
    BY <2>1, <2>2, <2>3, <2>4
<1>15. ASSUME ManualEnter PROVE ModeTypeOK' /\ ModeTradesKnown' /\ ClosesWhereItLies' /\ (Plain => ModeAgreement')
  <2>0. /\ pos' = [st |-> "pending", key |-> "paper", lay |-> Shown(store, "paper"), stamp |-> "unset", todo |-> FALSE]
        /\ last' = last /\ store' = store /\ word' = word /\ bot' = bot /\ draft' = draft /\ torn' = torn /\ Is("manual")
    BY <1>15 DEF ManualEnter, Opened, OfTrade
  <2>a. Shown(store, "paper") \in Modes
    BY <1>1, <1>2, <2>0, ShownIsMode, KeyFacts
  <2>1. ModeTypeOK'
    <3>1. pos' \in ModeTrades
      <4>1. "pending" \in {"none", "pending", "open"} /\ FALSE \in BOOLEAN /\ Shown(store, "paper") \in ModeChoices /\ "unset" \in ModeChoices
        BY <2>a DEF ModeChoices
      <4>2. "paper" \in ModeKeys
        BY KeyFacts
      <4> QED
        BY <2>0, <4>1, <4>2, Zenon DEF ModeTrades
    <3> QED
      BY <1>1, <1>2, <2>0, <3>1 DEF ModeTypeOK
  <2>2. ModeTradesKnown'
    BY <1>1, <2>0, <2>a, OneStrategy, SceneStays DEF ModeInv, ModeTradesKnown
  <2>3. ClosesWhereItLies'
    BY <1>1, <2>0, SceneStays DEF ModeInv, ClosesWhereItLies
  <2>4. Plain => ModeAgreement'
    BY <1>1, <2>0, SceneStays DEF Plain, ModeInv, ModeAgreement
  <2> QED
    BY <2>1, <2>2, <2>3, <2>4
<1>16. ASSUME FadeEnter PROVE ModeTypeOK' /\ ModeTradesKnown' /\ ClosesWhereItLies' /\ (Plain => ModeAgreement')
  <2>0. /\ pos' = [st |-> "pending", key |-> "paper", lay |-> bot.via, stamp |-> bot.cfg["paper"], todo |-> FALSE]
        /\ last' = last /\ store' = store /\ word' = word /\ bot' = bot /\ draft' = draft /\ torn' = torn /\ Is("fade") /\ bot.on
    BY <1>16 DEF FadeEnter, Opened, OfTrade
  <2>a. bot.via \in Modes /\ bot.via = bot.cfg["paper"]
    BY <2>0 DEF ModeInv, ModeTradesKnown
  <2>1. ModeTypeOK'
    <3>1. pos' \in ModeTrades
      <4>1. "pending" \in {"none", "pending", "open"} /\ FALSE \in BOOLEAN /\ bot.via \in ModeChoices /\ bot.cfg["paper"] \in ModeChoices
        BY <2>a DEF ModeChoices
      <4>2. "paper" \in ModeKeys
        BY KeyFacts
      <4> QED
        BY <2>0, <4>1, <4>2, Zenon DEF ModeTrades
    <3> QED
      BY <1>1, <1>2, <2>0, <3>1 DEF ModeTypeOK
  <2>2. ModeTradesKnown'
    BY <1>1, <2>0, <2>a, OneStrategy, SceneStays DEF ModeInv, ModeTradesKnown
  <2>3. ClosesWhereItLies'
    BY <1>1, <2>0, SceneStays DEF ModeInv, ClosesWhereItLies
  <2>4. Plain => ModeAgreement'
    BY <1>1, <2>0, SceneStays DEF Plain, ModeInv, ModeAgreement
  <2> QED
    BY <2>1, <2>2, <2>3, <2>4
<1>17. ASSUME NEW k \in ModeKeys, SleeveEnter(k) PROVE ModeTypeOK' /\ ModeTradesKnown' /\ ClosesWhereItLies' /\ (Plain => ModeAgreement')
  <2>0. /\ pos' = [st |-> "pending", key |-> k, lay |-> ModeIn(bot.cfg, k), stamp |-> ModeIn(bot.cfg, k), todo |-> FALSE]
        /\ last' = last /\ store' = store /\ word' = word /\ bot' = bot /\ draft' = draft /\ torn' = torn /\ Is("sleeves") /\ bot.on
    BY <1>17 DEF SleeveEnter, Opened, OfTrade
  <2>a. ModeIn(bot.cfg, k) \in Modes
    <3>1. bot.cfg["paper"] \in Modes /\ bot.cfg[k] \in ModeChoices
      BY <1>2, <2>0 DEF ModeInv, ModeTradesKnown, ModeLayers
    <3> QED
      BY <3>1, OrFacts DEF ModeIn
  <2>1. ModeTypeOK'
    <3>1. pos' \in ModeTrades
      <4>1. "pending" \in {"none", "pending", "open"} /\ FALSE \in BOOLEAN /\ ModeIn(bot.cfg, k) \in ModeChoices /\ ModeIn(bot.cfg, k) \in ModeChoices
        BY <2>a DEF ModeChoices
      <4>2. k \in ModeKeys
        BY KeyFacts
      <4> QED
        BY <2>0, <4>1, <4>2, Zenon DEF ModeTrades
    <3> QED
      BY <1>1, <1>2, <2>0, <3>1 DEF ModeTypeOK
  <2>2. ModeTradesKnown'
    BY <1>1, <2>0, <2>a, OneStrategy, SceneStays DEF ModeInv, ModeTradesKnown
  <2>3. ClosesWhereItLies'
    BY <1>1, <2>0, SceneStays DEF ModeInv, ClosesWhereItLies
  <2>4. Plain => ModeAgreement'
    BY <1>1, <2>0, SceneStays DEF Plain, ModeInv, ModeAgreement
  <2> QED
    BY <2>1, <2>2, <2>3, <2>4
<1>18. ASSUME Filled PROVE ModeTypeOK' /\ ModeTradesKnown' /\ ClosesWhereItLies' /\ (Plain => ModeAgreement')
  <2>0. /\ pos.st # "none" /\ pos'.st # "none" /\ pos'.lay = pos.lay /\ pos'.stamp \in {pos.stamp, pos.lay} /\ pos' \in ModeTrades
        /\ last' = last /\ store' = store /\ word' = word /\ bot' = bot /\ draft' = draft /\ torn' = torn
    <3>1. pos.st = "pending" /\ pos' = [pos EXCEPT !.st = "open"] /\ last' = last /\ store' = store /\ word' = word /\ bot' = bot /\ draft' = draft /\ torn' = torn
      BY <1>18 DEF Filled, OfTrade
    <3>2. pos' \in ModeTrades /\ pos'.st = "open" /\ pos'.lay = pos.lay /\ pos'.stamp = pos.stamp
      BY <1>2, <3>1 DEF ModeTrades
    <3> QED
      BY <3>1, <3>2
  <2>1. ModeTypeOK'
    BY <1>1, <1>2, <2>0 DEF ModeTypeOK
  <2>2. ModeTradesKnown'
    BY <1>1, <2>0, SceneStays DEF ModeInv, ModeTradesKnown
  <2>3. ClosesWhereItLies'
    BY <1>1, <2>0, SceneStays DEF ModeInv, ClosesWhereItLies
  <2>4. Plain => ModeAgreement'
    BY <1>1, <2>0, SceneStays DEF Plain, ModeInv, ModeAgreement
  <2> QED
    BY <2>1, <2>2, <2>3, <2>4
<1>19. ASSUME Stamp PROVE ModeTypeOK' /\ ModeTradesKnown' /\ ClosesWhereItLies' /\ (Plain => ModeAgreement')
  <2>0. /\ pos.st # "none" /\ pos'.st # "none" /\ pos'.lay = pos.lay /\ pos'.stamp \in {pos.stamp, pos.lay} /\ pos' \in ModeTrades
        /\ last' = last /\ store' = store /\ word' = word /\ bot' = bot /\ draft' = draft /\ torn' = torn
    <3>1. /\ pos.todo /\ last' = last /\ store' = store /\ word' = word /\ bot' = bot /\ draft' = draft /\ torn' = torn
          /\ pos' = [pos EXCEPT !.stamp = pos.lay, !.todo = FALSE] \/ pos' = [pos EXCEPT !.todo = FALSE]
      BY <1>19 DEF Stamp, OfTrade
    <3>2. pos.st # "none"
      BY <3>1 DEF ModeInv, ModeTradesKnown
    <3>3. pos' \in ModeTrades /\ pos'.st = pos.st /\ pos'.lay = pos.lay /\ pos'.stamp \in {pos.stamp, pos.lay}
      <4>1. CASE pos' = [pos EXCEPT !.stamp = pos.lay, !.todo = FALSE]
        BY <1>2, <4>1 DEF ModeTrades
      <4>2. CASE pos' = [pos EXCEPT !.todo = FALSE]
        BY <1>2, <4>2 DEF ModeTrades
      <4> QED
        BY <3>1, <4>1, <4>2
    <3> QED
      BY <3>1, <3>2, <3>3
  <2>1. ModeTypeOK'
    BY <1>1, <1>2, <2>0 DEF ModeTypeOK
  <2>2. ModeTradesKnown'
    BY <1>1, <2>0, SceneStays DEF ModeInv, ModeTradesKnown
  <2>3. ClosesWhereItLies'
    BY <1>1, <2>0, SceneStays DEF ModeInv, ClosesWhereItLies
  <2>4. Plain => ModeAgreement'
    BY <1>1, <2>0, SceneStays DEF Plain, ModeInv, ModeAgreement
  <2> QED
    BY <2>1, <2>2, <2>3, <2>4
<1>20. ASSUME MonitorClose PROVE ModeTypeOK' /\ ModeTradesKnown' /\ ClosesWhereItLies' /\ (Plain => ModeAgreement')
  <2>0. /\ pos.st = "open" /\ last' = [lay |-> pos.lay, stamp |-> pos.stamp, went |-> Route(store, pos), by |-> "monitor"]
        /\ pos' = NoTradeOpen /\ store' = store /\ word' = word /\ bot' = bot /\ draft' = draft /\ torn' = torn
    BY <1>20 DEF MonitorClose, Closed, OfTrade
  <2>a. pos.lay \in Modes /\ pos.stamp \in {"unset", pos.lay} /\ (Threaded => pos.stamp = pos.lay)
    BY <2>0 DEF ModeInv, ModeTradesKnown
  <2>b. Route(store, pos) \in ModeChoices
    <3>1. pos.stamp = "paper" \/ pos.lay = "paper" => Route(store, pos) = "paper"
      BY <2>a DEF Route, Modes
    <3>2. ~(pos.stamp = "paper" \/ pos.lay = "paper") /\ pos.stamp = "live" => Route(store, pos) = "live"
      BY DEF Route
    <3>3. ~(pos.stamp = "paper" \/ pos.lay = "paper") /\ pos.stamp # "live" => Route(store, pos) = Shown(store, pos.key)
      BY DEF Route
    <3>4. pos.key \in ModeKeys
      BY <1>2 DEF ModeTrades
    <3> QED
      BY <1>1, <1>2, <3>1, <3>2, <3>3, <3>4, ShownIsMode DEF ModeChoices, Modes
  <2>1. ModeTypeOK'
    <3>1. last' \in ModeCloses
      BY <2>0, <2>a, <2>b DEF ModeCloses, ModeChoices
    <3>2. pos' \in ModeTrades
      <4>1. "none" \in {"none", "pending", "open"} /\ FALSE \in BOOLEAN /\ "unset" \in ModeChoices /\ "paper" \in ModeKeys
        BY KeyFacts DEF ModeChoices
      <4> QED
        BY <2>0, <4>1, Zenon DEF ModeTrades, NoTradeOpen
    <3> QED
      BY <1>1, <1>2, <2>0, <3>1, <3>2 DEF ModeTypeOK
  <2>2. ModeTradesKnown'
    BY <1>1, <2>0, SceneStays DEF ModeInv, ModeTradesKnown, NoTradeOpen
  <2>3. ClosesWhereItLies'
    <3>1. Route(store, pos) = pos.lay \/ (pos.lay = "live" /\ pos.stamp = "unset")
      BY <2>a DEF Route, Modes
    <3> QED
      BY <2>0, <3>1 DEF ClosesWhereItLies
  <2>4. Plain => ModeAgreement'
    BY <1>1, <2>0, SceneStays DEF Plain, ModeInv, ModeAgreement
  <2> QED
    BY <2>1, <2>2, <2>3, <2>4
<1>21. ASSUME DeskClose PROVE ModeTypeOK' /\ ModeTradesKnown' /\ ClosesWhereItLies' /\ (Plain => ModeAgreement')
  <2>0. /\ pos.st = "open" /\ last' = [lay |-> pos.lay, stamp |-> pos.stamp, went |-> DeskMode(store, pos), by |-> "desk"]
        /\ pos' = NoTradeOpen /\ store' = store /\ word' = word /\ bot' = bot /\ draft' = draft /\ torn' = torn /\ Threaded
    BY <1>21 DEF DeskClose, Closed, OfTrade
  <2>a. pos.lay \in Modes /\ pos.stamp \in {"unset", pos.lay} /\ (Threaded => pos.stamp = pos.lay)
    BY <2>0 DEF ModeInv, ModeTradesKnown
  <2>b. DeskMode(store, pos) \in ModeChoices
    BY <2>0, <2>a DEF DeskMode, Or, ModeChoices, Modes
  <2>1. ModeTypeOK'
    <3>1. last' \in ModeCloses
      BY <2>0, <2>a, <2>b DEF ModeCloses, ModeChoices
    <3>2. pos' \in ModeTrades
      <4>1. "none" \in {"none", "pending", "open"} /\ FALSE \in BOOLEAN /\ "unset" \in ModeChoices /\ "paper" \in ModeKeys
        BY KeyFacts DEF ModeChoices
      <4> QED
        BY <2>0, <4>1, Zenon DEF ModeTrades, NoTradeOpen
    <3> QED
      BY <1>1, <1>2, <2>0, <3>1, <3>2 DEF ModeTypeOK
  <2>2. ModeTradesKnown'
    BY <1>1, <2>0, SceneStays DEF ModeInv, ModeTradesKnown, NoTradeOpen
  <2>3. ClosesWhereItLies'
    BY <2>0, <2>a DEF ClosesWhereItLies, DeskMode, Or, Modes
  <2>4. Plain => ModeAgreement'
    BY <1>1, <2>0, SceneStays DEF Plain, ModeInv, ModeAgreement
  <2> QED
    BY <2>1, <2>2, <2>3, <2>4
<1>22. ASSUME ThreadClose PROVE ModeTypeOK' /\ ModeTradesKnown' /\ ClosesWhereItLies' /\ (Plain => ModeAgreement')
  <2>0. /\ pos.st = "open" /\ last' = [lay |-> pos.lay, stamp |-> pos.stamp, went |-> (IF Is("fade") THEN bot.via ELSE Or(pos.stamp, ModeIn(bot.cfg, pos.key))), by |-> "thread"]
        /\ pos' = NoTradeOpen /\ store' = store /\ word' = word /\ bot' = bot /\ draft' = draft /\ torn' = torn /\ bot.on
    BY <1>22 DEF ThreadClose, Closed, OfTrade
  <2>a. pos.lay \in Modes /\ pos.stamp \in {"unset", pos.lay} /\ (Threaded => pos.stamp = pos.lay)
    BY <2>0 DEF ModeInv, ModeTradesKnown
  <2>b. (IF Is("fade") THEN bot.via ELSE Or(pos.stamp, ModeIn(bot.cfg, pos.key))) \in ModeChoices
    BY <1>2, <2>0, <2>a DEF ModeInv, ModeTradesKnown, Or, ModeChoices, Modes
  <2>1. ModeTypeOK'
    <3>1. last' \in ModeCloses
      BY <2>0, <2>a, <2>b DEF ModeCloses, ModeChoices
    <3>2. pos' \in ModeTrades
      <4>1. "none" \in {"none", "pending", "open"} /\ FALSE \in BOOLEAN /\ "unset" \in ModeChoices /\ "paper" \in ModeKeys
        BY KeyFacts DEF ModeChoices
      <4> QED
        BY <2>0, <4>1, Zenon DEF ModeTrades, NoTradeOpen
    <3> QED
      BY <1>1, <1>2, <2>0, <3>1, <3>2 DEF ModeTypeOK
  <2>2. ModeTradesKnown'
    BY <1>1, <2>0, SceneStays DEF ModeInv, ModeTradesKnown, NoTradeOpen
  <2>3. ClosesWhereItLies'
    <3>1. Threaded
      BY <2>0 DEF ModeInv, ModeTradesKnown
    <3> QED
      BY <1>1, <2>0, <2>a, <3>1, SceneStays DEF ClosesWhereItLies, Or, Modes
  <2>4. Plain => ModeAgreement'
    BY <1>1, <2>0, SceneStays DEF Plain, ModeInv, ModeAgreement
  <2> QED
    BY <2>1, <2>2, <2>3, <2>4
<1> QED
  BY <1>3, <1>4, <1>5, <1>6, <1>7, <1>8, <1>9, <1>10, <1>11, <1>12, <1>13, <1>14, <1>15, <1>16, <1>17, <1>18, <1>19,
     <1>20, <1>21, <1>22 DEF ModeNext

\* Every run keeps the invariant, for every set of scenes and every bound.
THEOREM ModeInvariant == ModeSpec => []ModeInv
<1>1. ModeInit => ModeInv
  <2> SUFFICES ASSUME ModeInit PROVE ModeInv
    OBVIOUS
  <2>1. PICK v \in Modes :
          /\ store = [today |-> Nothing, kept |-> Nothing, modes |-> Nothing, settings |-> v]
          /\ (Is("meic") \/ v = "paper")
          /\ word = [k \in ModeKeys |-> IF Is("meic") THEN v ELSE Yaml]
    BY DEF ModeInit
  <2>2. /\ mscene \in ModeScenes /\ pos = NoTradeOpen /\ draft = <<>> /\ torn = FALSE
        /\ bot = [alive |-> FALSE, on |-> FALSE, cfg |-> Nothing, via |-> "unset", old |-> FALSE]
        /\ last = [lay |-> "unset", stamp |-> "unset", went |-> "unset", by |-> "nobody"]
    BY DEF ModeInit
  <2>3. store \in ModeStores /\ word \in [ModeKeys -> Modes]
    BY <2>1, NothingIsLayer, KeyFacts DEF ModeStores
  <2>4. "unset" \in ModeChoices /\ FALSE \in BOOLEAN /\ "paper" \in ModeKeys /\ "none" \in {"none", "pending", "open"}
        /\ "nobody" \in {"nobody", "monitor", "desk", "thread"}
    BY KeyFacts DEF ModeChoices
  <2>5. bot \in ModeBots
    BY <2>2, <2>4, NothingIsLayer, Zenon DEF ModeBots
  <2>6. pos \in ModeTrades
    BY <2>2, <2>4, Zenon DEF ModeTrades, NoTradeOpen
  <2>7. last \in ModeCloses
    BY <2>2, <2>4, Zenon DEF ModeCloses
  <2>8. ModeTypeOK
    <3>1. draft \in Seq(ModeLayers)
      BY <2>2
    <3>2. torn \in BOOLEAN
      BY <2>2, Zenon
    <3> QED
      BY <2>2, <2>3, <2>5, <2>6, <2>7, <3>1, <3>2 DEF ModeTypeOK
  <2>9. ModeTradesKnown /\ ClosesWhereItLies
    BY <2>2 DEF ModeTradesKnown, ClosesWhereItLies, NoTradeOpen
  <2>10. ModeAgreement
    <3>1. \A k \in ModeKeys : Nothing[k] = "unset" /\ word[k] = IF Is("meic") THEN v ELSE Yaml
      BY <2>1 DEF Nothing
    <3>2. Is("sleeves") => ~Is("meic")
      BY <2>2, OneStrategy DEF Threaded
    <3>3. ModeStoresAgree(store, word)
      BY <2>1, <3>1, <3>2, KeyFacts DEF ModeStoresAgree, Within, Fallback
    <3>4. Within(store.today, word)
      BY <2>1, <3>1, KeyFacts DEF Within
    <3> QED
      BY <2>2, <3>3, <3>4 DEF ModeAgreement
  <2> QED
    BY <2>8, <2>9, <2>10 DEF ModeInv
<1>2. ModeInv /\ [ModeNext]_modevars => ModeInv'
  <2> SUFFICES ASSUME ModeInv, UNCHANGED modevars PROVE ModeInv'
    BY ModeStep
  <2> QED
    BY SceneStays DEF modevars, ModeInv, ModeTypeOK, ModeTradesKnown, ClosesWhereItLies, ModeAgreement
<1> QED
  BY <1>1, <1>2, PTL DEF ModeSpec

\* What the dashboard shows, what the next entry trades in and what the operator said last agree, and a close goes where
\* its trade lies (common/daily_overrides.py, strategy_modes.py, broker_factory.py, blocks/stop/broker.py).
THEOREM ModesAreSound == ModeSpec => []ModesSound
<1>1. ModeInv => ModesSound
  <2> SUFFICES ASSUME ModeInv PROVE ModesAgree /\ ClosesWhereItLies
    BY DEF ModesSound
  <2>1. ASSUME ~torn, ~Is("panel"), ~Is("drop"), NEW k \in Traded PROVE Shown(store, k) = word[k] /\ (~bot.old => NextMode(k) = word[k])
    <3>1. ModeAgreement
      BY <2>1 DEF ModeInv
    <3>2. mscene \in ModeScenes /\ store \in ModeStores /\ word \in [ModeKeys -> Modes]
      BY DEF ModeInv, ModeTypeOK
    <3> QED
      BY <2>1, <3>1, <3>2, ShownIsWord, NextIsWord DEF ModeAgreement
  <2> QED
    BY <2>1 DEF ModesAgree, ModeInv
<1> QED
  BY <1>1, ModeInvariant, PTL


(* --- the desk: its parts share nothing ---------------------------------- *)
\* A behaviour of the desk is one of each of its parts, at most one of which
\* moves.
LEMMA PartsOfDesk == Spec => HSpec /\ SSpec /\ FadeSpec /\ ModeSpec
<1>1. Init => HInit /\ SInit /\ FadeInit /\ ModeInit
  BY DEF Init
<1>2. ASSUME [Next]_<<part, scanvars, hvars, svars, fadevars, modevars>>
      PROVE  [HNext]_hvars /\ [SNext]_svars /\ [FadeNext]_fadevars /\ [ModeNext]_modevars
  <2>1. CASE Ask
    BY <2>1 DEF Ask
  <2>2. CASE KeepBooks
    BY <2>2 DEF KeepBooks
  <2>3. CASE KeepPlan
    BY <2>3 DEF KeepPlan
  <2>4. CASE Trade
    BY <2>4 DEF Trade
  <2>5. CASE ChooseMode
    BY <2>5 DEF ChooseMode
  <2>6. CASE UNCHANGED <<part, scanvars, hvars, svars, fadevars, modevars>>
    BY <2>6
  <2> QED
    BY <1>2, <2>1, <2>2, <2>3, <2>4, <2>5, <2>6 DEF Next
<1> QED
  BY <1>1, <1>2, PTL DEF Spec, HSpec, SSpec, FadeSpec, ModeSpec

\* The rows of the day: nobody enters one twice, none is left behind
\* (try_claim_manual_row, mark_row_state, apply_entry_result, save).
THEOREM PlanIsSound == Spec => []PlanSound
<1>1. PlanInv => PlanSound
  BY PlanPromises DEF PlanSound
<1> QED
  BY PartsOfDesk, PlanInvariant, <1>1, PTL

\* The desk keeps what its books and its plan promise: true rows, a close that
\* sticks, a plan whose rows are entered once, and trades where the word is.
THEOREM DeskIsSound == Spec => [](RowsTrue /\ PlanSound /\ ModesSound) /\ CloseSticks
<1> QED
  BY PartsOfDesk, RowsAreTrue, PlanIsSound, ModesAreSound, CloseIsKept, PTL
=============================================================================
