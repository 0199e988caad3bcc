------------------------- MODULE NewRiskGate_proofs -------------------------
(***************************************************************************)
(* For every plan, pool and fault bound: a trouble closes the gate, and    *)
(* only the operator, on a later success, or a new session opens it.       *)
(*                                                                         *)
(* TroubleCloses is not inductive: the cooldown that stands in for the     *)
(* latch may end, unless it ends only after the latch was written.  IInv   *)
(* says who owes the latch (Cooling), that a latch means trouble, and that *)
(* REST does not count as healthy before a success followed the trouble.   *)
(***************************************************************************)
EXTENDS NewRiskGate, TLAPS

\* the copies and the unfinished resume of an overlap are not there without one
Apart == hand = [p \in Processes |-> {}] /\ resume = "idle"

Owed == Cooling => cooldown /\ since # "calm"

Closed == /\ since # "calm" => gate.latched \/ Cooling
          /\ gate.latched => since # "calm"

NotYet == since = "trouble" => gate.rest # "healthy" \/ Cooling

Calm == Owed /\ Closed /\ NotYet

IInv == TypeOK /\ (~Overlap => Apart /\ Calm)

-----------------------------------------------------------------------------
(* What is written is a gate. *)

LEMMA KeyFacts ==
  /\ Keys \subseteq Probes /\ Startup \in Keys /\ Dash \in Probes /\ Rows \subseteq Keys
  /\ \A k \in Probes : ProcessOf(k) \in Processes
BY DEF Keys, Probes, ProcessOf, Processes, Startup, Dash

LEMMA MarkedIs ==
  ASSUME NEW g \in Gates, NEW k, NEW phase \in Phases
  PROVE  /\ Marked(g, k, phase) \in Gates
         /\ Marked(g, k, phase).latched = g.latched /\ Marked(g, k, phase).rest = g.rest
<1>1. [r \in Rows |-> IF r = k THEN phase ELSE g.probe[r]] \in [Rows -> Phases]
  BY DEF Gates
<1> QED
  BY <1>1 DEF Marked, Gates

LEMMA RecordedIs ==
  ASSUME NEW g \in Gates, NEW k, NEW ok \in BOOLEAN
  PROVE  /\ Recorded(g, k, ok) \in Gates
         /\ Recorded(g, k, ok).latched = (g.latched \/ ~ok)
         /\ Recorded(g, k, ok).rest = IF ok THEN "healthy" ELSE "failed"
<1> DEFINE m == Marked(g, k, IF ok THEN "ok" ELSE "failed")
<1>1. m \in Gates /\ m.latched = g.latched
  BY MarkedIs DEF Phases
<1>2. Recorded(g, k, ok) = [m EXCEPT !.rest = IF ok THEN "healthy" ELSE "failed",
                                     !.fresh = ok \/ @, !.latched = @ \/ ~ok]
  BY DEF Recorded
<1> HIDE DEF m
<1>3. PICK t \in {"healthy", "failed"} : t = IF ok THEN "healthy" ELSE "failed"
  OBVIOUS
<1>4. PICK y \in BOOLEAN : y = (ok \/ m.fresh)
  OBVIOUS
<1>5. PICK z \in BOOLEAN : z = (m.latched \/ ~ok)
  OBVIOUS
<1>6. Recorded(g, k, ok) = [m EXCEPT !.rest = t, !.fresh = y, !.latched = z]
  BY <1>2, <1>3, <1>4, <1>5
<1> QED
  BY <1>1, <1>3, <1>5, <1>6 DEF Gates

LEMMA GateOps ==
  ASSUME NEW g \in Gates
  PROVE  /\ Latched(g) \in Gates /\ Unlatched(g) \in Gates /\ Suppressed(g) \in Gates
         /\ [g EXCEPT !.fresh = FALSE] \in Gates
         /\ \A k : \A phase \in Phases : Marked(g, k, phase) \in Gates
         /\ \A k : \A ok \in BOOLEAN : Recorded(g, k, ok) \in Gates
<1>1. Latched(g) \in Gates /\ Unlatched(g) \in Gates /\ [g EXCEPT !.fresh = FALSE] \in Gates
  BY DEF Gates, Latched, Unlatched
<1>2. Suppressed(g) \in Gates
  BY MarkedIs DEF Suppressed, Phases
<1> QED
  BY <1>1, <1>2, MarkedIs, RecordedIs

LEMMA ReadIsGate ==
  ASSUME TypeOK, NEW p \in Processes
  PROVE  Read(p) \in Gates
<1>1. CASE hand[p] = {}
  BY <1>1 DEF TypeOK, Read
<1>2. CASE hand[p] # {}
  <2>1. PICK g : g \in hand[p]
    BY <1>2
  <2>2. (CHOOSE h \in hand[p] : TRUE) \in hand[p]
    BY <2>1
  <2>3. hand[p] \subseteq Gates
    BY DEF TypeOK
  <2> QED
    BY <1>2, <2>2, <2>3 DEF Read
<1> QED
  BY <1>1, <1>2

LEMMA WriteType ==
  ASSUME TypeOK, NEW p \in Processes, NEW g \in Gates, Write(p, g)
  PROVE  gate' \in Gates /\ hand' \in [Processes -> SUBSET Gates]
BY DEF TypeOK, Write

LEMMA NewGateType == ASSUME NEW c \in BOOLEAN PROVE NewGate(c) \in Gates
BY DEF NewGate, Gates, Phases

-----------------------------------------------------------------------------
(* Types. *)

LEMMA ScheduleType ==
  ASSUME TypeOK, NEW k \in Keys, Schedule(k)
  PROVE  /\ gate' \in Gates /\ hand' \in [Processes -> SUBSET Gates]
         /\ job' \in [Probes -> [pc: Steps, ok: BOOLEAN, waiting: BOOLEAN]]
<1>1. "launcher" \in Processes /\ k \in Probes
  BY KeyFacts DEF Processes
<1>2. Marked(Read("launcher"), k, "scheduled") \in Gates
  BY <1>1, ReadIsGate, GateOps DEF Phases
<1>3. gate' \in Gates /\ hand' \in [Processes -> SUBSET Gates]
  BY <1>1, <1>2, WriteType DEF Schedule
<1> QED
  BY <1>1, <1>3 DEF Schedule, Go, Steps, TypeOK

LEMMA FaultType == ASSUME TypeOK, NEW f, Fault(f) PROVE faults' \in 0..MaxFaults
BY GateAssumption DEF TypeOK, Fault

LEMMA GoType ==
  ASSUME TypeOK, NEW k \in Probes, NEW pc \in Steps, NEW ok \in BOOLEAN, Go(k, pc, ok)
  PROVE  job' \in [Probes -> [pc: Steps, ok: BOOLEAN, waiting: BOOLEAN]]
BY DEF TypeOK, Go

LEMMA ForgottenType ==
  ASSUME TypeOK
  PROVE  Forgotten \in [Probes -> [pc: Steps, ok: BOOLEAN, waiting: BOOLEAN]]
BY DEF TypeOK, Forgotten, NewJob, Steps

\* The state keeps its type.
LEMMA TypeStep == TypeOK /\ [Next]_vars => TypeOK'
<1> SUFFICES ASSUME TypeOK, [Next]_vars
             PROVE  TypeOK'
  OBVIOUS
<1>0. /\ {"launcher", "dashboard", "monitor"} \subseteq Processes
      /\ MaxFaults \in Nat
  BY GateAssumption DEF Processes
<1>1. ASSUME NEW k \in Keys, Due(k) PROVE TypeOK'
  BY <1>1, ScheduleType DEF Due, TypeOK
<1>2. ASSUME NEW k \in Keys, Run(k) PROVE TypeOK'
  <2>1. Marked(Read("launcher"), k, "running") \in Gates
    BY <1>0, ReadIsGate, GateOps DEF Phases
  <2>2. gate' \in Gates /\ hand' \in [Processes -> SUBSET Gates]
    BY <1>0, <1>2, <2>1, WriteType DEF Run
  <2> QED
    BY <1>2, <2>2, KeyFacts, ZenonT(60) DEF Run, TypeOK, Steps
<1>3. ASSUME NEW k \in Keys, Enter(k) PROVE TypeOK'
  <2>1. (IF cooldown THEN "recording" ELSE "asking") \in Steps /\ FALSE \in BOOLEAN
    BY DEF Steps
  <2>2. job' \in [Probes -> [pc: Steps, ok: BOOLEAN, waiting: BOOLEAN]]
    BY <1>3, <2>1, KeyFacts, GoType DEF Enter
  <2> QED
    BY <1>3, <2>2 DEF Enter, TypeOK
<1>4. ASSUME NEW k \in Keys, Deadline(k) PROVE TypeOK'
  <2>1. Recorded(Read("launcher"), k, FALSE) \in Gates
    BY <1>0, ReadIsGate, GateOps
  <2>2. gate' \in Gates /\ hand' \in [Processes -> SUBSET Gates]
    BY <1>0, <1>4, <2>1, WriteType DEF Deadline
  <2> QED
    BY <1>4, <2>2, KeyFacts, ZenonT(60) DEF Deadline, Seen, TypeOK, Steps
<1>5. ASSUME NEW k \in Probes, AnswerOk(k) \/ AnswerError(k) \/ AnswerLimited(k)
      PROVE  TypeOK'
  <2>1. job' \in [Probes -> [pc: Steps, ok: BOOLEAN, waiting: BOOLEAN]]
    BY <1>5, GoType DEF AnswerOk, AnswerError, AnswerLimited, Steps
  <2>2. CASE AnswerOk(k)
    BY <2>1, <2>2 DEF AnswerOk, TypeOK
  <2>3. CASE AnswerError(k)
    BY <2>1, <2>3, FaultType DEF AnswerError, TypeOK
  <2>4. CASE AnswerLimited(k)
    BY <2>1, <2>4, FaultType DEF AnswerLimited, Seen, TypeOK
  <2> QED
    BY <1>5, <2>2, <2>3, <2>4
<1>6. ASSUME NEW k \in Probes, Latch(k) PROVE TypeOK'
  <2>1. Latched(Read(ProcessOf(k))) \in Gates
    BY KeyFacts, ReadIsGate, GateOps
  <2>2. gate' \in Gates /\ hand' \in [Processes -> SUBSET Gates]
    BY <1>6, <2>1, KeyFacts, WriteType DEF Latch
  <2> QED
    BY <1>6, <2>2 DEF Latch, Go, TypeOK, Steps
<1>7. ASSUME NEW k \in Probes, Record(k) PROVE TypeOK'
  <2>1. job[k].ok \in BOOLEAN
    BY DEF TypeOK
  <2>2. Recorded(Read(ProcessOf(k)), k, job[k].ok) \in Gates
    BY <2>1, KeyFacts, ReadIsGate, GateOps
  <2>3. gate' \in Gates /\ hand' \in [Processes -> SUBSET Gates]
    BY <1>7, <2>2, KeyFacts, WriteType DEF Record
  <2> QED
    BY <1>7, <2>3 DEF Record, Seen, TypeOK, Steps
<1>8. CASE Recheck
  <2>1. Suppressed(Read("dashboard")) \in Gates
    BY <1>0, ReadIsGate, GateOps
  <2>2. gate' \in Gates /\ hand' \in [Processes -> SUBSET Gates]
    BY <1>0, <1>8, <2>1, WriteType DEF Recheck, TypeOK
  <2>3. job' \in [Probes -> [pc: Steps, ok: BOOLEAN, waiting: BOOLEAN]]
    <3>1. CASE job' = job
      BY <3>1 DEF TypeOK
    <3>2. CASE Go(Dash, "asking", FALSE)
      BY <3>2, KeyFacts, GoType DEF Steps
    <3> QED
      BY <1>8, <3>1, <3>2 DEF Recheck
  <2> QED
    BY <1>8, <2>2, <2>3 DEF Recheck, TypeOK
<1>9. CASE ClearCooldown \/ ResumeCheck
  <2>1. CASE ClearCooldown
    <3>1. job' \in [Probes -> [pc: Steps, ok: BOOLEAN, waiting: BOOLEAN]]
      BY <2>1, KeyFacts, GoType DEF ClearCooldown, Steps
    <3> QED
      BY <2>1, <3>1 DEF ClearCooldown, TypeOK
  <2>2. CASE ResumeCheck
    BY <2>2, FaultType DEF ResumeCheck, Once, TypeOK
  <2> QED
    BY <1>9, <2>1, <2>2
<1>10. CASE Resume \/ ResumeApply
  <2>1. Unlatched(Read("dashboard")) \in Gates
    BY <1>0, ReadIsGate, GateOps
  <2>2. gate' \in Gates /\ hand' \in [Processes -> SUBSET Gates]
    BY <1>0, <1>10, <2>1, WriteType DEF Resume, ResumeApply
  <2> QED
    BY <1>10, <2>2 DEF Resume, ResumeApply, TypeOK
<1>11. ASSUME NEW r \in Rows, Tick(r) \/ Worker(r) PROVE TypeOK'
  <2>1. CASE Check(r) \/ Claim(r) \/ Start(r)
    BY <2>1 DEF Check, Claim, Start, TypeOK
  <2>2. CASE Request(r)
    BY <2>2, KeyFacts, ScheduleType DEF Request, TypeOK
  <2>3. CASE Look(r) \/ NextAttempt(r)
    BY <2>3 DEF Look, NextAttempt, TypeOK
  <2> QED
    BY <1>11, <2>1, <2>2, <2>3 DEF Tick, Worker
<1>12. ASSUME NEW r \in Rows, Missed(r) PROVE TypeOK'
  BY <1>12 DEF Missed, TypeOK
<1>13. CASE LoseSight
  <2>1. Latched(Read("launcher")) \in Gates
    BY <1>0, ReadIsGate, GateOps
  <2>2. gate' \in Gates /\ hand' \in [Processes -> SUBSET Gates]
    BY <1>0, <1>13, <2>1, WriteType DEF LoseSight
  <2> QED
    BY <1>13, <2>2, FaultType DEF LoseSight, Seen, TypeOK
<1>14. CASE MonitorLimited \/ CooldownEnds
  <2>1. CASE MonitorLimited
    BY <2>1, FaultType DEF MonitorLimited, Seen, TypeOK
  <2>2. CASE CooldownEnds
    BY <2>2 DEF CooldownEnds, TypeOK
  <2> QED
    BY <1>14, <2>1, <2>2
<1>15. CASE MonitorLatch
  <2>1. Latched(Read("monitor")) \in Gates
    BY <1>0, ReadIsGate, GateOps
  <2>2. gate' \in Gates /\ hand' \in [Processes -> SUBSET Gates]
    BY <1>0, <1>15, <2>1, WriteType DEF MonitorLatch
  <2> QED
    BY <1>15, <2>2 DEF MonitorLatch, TypeOK
<1>16. CASE GoesStale
  <2>1. gate' \in Gates
    BY <1>16, GateOps DEF GoesStale, TypeOK
  <2>2. ASSUME NEW p \in Processes
        PROVE  {[g EXCEPT !.fresh = FALSE] : g \in hand[p]} \subseteq Gates
    BY GateOps DEF TypeOK
  <2>3. hand' \in [Processes -> SUBSET Gates]
    BY <1>16, <2>2 DEF GoesStale
  <2> QED
    BY <1>16, <2>1, <2>3 DEF GoesStale, TypeOK
<1>17. CASE Restart
  <2>1. Abandoned \in [Rows -> {"pending", "claimed", "started", "ordering", "stopped", "missed"}]
    BY DEF Abandoned, TypeOK
  <2> QED
    BY <1>0, <1>17, <2>1, FaultType, ForgottenType DEF Restart, TypeOK
<1>18. CASE NewDay
  <2>1. NewGate(cooldown) \in Gates
    BY NewGateType DEF TypeOK
  <2>2. gate' \in Gates /\ hand' \in [Processes -> SUBSET Gates]
    BY <1>0, <1>18, <2>1, WriteType DEF NewDay
  <2> QED
    BY <1>18, <2>2, FaultType, ForgottenType DEF NewDay, TypeOK
<1>19. ASSUME NEW p \in Processes, ReadEarly(p) PROVE TypeOK'
  <2>1. hand' \in [Processes -> SUBSET Gates]
    BY <1>19 DEF ReadEarly, TypeOK
  <2> QED
    BY <1>19, <2>1, FaultType DEF ReadEarly, Once, TypeOK
<1>20. CASE UNCHANGED vars
  BY <1>20 DEF vars, TypeOK
<1> QED
  BY <1>1, <1>2, <1>3, <1>4, <1>5, <1>6, <1>7, <1>8, <1>9, <1>10, <1>11, <1>12, <1>13,
     <1>14, <1>15, <1>16, <1>17, <1>18, <1>19, <1>20 DEF Next

-----------------------------------------------------------------------------
(* Who owes a latch. *)

LEMMA ApartReads ==
  ASSUME TypeOK, Apart, NEW p \in Processes
  PROVE  Read(p) = gate /\ \A g : Write(p, g) => gate' = g /\ hand' = hand
BY DEF TypeOK, Apart, Read, Write

\* a step of a probe that leaves the monitor alone and does not end at "cooling"
LEMMA LessCooling ==
  ASSUME TypeOK, monitor' = monitor,
         \A k \in Probes : job'[k].pc = "cooling" => job[k].pc = "cooling"
  PROVE  Cooling' => Cooling
BY DEF Cooling

\* and one that leaves every probe that is "cooling" there
LEMMA SameCooling ==
  ASSUME TypeOK, monitor' = monitor,
         \A k \in Probes : job'[k].pc = "cooling" <=> job[k].pc = "cooling"
  PROVE  Cooling' <=> Cooling
BY DEF Cooling

LEMMA Quiet ==
  ASSUME Calm, cooldown' = cooldown, since' = since, Cooling' <=> Cooling,
         gate'.latched = gate.latched, gate'.rest = gate.rest
  PROVE  Calm'
BY DEF Calm, Owed, Closed, NotYet

\* A new trouble whose latch is written with it.
LEMMA Shut ==
  ASSUME Calm, cooldown' = cooldown, since' = "trouble", Cooling' => Cooling,
         gate'.latched = TRUE, gate'.rest = "failed"
  PROVE  Calm'
BY DEF Calm, Owed, Closed, NotYet

LEMMA GateFields ==
  ASSUME NEW g \in Gates
  PROVE  /\ Latched(g).latched = TRUE /\ Latched(g).rest = "failed"
         /\ Unlatched(g).latched = FALSE /\ Unlatched(g).rest = g.rest
         /\ Suppressed(g).latched = g.latched /\ Suppressed(g).rest = g.rest
BY DEF Gates, Latched, Unlatched, Suppressed, Marked

LEMMA MarkedFields ==
  ASSUME NEW g \in Gates, NEW k, NEW phase
  PROVE  Marked(g, k, phase).latched = g.latched /\ Marked(g, k, phase).rest = g.rest
BY DEF Gates, Marked

LEMMA RecordedFields ==
  ASSUME NEW g \in Gates, NEW k
  PROVE  /\ Recorded(g, k, FALSE).latched = TRUE /\ Recorded(g, k, FALSE).rest = "failed"
         /\ Recorded(g, k, TRUE).latched = g.latched /\ Recorded(g, k, TRUE).rest = "healthy"
<1>1. g.latched \in BOOLEAN
  BY DEF Gates
<1> QED
  BY <1>1, RecordedIs, ZenonT(40)

LEMMA ScheduleQuiet ==
  ASSUME TypeOK, Apart, Calm, NEW k \in Keys, Schedule(k),
         UNCHANGED <<cooldown, monitor, resume, since>>
  PROVE  Apart' /\ Calm'
<1>1. "launcher" \in Processes /\ k \in Probes /\ gate \in Gates
  BY KeyFacts DEF Processes, TypeOK
<1>2. gate' = Marked(gate, k, "scheduled") /\ hand' = hand
  BY <1>1, ApartReads DEF Schedule
<1>3. gate'.latched = gate.latched /\ gate'.rest = gate.rest
  BY <1>1, <1>2, MarkedFields
<1>4. Cooling' <=> Cooling
  <2>1. \A j \in Probes : job'[j].pc = "cooling" <=> job[j].pc = "cooling"
    BY <1>1 DEF Schedule, At, Go, TypeOK
  <2> QED
    BY <2>1, SameCooling
<1>5. Calm'
  BY <1>3, <1>4, Quiet
<1> QED
  BY <1>2, <1>5 DEF Apart

\* Apart from overlaps the gate is closed after a trouble, and stays so until it may open.
LEMMA CalmStep ==
  ASSUME TypeOK, Apart, Calm, ~Overlap, [Next]_vars
  PROVE  Apart' /\ Calm'
<1>0. {"launcher", "dashboard", "monitor"} \subseteq Processes /\ gate \in Gates
  BY DEF Processes, TypeOK
<1>1. ASSUME NEW k \in Keys, Due(k) PROVE Apart' /\ Calm'
  BY <1>1, ScheduleQuiet DEF Due
<1>2. ASSUME NEW k \in Keys, Run(k) PROVE Apart' /\ Calm'
  <2>1. gate' = Marked(gate, k, "running") /\ hand' = hand
    BY <1>0, <1>2, ApartReads DEF Run
  <2>2. gate'.latched = gate.latched /\ gate'.rest = gate.rest
    BY <1>0, <2>1, MarkedFields
  <2>3. \A j \in Probes : job'[j].pc = "cooling" <=> job[j].pc = "cooling"
    BY <1>2, KeyFacts DEF Run, At, TypeOK
  <2> QED
    BY <1>2, <2>1, <2>2, <2>3, SameCooling, Quiet DEF Run, Apart
<1>3. ASSUME NEW k \in Keys, Enter(k) PROVE Apart' /\ Calm'
  <2>1. \A j \in Probes : job'[j].pc = "cooling" <=> job[j].pc = "cooling"
    BY <1>3, KeyFacts DEF Enter, At, Go, TypeOK
  <2> QED
    BY <1>3, <2>1, SameCooling, Quiet DEF Enter, Apart
<1>4. ASSUME NEW k \in Keys, Deadline(k) PROVE Apart' /\ Calm'
  <2>1. gate' = Recorded(gate, k, FALSE) /\ hand' = hand
    BY <1>0, <1>4, ApartReads DEF Deadline
  <2>2. gate'.latched = TRUE /\ gate'.rest = "failed"
    BY <1>0, <2>1, RecordedFields
  <2>3. \A j \in Probes : job'[j].pc = "cooling" => job[j].pc = "cooling"
    BY <1>4, KeyFacts DEF Deadline, TypeOK
  <2>4. since' = "trouble"
    BY <1>4 DEF Deadline, Seen
  <2> QED
    BY <1>4, <2>1, <2>2, <2>3, <2>4, LessCooling, Shut DEF Deadline, Apart
<1>5. ASSUME NEW k \in Probes, AnswerOk(k) \/ AnswerError(k) PROVE Apart' /\ Calm'
  <2>1. \A j \in Probes : job'[j].pc = "cooling" <=> job[j].pc = "cooling"
    BY <1>5 DEF AnswerOk, AnswerError, At, Go, TypeOK
  <2> QED
    BY <1>5, <2>1, SameCooling, Quiet DEF AnswerOk, AnswerError, Apart
<1>6. ASSUME NEW k \in Probes, AnswerLimited(k) PROVE Apart' /\ Calm'
  <2>1. Cooling'
    BY <1>6 DEF AnswerLimited, Go, Cooling, TypeOK
  <2>2. cooldown' = TRUE /\ since' = "trouble" /\ UNCHANGED <<gate, hand, resume>>
    BY <1>6 DEF AnswerLimited, Seen
  <2> QED
    BY <2>1, <2>2 DEF Apart, Calm, Owed, Closed, NotYet
<1>7. ASSUME NEW k \in Probes, Latch(k) PROVE Apart' /\ Calm'
  <2>1. gate' = Latched(gate) /\ hand' = hand
    BY <1>7, KeyFacts, ApartReads DEF Latch
  <2>2. gate'.latched = TRUE /\ gate'.rest = "failed"
    BY <1>0, <2>1, GateFields
  <2>3. \A j \in Probes : job'[j].pc = "cooling" => job[j].pc = "cooling"
    BY <1>7 DEF Latch, Go, TypeOK
  <2>4. Cooling /\ (Cooling' => Cooling)
    BY <1>7, <2>3, LessCooling DEF Latch, At, Cooling
  <2> QED
    BY <1>7, <2>1, <2>2, <2>4 DEF Latch, Apart, Calm, Owed, Closed, NotYet
<1>8. ASSUME NEW k \in Probes, Record(k) PROVE Apart' /\ Calm'
  <2>1. gate' = Recorded(gate, k, job[k].ok) /\ hand' = hand
    BY <1>8, KeyFacts, ApartReads DEF Record
  <2>2. \A j \in Probes : job'[j].pc = "cooling" <=> job[j].pc = "cooling"
    BY <1>8 DEF Record, At, TypeOK
  <2>3. Cooling' <=> Cooling
    BY <1>8, <2>2, SameCooling DEF Record
  <2>4. CASE job[k].ok = FALSE
    <3>0. gate' = Recorded(gate, k, FALSE)
      BY <2>1, <2>4
    <3>1. gate'.latched = TRUE /\ gate'.rest = "failed"
      BY <1>0, <3>0, RecordedFields
    <3>2. since' = "trouble"
      BY <1>8, <2>4 DEF Record, Seen
    <3> QED
      BY <1>8, <2>1, <2>3, <3>1, <3>2, Shut DEF Record, Apart
  <2>5. CASE job[k].ok = TRUE
    <3>0. gate' = Recorded(gate, k, TRUE)
      BY <2>1, <2>5
    <3>1. gate'.latched = gate.latched /\ gate'.rest = "healthy"
      BY <1>0, <3>0, RecordedFields
    <3>2. since' = IF since = "trouble" THEN "recovered" ELSE since
      BY <1>8, <2>5 DEF Record, Seen
    <3>3. cooldown' = cooldown /\ resume' = resume
      BY <1>8 DEF Record
    <3> QED
      BY <2>1, <2>3, <3>1, <3>2, <3>3 DEF Apart, Calm, Owed, Closed, NotYet
  <2> QED
    BY <2>4, <2>5 DEF TypeOK
<1>9. CASE Recheck
  <2>1. \A j \in Probes : job'[j].pc = "cooling" <=> job[j].pc = "cooling"
    BY <1>9, KeyFacts, SMTT(40) DEF Recheck, At, Go, TypeOK
  <2>2. hand' = hand /\ (gate' = gate \/ gate' = Suppressed(gate))
    BY <1>0, <1>9, ApartReads DEF Recheck
  <2>3. gate'.latched = gate.latched /\ gate'.rest = gate.rest
    BY <1>0, <2>2, GateFields
  <2> QED
    BY <1>9, <2>1, <2>2, <2>3, SameCooling, Quiet DEF Recheck, Apart
<1>10. CASE ClearCooldown
  <2>1. \A j \in Probes : job'[j].pc = "cooling" => job[j].pc = "cooling"
    BY <1>10, KeyFacts DEF ClearCooldown, Go, TypeOK
  <2>2. ~Cooling /\ (Cooling' => Cooling)
    BY <1>10, <2>1, LessCooling DEF ClearCooldown
  <2> QED
    BY <1>10, <2>2 DEF ClearCooldown, Apart, Calm, Owed, Closed, NotYet
<1>11. CASE ResumeCheck \/ ResumeApply \/ \E p \in Processes : ReadEarly(p)
  BY <1>11 DEF ResumeCheck, ResumeApply, ReadEarly, Once, Fault, Overlap, Apart
<1>12. CASE Resume
  <2>1. gate' = Unlatched(gate) /\ hand' = hand
    BY <1>0, <1>12, ApartReads DEF Resume
  <2>2. gate'.latched = FALSE
    BY <1>0, <2>1, GateFields
  <2>3. \A j \in Probes : job'[j].pc = "cooling" => job[j].pc = "cooling"
    BY <1>12 DEF Resume
  <2>4. ~Cooling'
    BY <1>12, <2>3, LessCooling DEF Resume, MayResume, Calm, Owed
  <2> QED
    BY <1>12, <2>1, <2>2, <2>4 DEF Resume, Apart, Calm, Owed, Closed, NotYet
<1>13. ASSUME NEW r \in Rows, Tick(r) \/ Worker(r) PROVE Apart' /\ Calm'
  <2>1. CASE Check(r) \/ Claim(r) \/ Start(r)
    BY <2>1, SameCooling, Quiet DEF Check, Claim, Start, Apart
  <2>2. CASE Request(r)
    BY <2>2, KeyFacts, ScheduleQuiet DEF Request
  <2>3. CASE Look(r) \/ NextAttempt(r)
    BY <2>3, SameCooling, Quiet DEF Look, NextAttempt, Apart
  <2> QED
    BY <1>13, <2>1, <2>2, <2>3 DEF Tick, Worker
<1>14. ASSUME NEW r \in Rows, Missed(r) PROVE Apart' /\ Calm'
  BY <1>14, SameCooling, Quiet DEF Missed, Apart
<1>15. CASE LoseSight
  <2>1. gate' = Latched(gate) /\ hand' = hand
    BY <1>0, <1>15, ApartReads DEF LoseSight
  <2>2. gate'.latched = TRUE /\ gate'.rest = "failed"
    BY <1>0, <2>1, GateFields
  <2>3. since' = "trouble" /\ (Cooling' => Cooling)
    BY <1>15, LessCooling DEF LoseSight, Seen
  <2> QED
    BY <1>15, <2>1, <2>2, <2>3, Shut DEF LoseSight, Apart
<1>16. CASE MonitorLimited
  <2>1. Cooling' /\ cooldown' = TRUE /\ since' = "trouble" /\ UNCHANGED <<gate, hand, resume>>
    BY <1>16 DEF MonitorLimited, Seen, Cooling
  <2> QED
    BY <2>1 DEF Apart, Calm, Owed, Closed, NotYet
<1>17. CASE MonitorLatch
  <2>1. gate' = Latched(gate) /\ hand' = hand
    BY <1>0, <1>17, ApartReads DEF MonitorLatch
  <2>2. gate'.latched = TRUE /\ gate'.rest = "failed"
    BY <1>0, <2>1, GateFields
  <2>3. Cooling
    BY <1>17 DEF MonitorLatch, Cooling
  <2> QED
    BY <1>17, <2>1, <2>2, <2>3 DEF MonitorLatch, Apart, Calm, Owed, Closed, NotYet
<1>18. CASE CooldownEnds
  <2>1. ~Cooling /\ ~Cooling'
    BY <1>18, LessCooling DEF CooldownEnds
  <2> QED
    BY <1>18, <2>1 DEF CooldownEnds, Apart, Calm, Owed, Closed, NotYet
<1>19. CASE GoesStale
  <2>1. gate'.latched = gate.latched /\ gate'.rest = gate.rest
    BY <1>0, <1>19 DEF GoesStale, Gates
  <2>2. hand' = hand
    BY <1>19 DEF GoesStale, Apart
  <2> QED
    BY <1>19, <2>1, <2>2, SameCooling, Quiet DEF GoesStale, Apart
<1>20. CASE Restart
  <2>1. ~Cooling /\ \A j \in Probes : job'[j].pc = "cooling" => job[j].pc = "cooling"
    BY <1>20 DEF Restart, Forgotten, NewJob
  <2>2. ~Cooling'
    BY <1>20, <2>1, LessCooling DEF Restart
  <2>3. hand' = hand
    BY <1>20 DEF Restart, Apart
  <2> QED
    BY <1>20, <2>1, <2>2, <2>3, Quiet DEF Restart, Apart
<1>21. CASE NewDay
  <2>1. \A j \in Probes : job'[j].pc = "cooling" => job[j].pc = "cooling"
    BY <1>21 DEF NewDay, Forgotten, NewJob
  <2>2. Cooling' => Cooling
    BY <1>21, <2>1, LessCooling DEF NewDay
  <2>3. gate' = NewGate(cooldown) /\ hand' = hand
    BY <1>0, <1>21, ApartReads DEF NewDay
  <2>4. /\ gate'.latched = cooldown
        /\ gate'.rest = IF cooldown THEN "failed" ELSE "unknown"
    BY <2>3 DEF NewGate
  <2>5. cooldown' = cooldown /\ resume' = resume /\ since' = IF cooldown THEN "trouble" ELSE "calm"
    BY <1>21 DEF NewDay
  <2> QED
    BY <2>2, <2>3, <2>4, <2>5 DEF Apart, Calm, Owed, Closed, NotYet
<1>22. CASE UNCHANGED vars
  BY <1>22, SameCooling, Quiet DEF vars, Apart
<1> QED
  BY <1>1, <1>2, <1>3, <1>4, <1>5, <1>6, <1>7, <1>8, <1>9, <1>10, <1>11, <1>12, <1>13,
     <1>14, <1>15, <1>16, <1>17, <1>18, <1>19, <1>20, <1>21, <1>22 DEF Next

-----------------------------------------------------------------------------
(* The theorems. *)

LEMMA InitInv == Init => IInv
<1> SUFFICES ASSUME Init PROVE IInv
  OBVIOUS
<1>1. TypeOK
  <2>1. gate \in Gates
    BY NewGateType DEF Init
  <2>2. job \in [Probes -> [pc: Steps, ok: BOOLEAN, waiting: BOOLEAN]]
    BY DEF Init, NewJob, Steps
  <2>3. faults \in 0..MaxFaults
    BY GateAssumption DEF Init
  <2>4. hand \in [Processes -> SUBSET Gates]
    BY DEF Init
  <2> QED
    BY <2>1, <2>2, <2>3, <2>4 DEF Init, TypeOK
<1>2. Apart /\ Calm
  BY DEF Init, NewGate, Apart, Calm, Owed, Closed, NotYet, Cooling, NewJob
<1> QED
  BY <1>1, <1>2 DEF IInv

LEMMA StepInv == IInv /\ [Next]_vars => IInv'
<1> SUFFICES ASSUME IInv, [Next]_vars PROVE IInv'
  OBVIOUS
<1>1. TypeOK'
  BY TypeStep DEF IInv
<1>2. scen' = scen
  BY DEF Next, vars, Due, Run, Enter, Deadline, AnswerOk, AnswerError, AnswerLimited, Latch,
         Record, Recheck, ClearCooldown, Resume, ResumeCheck, ResumeApply, Tick, Check, Claim,
         Start, Request, Worker, Look, NextAttempt, Missed, LoseSight, MonitorLimited, MonitorLatch, CooldownEnds, GoesStale,
         Restart, NewDay, ReadEarly
<1>3. ~Overlap => Apart' /\ Calm'
  BY CalmStep DEF IInv
<1> QED
  BY <1>1, <1>2, <1>3 DEF IInv, Overlap

\* The inductive invariant: types, and who owes the gate a latch.
THEOREM GateInvariant == Spec => []IInv
  BY InitInv, StepInv, PTL DEF Spec

\* Every reachable state has its type.
THEOREM GateTypes == Spec => []TypeOK
<1>1. IInv => TypeOK
  BY DEF IInv
<1> QED
  BY <1>1, GateInvariant, PTL

\* A trouble closes the gate until the operator resumes or a new session begins.
THEOREM GateCloses == Spec => []TroubleCloses
<1>1. IInv => TroubleCloses
  BY DEF IInv, Calm, Owed, Closed, TroubleCloses
<1> QED
  BY <1>1, GateInvariant, PTL

\* Only a worker's own look lets an order through, and only through an open gate.
LEMMA EntryStep ==
  ASSUME IInv, [Next]_vars, NEW r \in Rows, row[r] # "ordering", row'[r] = "ordering"
  PROVE  since = "calm" \/ Overlap
<1>0. row \in [Rows -> {"pending", "claimed", "started", "ordering", "stopped", "missed"}]
  BY DEF IInv, TypeOK
<1>1. row' # row
  OBVIOUS
<1>2. \/ \E q \in Rows : Claim(q) \/ Start(q) \/ NextAttempt(q) \/ Missed(q) \/ Look(q)
      \/ Restart \/ NewDay
  BY <1>1 DEF Next, vars, Due, Run, Enter, Deadline, AnswerOk, AnswerError, AnswerLimited,
         Latch, Record, Recheck, ClearCooldown, Resume, ResumeCheck, ResumeApply, Tick, Check,
         Request, Worker, LoseSight, MonitorLimited, MonitorLatch, CooldownEnds, GoesStale,
         ReadEarly
<1>3. ~Restart /\ ~NewDay
  BY <1>0 DEF Restart, NewDay, Abandoned
<1>4. ASSUME NEW q \in Rows, Claim(q) \/ Start(q) \/ NextAttempt(q) \/ Missed(q) PROVE FALSE
  BY <1>0, <1>4 DEF Claim, Start, NextAttempt, Missed
<1>5. ASSUME NEW q \in Rows, Look(q) PROVE since = "calm" \/ Overlap
  <2>1. ~Blocked
    BY <1>0, <1>5 DEF Look
  <2> QED
    BY <2>1 DEF Blocked, IInv, Calm, Owed, Closed
<1> QED
  BY <1>2, <1>3, <1>4, <1>5

\* No entry worker goes on to an order between a trouble and the operator's resume, also
\* one that was started on a check made before the trouble (effective_new_risk_blocked).
THEOREM EntryNeedsCalm == Spec => NoEntryOnTrouble
<1>1. IInv /\ [Next]_vars =>
        [\A r \in Rows : row[r] # "ordering" /\ row'[r] = "ordering"
                         => since = "calm" \/ Overlap]_vars
  BY EntryStep
<1> QED
  BY <1>1, GateInvariant, PTL DEF Spec, NoEntryOnTrouble

\* Nothing but a resume and a new session clears the latch.
LEMMA LatchStep ==
  ASSUME IInv, [Next]_vars, gate.latched, ~gate'.latched, ~Overlap
  PROVE  NewDay \/ Resume
<1>0. /\ {"launcher", "dashboard", "monitor"} \subseteq Processes /\ gate \in Gates
      /\ TypeOK /\ Apart /\ gate' # gate
  BY DEF IInv, Processes, TypeOK
<1>1. ASSUME NEW k \in Keys, Due(k) \/ Run(k) \/ Request(k) PROVE FALSE
  <2>1. gate' = Marked(gate, k, "scheduled") \/ gate' = Marked(gate, k, "running")
    BY <1>0, <1>1, ApartReads DEF Due, Run, Request, Schedule
  <2> QED
    BY <1>0, <2>1, MarkedFields
<1>2. ASSUME NEW k \in Keys, Deadline(k) PROVE FALSE
  <2>1. gate' = Recorded(gate, k, FALSE)
    BY <1>0, <1>2, ApartReads DEF Deadline
  <2> QED
    BY <1>0, <2>1, RecordedFields
<1>3. ASSUME NEW k \in Probes, Record(k) PROVE FALSE
  <2>1. gate' = Recorded(gate, k, job[k].ok)
    BY <1>0, <1>3, KeyFacts, ApartReads DEF Record
  <2>2. gate' = Recorded(gate, k, TRUE) \/ gate' = Recorded(gate, k, FALSE)
    BY <2>1, <1>0 DEF TypeOK
  <2> QED
    BY <1>0, <2>2, RecordedFields
<1>4. ASSUME NEW k \in Probes, Latch(k) PROVE FALSE
  <2>1. gate' = Latched(gate)
    BY <1>0, <1>4, KeyFacts, ApartReads DEF Latch
  <2> QED
    BY <1>0, <2>1, GateFields
<1>5. ~LoseSight /\ ~MonitorLatch
  <2>1. LoseSight \/ MonitorLatch => gate' = Latched(gate)
    BY <1>0, ApartReads DEF LoseSight, MonitorLatch
  <2>2. Latched(gate).latched
    BY <1>0, GateFields
  <2> QED
    BY <2>1, <2>2
<1>6. ~Recheck
  <2>1. Recheck => gate' = gate \/ gate' = Suppressed(gate)
    BY <1>0, ApartReads DEF Recheck
  <2>2. Suppressed(gate).latched = gate.latched
    BY <1>0, GateFields
  <2> QED
    BY <1>0, <2>1, <2>2
<1>7. ~GoesStale
  BY <1>0 DEF GoesStale, Gates
<1>8. ~ResumeApply
  BY <1>0 DEF ResumeApply, Apart
<1>9. Rows \subseteq Keys
  BY KeyFacts
<1> QED
  BY <1>0, <1>1, <1>2, <1>3, <1>4, <1>5, <1>6, <1>7, <1>8, <1>9
     DEF Next, vars, Enter, AnswerOk, AnswerError, AnswerLimited, ClearCooldown, ResumeCheck,
         Tick, Check, Claim, Start, Worker, Look, NextAttempt, Missed, MonitorLimited, CooldownEnds, Restart, ReadEarly

\* The latch is cleared by a new session, or on a success recorded after the last trouble.
THEOREM LatchStays == Spec => LatchSticks
<1>1. ASSUME IInv, [Next]_vars, gate.latched, ~gate'.latched
      PROVE  NewDay \/ (since = "recovered" /\ ~cooldown /\ ~blind) \/ Overlap
  <2>1. CASE Resume /\ ~Overlap
    BY <1>1, <2>1 DEF Resume, MayResume, IInv, TypeOK, Calm, Owed, Closed, NotYet
  <2> QED
    BY <1>1, <2>1, LatchStep
<1>2. IInv /\ [Next]_vars =>
        [gate.latched /\ ~gate'.latched
           => NewDay \/ (since = "recovered" /\ ~cooldown /\ ~blind) \/ Overlap]_vars
  BY <1>1
<1> QED
  BY <1>2, GateInvariant, PTL DEF Spec, LatchSticks

=============================================================================
