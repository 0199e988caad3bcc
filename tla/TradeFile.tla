----------------------------- MODULE TradeFile -----------------------------
(***************************************************************************)
(* The JSON files of one MEIC credit spread and of the lots split from it. *)
(* The stop supervisor keeps a copy of every active file and merges what   *)
(* others wrote; the dashboard scales contracts out into a file of their   *)
(* own and switches the stops between stop-limit and OCO; the operator     *)
(* marks a spread as closed by hand; at expiry the supervisor and the      *)
(* session cleanup settle or freeze what is left, and the next morning     *)
(* archives it.  Orders go to the broker or, on paper, to the journal,     *)
(* whose orders fill only when somebody asks for their status.             *)
(*                                                                         *)
(* Prices are not modelled: a working order may fill whenever its broker   *)
(* allows it.  One scan of a file is one step; how a partial fill, a       *)
(* breach or a close command goes on is the subject of TradeExit and       *)
(* ExitCommands.  The setting PAPER_MODE is taken to agree with the trade; *)
(* PaperMode is about where it does not.                                   *)
(***************************************************************************)
EXTENDS Integers, Sequences, FiniteSets, FiniteSetsExt

CONSTANTS Qty,        \* contracts of the spread
          FileOrders, MaxEdits, FileFaults,  \* bounds: orders, edits from outside, failures
          FileScenes   \* each what may go wrong in a run

ASSUME TradeFileAssumption ==
  /\ Qty \in Nat \ {0, 1} /\ {FileOrders, MaxEdits, FileFaults} \subseteq Nat
  /\ UNION FileScenes \subseteq {"refuse", "nocancel", "unsaved", "restart", "overlap", "again", "holding", "late"}

Lots == {"p", "s1", "s2"}   \* the spread and the lots split from it
OverLots(Of(_)) == Of("p") + Of("s1") + Of("s2")

VARIABLES
  paper,   \* the trade's orders go to the journal
  oco,     \* the setting use_oco_15c
  act,     \* the files in trades/active, by lot
  hist,    \* the status of the files in trades/history
  mem,     \* the supervisor's slots
  fresh,   \* disk_mtime of the slot is the file's
  skip,    \* _ineligible_paths
  todo,    \* slots still to be scanned in this cycle
  placed,  \* the orders placed, in order
  pos,     \* short and long contracts in the account or, on paper, in a ledger of the fills
  job,     \* the dashboard's scale-out
  phase,   \* day, expired or next morning; spx: the settlement price is known
  spx,
  edits, luck

filevars == <<paper, oco, act, hist, mem, fresh, skip, todo, placed, pos, job, phase, spx, edits, luck>>
files == <<act, hist>>
slots == <<mem, fresh, skip, todo>>
clock == <<phase, spx>>

\* q is filled_quantity, hold is holding_quantity (0: not in the file), sid and ok are the order and status of
\* active_stop, sq is stop_quantity, des tells that a designated_stop_price is known.
NoFile == [st |-> "none", q |-> 0, hold |-> 0, sid |-> 0, ok |-> FALSE, sq |-> 0, des |-> FALSE, froz |-> FALSE]
File(q) == [NoFile EXCEPT !.st = "open", !.q = q]
Cleared(f) == [f EXCEPT !.sid = 0, !.ok = FALSE, !.sq = 0]
Closed(f) == [Cleared(f) EXCEPT !.st = "closed"]
NoJob == [step |-> "idle"]

\* the processes' journals: the supervisor's, and two of the dashboard, for scale-outs and for the OCO switch
Journals == {"sup", "scale", "switch"}

Can(f) == f \in luck.of /\ luck.left > 0
Spend(n) == luck' = [luck EXCEPT !.left = @ - n]
Bad == {"none"} \cup {f \in (IF paper THEN {"unsaved"} ELSE {"refuse", "nocancel"}) : Can(f)}
Pay(bad) == Spend(IF bad = "none" THEN 0 ELSE 1)
Between == (todo = {} /\ job = NoJob) \/ "overlap" \in luck.of

FileInit ==
  /\ paper \in BOOLEAN /\ oco \in BOOLEAN
  /\ act = [l \in Lots |-> IF l = "p" THEN File(Qty) ELSE NoFile]
  /\ hist = [l \in Lots |-> "none"] /\ mem = [l \in Lots |-> NoFile]
  /\ fresh = [l \in Lots |-> FALSE] /\ skip = {} /\ todo = {}
  /\ placed = <<>> /\ pos = [short |-> Qty, long |-> Qty]
  /\ job = NoJob /\ phase = "day" /\ spx = FALSE /\ edits = 0
  /\ \E s \in FileScenes : /\ luck = [of |-> s, left |-> FileFaults]
                          /\ IF paper THEN {"refuse", "nocancel"} \cap s = {} ELSE "unsaved" \notin s

-----------------------------------------------------------------------------
(* The broker and the journal *)

Working(os) == {i \in DOMAIN os : os[i].st = "working"}
Claimed(os) == MapThenSumSet(LAMBDA i : os[i].q, Working(os))

\* The broker takes closing orders up to the position, the journal takes every order.
Accepts(os, q, bad) == bad # "refuse" /\ (paper \/ Claimed(os) + q <= pos.short)

\* A journal writes all the orders it knows to the file they share; an order whose write failed is known to its own
\* process until that writes again.  at: where the order is.
Written(os, who) == [i \in DOMAIN os |-> IF os[i].at = who THEN [os[i] EXCEPT !.at = "file"] ELSE os[i]]
Changed(os, i, st, who) ==
  LET w == Written(os, who) IN [j \in DOMAIN os |-> IF j = i THEN [w[j] EXCEPT !.st = st] ELSE w[j]]
Knows(os, i, who) == os[i].at \in {"file", who}
Placed(os, kind, q, bad, who) ==
  Append(IF bad = "unsaved" THEN os ELSE Written(os, who),
         [kind |-> kind, q |-> q, st |-> "working", at |-> IF bad = "unsaved" THEN who ELSE "file"])

\* The journal answers cancelled whatever it knows of the order.
Cancel(os, i, bad, who) ==
  IF i = 0 THEN os
  ELSE IF paper
  THEN IF Knows(os, i, who) THEN Changed(os, i, "cancelled", who) ELSE os
  ELSE IF os[i].st = "working" /\ bad # "nocancel" THEN [os EXCEPT ![i].st = "cancelled"] ELSE os

Spreads == {"spreadoco", "spread", "now"}   \* orders of both legs; now is a limit order filled when it is placed
Taken(i, os) == [short |-> pos.short - os[i].q,
                 long |-> pos.long - (IF os[i].kind \in Spreads THEN os[i].q ELSE 0)]

\* The price reaches a working order at the exchange.
Filling(i) ==
  /\ ~paper /\ phase = "day" /\ i \in Working(placed)
  /\ placed' = [placed EXCEPT ![i].st = "filled"] /\ pos' = Taken(i, placed)
  /\ UNCHANGED <<paper, oco, files, slots, job, clock, edits, luck>>

\* What the supervisor's journal says of an order: one it does not know is rebuilt from the active file that names it
\* as its stop, as an order of the short leg; a working order fills if its price has been reached, a spread OCO never
\* does.
Named(i) == \E l \in Lots : act[l].sid = i
Rebuilt(os, i) ==
  IF Knows(os, i, "sup") THEN os
  ELSE LET w == Written(os, "sup")
       IN  [j \in DOMAIN os |-> IF j = i THEN [w[j] EXCEPT !.at = "file", !.kind = IF @ = "oco" THEN @ ELSE "stop"] ELSE w[j]]
Polled(i, hit) ==
  LET os == Rebuilt(placed, i)
  IN  IF hit /\ os[i].st = "working" /\ os[i].kind # "spreadoco"
      THEN Changed(os, i, "filled", "sup") ELSE os
Answered(i) == ~paper \/ Knows(placed, i, "sup") \/ Named(i)

-----------------------------------------------------------------------------
(* The supervisor: one file *)

\* merge_policy.
Adopts(m, d) == d.sid # 0 /\ d.ok /\ m.sid # d.sid
\* Mutant: filled_quantity is missing from the merged fields.
MergeKeepsQuantity(m, d) == [m EXCEPT !.st = d.st, !.sq = d.sq, !.sid = IF Adopts(m, d) THEN d.sid ELSE @]
\* Mutant: the stop of the file is never adopted.
MergeKeepsStop(m, d) == [m EXCEPT !.st = d.st, !.q = d.q, !.sq = d.sq]
Merge(m, d) ==
  LET n == [m EXCEPT !.st = d.st, !.q = d.q, !.sq = d.sq]
  IN  IF Adopts(m, d) THEN [n EXCEPT !.sid = d.sid, !.ok = TRUE, !.des = @ \/ d.des] ELSE n
Merged(l) == IF fresh[l] \/ act[l] = NoFile THEN mem[l] ELSE Merge(mem[l], act[l])

Current(f) == f.sid # 0 /\ f.ok /\ f.sq = f.q
Eligible(f) == f.st \in {"open", "closing"} /\ ~f.froz /\ (f.st = "open" => f.q > 0)

\* Contracts still short: at the broker the position, on paper what the active files say.
Held == IF paper THEN OverLots(LAMBDA l : IF act[l].st = "open" THEN act[l].q ELSE 0) ELSE pos.short
LongHeld ==
  IF paper THEN OverLots(LAMBDA l : IF act[l].st \in {"open", "closing"} THEN act[l].q ELSE 0) ELSE pos.long

\* Mutant: a trade that is closing is left to its handler.
GateOpenOnly(f) ==
  IF phase = "day" \/ f.st # "open" THEN f
  ELSE IF spx THEN [Closed(f) EXCEPT !.froz = FALSE] ELSE [Cleared(f) EXCEPT !.froz = TRUE]
\* Try to settle an expired trade, freeze it while the price is unknown.
Gate(f) ==
  IF phase = "day" \/ f.st \notin {"open", "closing"} THEN f
  ELSE IF spx THEN [Closed(f) EXCEPT !.froz = FALSE] ELSE [Cleared(f) EXCEPT !.froz = TRUE]

\* _place_short_stop: at a flat position the short leg counts as closed; a refused order makes way for the closing
\* order the broker has.
StopPlaced(f, os, bad) ==
  LET q == IF f.q < Held THEN f.q ELSE Held
      w == IF Working(os) = {} THEN 0 ELSE Min(Working(os))
  IN  IF q <= 0 THEN [f |-> [Cleared(f) EXCEPT !.st = "closing"], os |-> os]
      ELSE IF Accepts(os, q, bad)
      THEN [f |-> [f EXCEPT !.sid = Len(os) + 1, !.ok = TRUE, !.sq = q, !.des = TRUE],
            os |-> Placed(os, IF oco THEN "oco" ELSE "stop", q, bad, "sup")]
      ELSE IF bad # "refuse" /\ w # 0
      THEN [f |-> [f EXCEPT !.sid = w, !.ok = TRUE, !.sq = os[w].q, !.q = os[w].q, !.des = TRUE], os |-> os]
      ELSE [f |-> f, os |-> os]

\* Cancel the stop and place its contracts again as the type wanted, whatever became of the cancel.  An order without
\* a stop price stays.
Retyped(f, os, want, bad, who) ==
  LET c == Cancel(os, f.sid, bad, who)
      q == os[f.sid].q
  IN  IF ~f.des THEN [f |-> f, os |-> os]
      ELSE IF Accepts(c, q, bad)
      THEN [f |-> [f EXCEPT !.sid = Len(c) + 1], os |-> Placed(c, IF want THEN "oco" ELSE "stop", q, bad, who)]
      ELSE [f |-> f, os |-> c]
WrongType(f, os, want) == f.sid # 0 /\ f.ok /\ (os[f.sid].kind = "oco") # want

\* _ensure_stop_for_filled_qty, called for a stop that is not current.
Ensured(f, os, bad) ==
  IF WrongType(f, os, oco) THEN Retyped(f, os, oco, bad, "sup")
  ELSE IF f.sid # 0 /\ f.ok
  THEN IF ~paper /\ bad = "nocancel" THEN [f |-> f, os |-> os]
       ELSE StopPlaced(Cleared(f), Cancel(os, f.sid, bad, "sup"), bad)
  ELSE StopPlaced(Cleared(f), os, bad)

\* Mutant: a stop that is gone stays in the state.
ReconciledFillsOnly(f, os) ==
  IF f.sid # 0 /\ os[f.sid].st = "filled" THEN [f EXCEPT !.st = "closing", !.ok = FALSE] ELSE f
\* _reconcile_active_stop_with_broker.
Reconciled(f, os) ==
  IF f.sid = 0 THEN f
  ELSE CASE os[f.sid].st = "filled" -> [f EXCEPT !.st = "closing", !.ok = FALSE]
         [] os[f.sid].st = "working" -> [f EXCEPT !.ok = TRUE]
         [] OTHER -> Cleared(f)

\* save_slot: a closed trade goes to the history.
Save(l, f) ==
  /\ hist' = IF f.st = "closed" THEN [hist EXCEPT ![l] = "closed"] ELSE hist
  /\ act' = [act EXCEPT ![l] = IF f.st = "closed" THEN NoFile ELSE f]
  /\ mem' = [mem EXCEPT ![l] = f] /\ fresh' = [fresh EXCEPT ![l] = TRUE]

-----------------------------------------------------------------------------
(* The supervisor: a cycle *)

\* Merge or load every active file, drop what needs no scan.
\* Mutant: a slot is kept when its file has gone.
KeptWithoutFile(l) == IF mem[l] # NoFile THEN Eligible(Merged(l))
                      ELSE act[l] # NoFile /\ l \notin skip /\ Eligible(Gate(act[l]))
Kept(l) == IF mem[l] # NoFile THEN act[l] # NoFile /\ Eligible(Merged(l))
           ELSE act[l] # NoFile /\ l \notin skip /\ Eligible(Gate(act[l]))
Loaded(l) == mem[l] = NoFile /\ act[l] # NoFile /\ l \notin skip
Discover ==
  /\ phase # "next" /\ todo = {} /\ (job = NoJob \/ "overlap" \in luck.of)
  /\ act' = [l \in Lots |-> IF Loaded(l) THEN Gate(act[l]) ELSE act[l]]
  /\ mem' = [l \in Lots |-> IF ~Kept(l) THEN NoFile ELSE IF mem[l] # NoFile THEN Merged(l) ELSE act'[l]]
  /\ fresh' = [l \in Lots |-> Kept(l)]
  /\ skip' = {l \in Lots : act[l] # NoFile /\ ~Kept(l)}
  /\ todo' = {l \in Lots : Kept(l)}
  /\ UNCHANGED <<paper, oco, hist, placed, pos, job, clock, edits, luck>>

\* One open file: ask for the stop's status when that is due; then settle or freeze it after the close of the session,
\* or place or resize a stop that is not current.
ScanOpen(l, due, hit, bad) ==
  LET f0 == Merged(l)
      ask == due /\ f0.sid # 0 /\ Answered(f0.sid)
      os == IF ask /\ paper THEN Polled(f0.sid, hit) ELSE placed
      f1 == IF ask THEN Reconciled(f0, os) ELSE f0
      r == CASE f1.st # "open" \/ (phase = "day" /\ Current(f1)) -> [f |-> f1, os |-> os]
             [] f1.st = "open" /\ phase # "day" -> [f |-> Gate(f1), os |-> os]
             [] OTHER -> Ensured(f1, os, bad)
  IN  /\ f0.st = "open" /\ Len(r.os) <= FileOrders
      /\ placed' = r.os
      /\ pos' = IF ask /\ os[f0.sid].st = "filled" /\ placed[f0.sid].st = "working" THEN Taken(f0.sid, os) ELSE pos
      /\ Save(l, r.f)

Scan(l, due) ==
  /\ l \in todo /\ (job = NoJob \/ "overlap" \in luck.of)
  /\ todo' = todo \ {l}
  /\ \/ \E hit \in {due /\ paper, FALSE}, bad \in Bad : ScanOpen(l, due, hit, bad) /\ Pay(bad)
     \/ /\ Merged(l).st # "open"
        /\ mem' = [mem EXCEPT ![l] = Merged(l)] /\ fresh' = [fresh EXCEPT ![l] = TRUE]
        /\ UNCHANGED <<files, placed, pos, luck>>
  /\ UNCHANGED <<paper, oco, skip, job, clock, edits>>

\* long_qty_for_state
LongQty(f) == IF f.hold # 0 THEN f.hold ELSE f.q

\* Mutant: the chase sells every long contract of the strike.
FinishAll(l) ==
  /\ phase = "day" /\ mem[l].st = "closing" /\ (job = NoJob \/ "overlap" \in luck.of)
  /\ pos' = [pos EXCEPT !.long = @ - LongHeld]
  /\ Save(l, Closed(mem[l]))
  /\ UNCHANGED <<paper, oco, skip, todo, placed, job, clock, edits, luck>>

\* The long chase of a closing trade: it sells the contracts of the trade that are still there and closes the file.
\* It does not ask whether the options have expired; then there is nothing left to sell.
Finish(l) ==
  LET n == IF LongQty(mem[l]) < LongHeld THEN LongQty(mem[l]) ELSE LongHeld
  IN  /\ phase # "next" /\ mem[l].st = "closing" /\ (job = NoJob \/ "overlap" \in luck.of)
      /\ pos' = IF phase = "day" THEN [pos EXCEPT !.long = @ - n] ELSE pos
      /\ Save(l, Closed(mem[l]))
      /\ UNCHANGED <<paper, oco, skip, todo, placed, job, clock, edits, luck>>

\* What only the supervisor's journal knew is lost.
Restart ==
  /\ Can("restart") /\ Spend(1) /\ phase # "next"
  /\ mem' = [l \in Lots |-> NoFile] /\ fresh' = [l \in Lots |-> FALSE] /\ skip' = {} /\ todo' = {}
  /\ placed' = [i \in DOMAIN placed |-> IF placed[i].at = "sup" THEN [placed[i] EXCEPT !.at = "lost"] ELSE placed[i]]
  /\ UNCHANGED <<paper, oco, files, pos, job, clock, edits>>

-----------------------------------------------------------------------------
(* The dashboard and the operator *)

\* Every write of another process changes the file's mtime.
Wrote(ls) == fresh' = [l \in Lots |-> fresh[l] /\ l \notin ls] /\ skip' = skip \ ls

\* The lot a split gets: one more than the highest index among the active files.
Child == IF act["s2"] # NoFile THEN "none" ELSE IF act["s1"] # NoFile THEN "s2" ELSE "s1"

\* _scale_out_spread_inline: cancel the stop, whatever comes of it, and place the closing order of n contracts, as an
\* OCO or else as a limit order, which may fill at once (the journal always takes the OCO); then a stop for the rest,
\* for which an order that stands in its way is taken over.  A refused closing order puts the stop for all of them back.
\* The dashboard first leaves the work to the supervisor in a command file, which it does not read, and goes on by
\* itself after six seconds.
ScaleOut(n) ==
  LET f == act["p"]
      kind == IF f.sid # 0 /\ placed[f.sid].kind = "oco" THEN "oco" ELSE "stop"
      g == [f EXCEPT !.q = @ - n, !.hold = f.q - n]
  IN  /\ Between /\ job = NoJob /\ phase = "day" /\ edits < MaxEdits /\ edits' = edits + 1
      /\ f.st = "open" /\ f.q > 1 /\ n \in 1..(f.q - 1)
      /\ Child # "none" /\ (hist[Child] = "none" \/ "again" \in luck.of)
      /\ mem["p"].hold = 0 \/ "holding" \in luck.of
      /\ Len(placed) + 2 <= FileOrders
      /\ \E bad \in Bad :
           LET free == Cancel(placed, f.sid, bad, "scale")
               late == ~paper /\ f.sid # 0 /\ placed[f.sid].st = "filled"
           IN  \/ /\ late /\ bad = "none"
                  /\ UNCHANGED <<act, fresh, skip, placed, pos, job, luck>>
               \/ /\ ~late /\ ~Accepts(free, n, bad) /\ Pay(bad)
                  /\ \/ /\ Accepts(free, f.q, "none") /\ f.des
                        /\ act' = [act EXCEPT !["p"].sid = Len(free) + 1, !["p"].ok = TRUE, !["p"].sq = f.q]
                        /\ placed' = Placed(free, kind, f.q, "none", "scale") /\ Wrote({"p"})
                     \/ placed' = free /\ UNCHANGED <<act, fresh, skip>>
                  /\ UNCHANGED <<pos, job>>
               \/ \E k \in IF paper THEN {"spreadoco"} ELSE Spreads :
                    LET os == Placed(free, k, n, bad, "scale")
                        now == IF k = "now" THEN [os EXCEPT ![Len(os)].st = "filled"] ELSE os
                        new(h, orders) == /\ placed' = orders
                                          /\ job' = [step |-> "orders", n |-> n, child |-> Child, sid |-> Len(os),
                                                     kind |-> k, f |-> h]
                    IN  /\ ~late /\ Accepts(free, n, IF bad = "refuse" THEN "none" ELSE bad) /\ Pay(bad)
                        /\ pos' = IF k = "now" THEN [short |-> pos.short - n, long |-> pos.long - n] ELSE pos
                        /\ CASE f.des /\ bad # "refuse" /\ (paper \/ Claimed(now) + g.q <= pos'.short) ->
                                  new([g EXCEPT !.sid = Len(now) + 1, !.ok = TRUE, !.sq = g.q],
                                      Placed(now, kind, g.q, bad, "scale"))
                             [] f.des /\ bad # "refuse" /\ ~paper /\ Claimed(now) + g.q > pos'.short ->
                                  new([g EXCEPT !.sid = Min(Working(now)), !.ok = TRUE, !.sq = g.q], now)
                             [] OTHER -> new(Cleared(g), now)
                        /\ UNCHANGED <<act, fresh, skip>>
      /\ UNCHANGED <<paper, oco, hist, mem, todo, clock>>

\* The file of the contracts split off, in the history when they are closed already.  A limit order has no stop price.
SplitFile ==
  LET f == [File(job.n) EXCEPT !.hold = job.n, !.sid = job.sid, !.ok = TRUE, !.sq = job.n, !.des = job.kind = "spreadoco"]
  IN  /\ job.step = "orders" /\ job' = [job EXCEPT !.step = "child"]
      /\ IF job.kind = "now" THEN hist' = [hist EXCEPT ![job.child] = "closed"] /\ UNCHANGED <<act, fresh, skip>>
         ELSE act' = [act EXCEPT ![job.child] = f] /\ Wrote({job.child}) /\ UNCHANGED hist
      /\ UNCHANGED <<paper, oco, mem, todo, placed, pos, clock, edits, luck>>

\* The parent's file with what is left.
ParentFile ==
  /\ job.step = "child" /\ job' = NoJob
  /\ act' = [act EXCEPT !["p"] = job.f] /\ Wrote({"p"})
  /\ UNCHANGED <<paper, oco, hist, mem, todo, placed, pos, clock, edits, luck>>

\* The stop of an open file has filled and nobody has asked for its status yet.
Late == \E l \in Lots : act[l].st = "open" /\ act[l].sid # 0 /\ placed[act[l].sid].st = "filled"

\* The setting is switched: every working stop of the other type is replaced, one file after the other.
Toggle ==
  LET bad0 == [f |-> act, os |-> placed]
      one(r, l, bad) == IF r.f[l].st = "open" /\ WrongType(r.f[l], r.os, ~oco)
                        THEN LET s == Retyped(r.f[l], r.os, ~oco, bad, "switch") IN [f |-> [r.f EXCEPT ![l] = s.f], os |-> s.os]
                        ELSE r
  IN  /\ Between /\ phase = "day" /\ edits < MaxEdits /\ edits' = edits + 1
      /\ Late => "late" \in luck.of
      /\ \E bad \in Bad :
           LET r == one(one(one(bad0, "p", bad), "s1", bad), "s2", bad)
           IN  /\ Len(r.os) <= FileOrders /\ Pay(bad)
               /\ act' = r.f /\ placed' = r.os /\ Wrote({l \in Lots : r.f[l] # act[l]})
      /\ oco' = ~oco
      /\ UNCHANGED <<paper, hist, mem, todo, pos, job, clock>>

\* The operator closed an open lot at the broker, with its stop, and marks its file.
Mark(l) ==
  /\ ~paper /\ Between /\ phase = "day" /\ edits < MaxEdits /\ edits' = edits + 1
  /\ act[l].st = "open" /\ (act[l].sid # 0 => placed[act[l].sid].st # "filled")
  /\ placed' = Cancel(placed, act[l].sid, "none", "file")
  /\ pos' = [short |-> pos.short - act[l].q, long |-> pos.long - act[l].q]
  /\ hist' = [hist EXCEPT ![l] = "closed"] /\ act' = [act EXCEPT ![l] = NoFile] /\ Wrote({l})
  /\ UNCHANGED <<paper, oco, mem, todo, job, clock, luck>>

-----------------------------------------------------------------------------
(* The end of the day *)

\* The close of the session ends the orders at the exchange, not those of the journal; the options are settled in
\* cash.  Of an order only its status still matters, and nothing more is ordered or edited.
Ended(o) ==
  [o EXCEPT !.q = 0, !.kind = IF @ = "spreadoco" /\ paper THEN @ ELSE "stop",
            !.st = IF @ = "working" /\ ~paper THEN "cancelled" ELSE @]
Bell ==
  /\ phase = "day" /\ job = NoJob /\ phase' = "expired"
  /\ placed' = [i \in DOMAIN placed |-> Ended(placed[i])]
  /\ pos' = [short |-> 0, long |-> 0] /\ edits' = MaxEdits
  /\ luck' = [luck EXCEPT !.left = IF "restart" \in luck.of THEN @ ELSE 0]
  /\ UNCHANGED <<paper, oco, files, slots, job, spx>>

\* A source has the settlement price.
Price == phase = "expired" /\ ~spx /\ spx' = TRUE /\ UNCHANGED <<paper, oco, files, slots, placed, pos, job, phase, edits, luck>>

\* settle_expired_active_trades, in place: the cleanup of the evening and each summary of the dashboard.
Settle ==
  /\ phase = "expired" /\ Between
  /\ \E l \in Lots : Gate(act[l]) # act[l]
  /\ act' = [l \in Lots |-> Gate(act[l])] /\ Wrote({l \in Lots : Gate(act[l]) # act[l]})
  /\ UNCHANGED <<paper, oco, hist, mem, todo, placed, pos, job, clock, edits, luck>>

\* The morning cleanup settles once more and archives every active file; the supervisor is not running yet.
Morning ==
  /\ phase = "expired" /\ phase' = "next" /\ Between
  /\ hist' = [l \in Lots |-> IF act[l] # NoFile THEN Gate(act[l]).st ELSE hist[l]]
  /\ act' = [l \in Lots |-> NoFile] /\ mem' = act'
  /\ fresh' = [l \in Lots |-> FALSE] /\ skip' = {} /\ todo' = {}
  /\ UNCHANGED <<paper, oco, placed, pos, job, spx, edits, luck>>

Supervisor == Discover \/ (\E l \in Lots, due \in BOOLEAN : Scan(l, due)) \/ (\E l \in Lots : Finish(l)) \/ Restart
Dashboard == (\E n \in 1..Qty : ScaleOut(n)) \/ SplitFile \/ ParentFile \/ Toggle \/ (\E l \in Lots : Mark(l))
World == (\E i \in 1..FileOrders : Filling(i)) \/ Bell \/ Price \/ Settle \/ Morning
FileNext == Supervisor \/ Dashboard \/ World

FileSpec == FileInit /\ [][FileNext]_filevars

-----------------------------------------------------------------------------
(* Properties *)

IdleFiles == phase = "day" /\ job = NoJob

\* Contracts a file still answers for: its order may have filled unseen.
Owed(l) ==
  IF act[l].st # "open" THEN 0
  ELSE act[l].q - (IF act[l].sid # 0 /\ placed[act[l].sid].st = "filled" THEN placed[act[l].sid].q ELSE 0)

\* Between the dashboard's edits the files stand for the short contracts of the account, each lot in one place.
ContractsOnFile ==
  IdleFiles => /\ OverLots(Owed) = pos.short
          /\ \A l \in Lots : act[l] = NoFile \/ hist[l] = "none"

\* Every working closing order is the stop of one open file and covers exactly its contracts.  Only an order of the
\* journal whose write failed may be left over, named by no file.
OneStopEach ==
  IdleFiles => \A i \in {j \in Working(placed) : placed[j].at = "file"} :
            \/ Cardinality({l \in Lots : act[l].st = "open" /\ act[l].sid = i /\ act[l].q = placed[i].q}) = 1
            \/ "unsaved" \in luck.of /\ ~Named(i)

\* A split's own order closes both legs.
SplitFilled == \E i \in DOMAIN placed : placed[i].st = "filled" /\ placed[i].kind \in {"spreadoco", "spread"}

\* Long contracts are kept for every lot that is not finished.
LongsKept ==
  IdleFiles /\ ~SplitFilled =>
    pos.long = OverLots(LAMBDA l : IF act[l].st \in {"open", "closing"} THEN act[l].q ELSE 0)

\* The next morning no file is active, and a trade whose settlement price was known is closed in the history.
AllSettled == phase = "next" => \A l \in Lots : act[l] = NoFile /\ (spx => hist[l] \in {"none", "closed"})

\* A lot that was closed is never open again.
ClosedIsClosed ==
  [][\A l \in Lots : "closed" \in {act[l].st, hist[l]} =>
       act'[l].st \notin {"open", "closing"} /\ (phase = "day" => hist'[l] = "closed" \/ act'[l].st = "closed")]_filevars

\* A scan that asks for the stop's status and meets no failure leaves an open lot with a working order for exactly
\* its contracts.
Covered(l) == act[l].sid # 0 /\ placed[act[l].sid].st = "working" /\ placed[act[l].sid].q = act[l].q
ScanCovers ==
  [][\A l \in todo \ todo' : phase = "day" /\ job = NoJob /\ luck' = luck /\ act'[l].st = "open" /\ Scan(l, TRUE)
                           => Covered(l)']_filevars

\* What the files hold between two edits: the account's contracts, one stop for
\* each open lot, a long leg for each unfinished one, nothing active next day.
FilesSound == ContractsOnFile /\ OneStopEach /\ LongsKept /\ AllSettled

\* What becomes of the files: a closed lot stays closed, a scan leaves a stop.
FilesKept == ClosedIsClosed /\ ScanCovers
=============================================================================
