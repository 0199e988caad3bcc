-------------------------------- MODULE Desk --------------------------------
(*************************************************************************)
(* The desk around the trading processes: the rows of the day's plan      *)
(* (SessionPlan), what picks a spread before the order (EntryScan), which *)
(* broker a trade goes to (PaperMode), a strategy that trades by itself   *)
(* (MeanReversion) and what keeps the books (History).  The parts share   *)
(* no variable, so a behaviour is that of one of them: `part' says which, *)
(* the others rest in an initial state.                                   *)
(*************************************************************************)
EXTENDS EntryScan, History, SessionPlan, MeanReversion, PaperMode, Sequences

VARIABLES part,
          job,     \* the entry scan: what is asked,
          answer,  \* the spreads it returns,
          asked    \* and whether it was asked
scanvars == <<job, answer, asked>>

(* --- inputs of the entry scan ----------------------------------------- *)
\* Prices fall with the distance, ever more slowly.
Band == OtmMax + 2
Slopes == {s \in [1..Band -> {4, 10, 24}] : \A i \in 1..Band - 1 : s[i + 1] <= s[i]}
Curve(s) ==
    LET beyond[k \in 0..Band] == IF k = Band THEN 2 ELSE s[k + 1] + beyond[k + 1] IN beyond
OnStrikes(s, known) == [k \in known |-> Curve(s)[k]]
Quotes(s, at) == [k \in DOMAIN at |-> [kind |-> "quote", at |-> at[k], subscribed |-> 1,
                                       price |-> Curve(s)[k]]]

Position(s, w, paper, status) ==
    [side |-> "P", paper |-> paper, status |-> status, short |-> s, long |-> s + w,
     held |-> IF status = "pending_fill" THEN 0 ELSE 1, dropped |-> FALSE]
Positions == {Position(s, w, FALSE, "open") : s \in 1..OtmMax, w \in 2..3}
Others == {Position(2, 2, TRUE, "open"), Position(3, 2, FALSE, "closed"),
           Position(2, 3, FALSE, "pending_fill")}
Books == {{}} \cup {{a, b} : a, b \in Positions} \cup {{a, b} : a \in Others, b \in Positions}

Request(rest, mqtt) ==
    [rest |-> rest, mqtt |-> mqtt, trades |-> {}, paper |-> FALSE, side |-> "P",
     min |-> 20, max |-> 40, target |-> 0, results |-> 1, narrow |-> 2, wide |-> 3,
     dips |-> {}, loaded |-> FALSE, cooled |-> FALSE, wanted |-> Band + 1, now |-> 6, asked |-> 2]

\* A loaded chain, with a strike that has no price or without one.
Chains ==
    {[Request(OnStrikes(s, 0..Band \ gap), << >>) EXCEPT !.loaded = TRUE, !.dips = dips] :
        s \in Slopes, gap \in {{}, {2}}, dips \in {{}, {20, 24, 28, 32, 36, 40}}}

\* REST answered for some strikes, or cools down; one streamed quote is old,
\* too new for its partner, or missing.
Times == {[k \in 0..Band |-> 4]} \cup {[k \in 0..Band \ {g} |-> 4] : g \in {2, 4}}
           \cup {[[k \in 0..Band |-> 4] EXCEPT ![g] = t] : g \in {2, 3}, t \in {1, 2, 5}}
Streams ==
    {[Request(OnStrikes(s, known), Quotes(s, at)) EXCEPT !.cooled = cooled] :
        s \in {x \in Slopes : x[1] = 24}, known \in {{1, 3}, 0..Band \ {2}}, at \in Times,
        cooled \in BOOLEAN}

\* The manual form: one width, a target credit, a few answers.
Targets ==
    {[Request(OnStrikes(s, 0..Band \ gap), << >>) EXCEPT
         !.loaded = TRUE, !.target = target, !.results = n, !.narrow = w, !.wide = w] :
        s \in Slopes, gap \in {{}, {2}}, target \in {16, 30}, n \in {1, 3}, w \in 2..3}

FirstJob == CHOOSE r \in Chains : TRUE

(* --- actions ---------------------------------------------------------- *)
Answered(r) ==
    IF r.target > 0 THEN TargetScan(r, r.results)
    ELSE LET picks == MeicScan(r) IN IF picks = {} THEN << >> ELSE <<CHOOSE s \in picks : TRUE>>

Ask ==
    /\ part = "scan" /\ ~asked
    /\ \E b \in Books : job' = [job EXCEPT !.trades = b]
    /\ answer' = Answered(job')
    /\ asked' = TRUE
    /\ UNCHANGED <<part, hvars, svars, fadevars, modevars>>

KeepBooks == part = "history" /\ HNext /\ UNCHANGED <<part, scanvars, svars, fadevars, modevars>>
KeepPlan == part = "plan" /\ SNext /\ UNCHANGED <<part, scanvars, hvars, fadevars, modevars>>
Trade == part = "fade" /\ FadeNext /\ UNCHANGED <<part, scanvars, hvars, svars, modevars>>
ChooseMode == part = "mode" /\ ModeNext /\ UNCHANGED <<part, scanvars, hvars, svars, fadevars>>

FadeRests == fadescene = CHOOSE c \in FadeScenes : TRUE
ModeRests == mscene = (CHOOSE c \in ModeScenes : "meic" \notin c)

Init ==
    /\ part \in {"scan", "history", "plan", "fade", "mode"}
    /\ answer = << >> /\ asked = FALSE
    /\ job \in IF part = "scan" THEN Chains \cup Streams \cup Targets ELSE {FirstJob}
    /\ HInit /\ (part # "history" => HResting)
    /\ SInit /\ (part # "plan" => SResting)
    /\ FadeInit /\ (part # "fade" => FadeRests)
    /\ ModeInit /\ (part # "mode" => ModeRests)

Next == Ask \/ KeepBooks \/ KeepPlan \/ Trade \/ ChooseMode
Spec == Init /\ [][Next]_<<part, scanvars, hvars, svars, fadevars, modevars>>

(* --- properties of the entry scan ------------------------------------- *)
\* A spread returned without a warning takes no live leg the other way, its
\* credit is in the band or a tenth beside it, its width is one the session
\* or the default allows; in a cooldown both its quotes were made after the
\* scan asked for them (MeicScan, resolve_leg_overlap, strike_guard).
CleanPick ==
    \A i \in 1..Len(answer) : LET s == answer[i] IN
        /\ ~s.flips => \A t \in job.trades :
              ~t.paper /\ t.status \in {"open", "pending_fill"} => s.long # t.short /\ s.short # t.long
        /\ job.target = 0 /\ ~s.flips => s.credit \in 18..44 /\ s.long - s.short \in 2..WidestDefault
        /\ job.cooled /\ ~job.loaded => \A k \in {s.short, s.long} : job.mqtt[k].at >= job.asked

\* A loaded grid that holds a clean spread in the band is never answered with
\* nothing or with a spread that flips a leg, however the sweep leaves widths
\* early and resolves overlaps.
FindsOne ==
    asked /\ job.loaded /\ job.target = 0
        /\ (\E d \in 1..OtmMax, w \in 2..3 :
              /\ {d, d + w} \subseteq DOMAIN job.rest
              /\ RoundCredit(job, job.rest[d] - job.rest[d + w]) \in 20..40
              /\ ~Flips(job, d, d + w))
        => answer # << >> /\ ~answer[1].flips

\* For a target credit the answers come nearest first, no two with the same
\* legs, and no clean spread of the grid left out is nearer than the last.
NearestFirst ==
    asked /\ job.target > 0 =>
        /\ \A i, j \in 1..Len(answer) : i < j =>
              /\ Distance(job, answer[i]) <= Distance(job, answer[j])
              /\ ~SameLegs(answer[i], answer[j])
        /\ \A d \in 1..OtmMax :
              LET w == job.wide
                  s == [short |-> d, long |-> d + w,
                        credit |-> RoundCredit(job, job.rest[d] - job.rest[d + w])]
              IN  {d, d + w} \subseteq DOMAIN job.rest /\ s.credit >= Nickel /\ ~Flips(job, d, d + w)
                      => \/ \E i \in 1..Len(answer) : SameLegs(answer[i], s)
                         \/ /\ Len(answer) = job.results
                            /\ Distance(job, answer[Len(answer)]) <= Distance(job, s)

\* The answers of a scan: clean, complete and in order.
ScanSound == CleanPick /\ FindsOne /\ NearestFirst

\* The rows of the day: nobody enters one twice, none is left behind.
PlanSound == EnteredOnce /\ NobodyForgotten
=============================================================================
