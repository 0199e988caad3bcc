---------------------------- MODULE RestGovernor ----------------------------
(*************************************************************************)
(* The account's REST rate governor (src/common/rest_limiter.py): every   *)
(* broker call of every process first takes a token.  The tokens spent    *)
(* and the callers that wait are kept in one file, under a file lock that *)
(* spans a whole pass; a waiting caller makes a pass every few moments.   *)
(* Times are ages in ticks, capped where the code no longer tells them    *)
(* apart.                                                                 *)
(*************************************************************************)
EXTENDS Integers, Sequences, FiniteSets

CONSTANTS Callers,
          High, Normal,  \* the callers of these priorities, the others are LOW
          Burst,         \* tokens
          Period,        \* 1 / max_per_sec
          Memory,        \* how long a token stays in the file
          Stale,         \* age at which a waiter is dropped
          MaxCalls,      \* bound: calls of all callers
          MaxFaults      \* bound: callers that end, or lose the lock, while waiting

ASSUME CallersAssumption == High \subseteq Callers /\ Normal \subseteq Callers \ High
ASSUME RateAssumption == Burst \in Nat \ {0} /\ Period \in Nat \ {0} /\ Memory \in Nat /\ Memory >= Period /\ Stale \in Nat

VARIABLES caller,  \* idle, waiting, sent, or gone
          since,   \* how long a caller has waited
          queue,   \* the callers in the file
          ghosts,  \* entries of the file whose caller does not wait any more
          stamps,  \* the tokens in the file, oldest first
          cooling, \* the broker cooldown is set
          calls, faults,
          recent,  \* history: ages of the calls let through in the last period
          passed   \* history: callers that wait and have made a pass
gvars == <<caller, since, queue, ghosts, stamps, cooling, calls, faults, recent, passed>>

Rank(c) == CASE c \in High -> 0 [] c \in Normal -> 1 [] OTHER -> 2
Entry(c) == [rank |-> Rank(c), age |-> since[c]]

GInit ==
    /\ caller = [c \in Callers |-> "idle"]
    /\ since = [c \in Callers |-> 0]
    /\ queue = {} /\ ghosts = {} /\ stamps = << >> /\ cooling = FALSE
    /\ calls = 0 /\ faults = 0
    /\ recent = << >> /\ passed = {}

(* --- the file ---------------------------------------------------------- *)
\* Mutant: waiters are never dropped.
LiveAlways(age) == TRUE

Live(age) == age <= Stale

\* The end of a log, oldest entry first, that is younger than a limit.
Younger(log, limit) ==
    SubSeq(log, Cardinality({i \in DOMAIN log : log[i] >= limit}) + 1, Len(log))

FreshStamps == Younger(stamps, Memory + 1)
Others(c) == {Entry(d) : d \in {e \in queue \ {c} : Live(since[e])}}
               \cup {g \in ghosts : Live(g.age)}

\* The highest priority first, then the one that has waited longest.
Best(c) ==
    \A e \in Others(c) : Rank(c) < e.rank \/ (Rank(c) = e.rank /\ since[c] >= e.age)

\* Mutant: one token more than the burst.
MustWaitLate(spent) == Len(spent) > Burst /\ spent[1] < Period

MustWait(spent) == Len(spent) >= Burst /\ spent[1] < Period

(* --- a call ------------------------------------------------------------- *)
\* In a cooldown only HIGH calls go on to the governor.
Call(c) ==
    /\ caller[c] = "idle" /\ calls < MaxCalls
    /\ cooling => c \in High
    /\ caller' = [caller EXCEPT ![c] = "waiting"]
    /\ since' = [since EXCEPT ![c] = 0]
    /\ calls' = calls + 1
    /\ UNCHANGED <<queue, ghosts, stamps, cooling, faults, recent, passed>>

Skip(c) ==
    /\ caller[c] = "idle" /\ calls < MaxCalls
    /\ cooling /\ c \notin High
    /\ calls' = calls + 1
    /\ UNCHANGED <<caller, since, queue, ghosts, stamps, cooling, faults, recent, passed>>

Dropped(c) == {d \in queue \ {c} : Live(since[d])}
Spend(spent) == (IF Len(spent) >= Burst THEN Tail(spent) ELSE spent) \o <<0>>

\* Mutant: a pass that gets no token does not write itself down.
WaitingUnsaved(c) == Dropped(c)

WaitingAfter(c) == Dropped(c) \cup {c}

\* One pass under the file lock: tokens and waiters too old are dropped, and
\* the best waiter takes a token when there is one.
Pass(c) ==
    /\ caller[c] = "waiting"
    /\ ghosts' = {g \in ghosts : Live(g.age)}
    /\ \/ /\ Best(c) /\ ~MustWait(FreshStamps)
          /\ caller' = [caller EXCEPT ![c] = "sent"]
          /\ queue' = Dropped(c)
          /\ stamps' = Spend(FreshStamps)
          /\ recent' = Append(recent, 0)
          /\ passed' = passed \ {c}
       \/ /\ ~Best(c) \/ MustWait(FreshStamps)
          /\ queue' = WaitingAfter(c)
          /\ stamps' = FreshStamps
          /\ passed' = passed \cup {c}
          /\ UNCHANGED <<caller, recent>>
    /\ UNCHANGED <<since, cooling, calls, faults>>

\* The broker answers; what looks like a limit or an outage sets the cooldown.
Answer(c) ==
    /\ caller[c] = "sent"
    /\ caller' = [caller EXCEPT ![c] = "idle"]
    /\ cooling' \in {cooling, TRUE}
    /\ since' = [since EXCEPT ![c] = 0]
    /\ UNCHANGED <<queue, ghosts, stamps, calls, faults, recent, passed>>

\* A waiting caller's process ends, or it does not get the file lock in time
\* or cannot save and raises: what it wrote in the file stays.
Leave(c) ==
    /\ caller[c] = "waiting" /\ faults < MaxFaults
    /\ faults' = faults + 1
    /\ caller' \in {[caller EXCEPT ![c] = "gone"], [caller EXCEPT ![c] = "idle"]}
    /\ ghosts' = ghosts \cup (IF c \in queue THEN {Entry(c)} ELSE {})
    /\ queue' = queue \ {c} /\ passed' = passed \ {c}
    /\ since' = [since EXCEPT ![c] = 0]
    /\ UNCHANGED <<stamps, cooling, calls, recent>>

CoolDown ==
    /\ cooling /\ cooling' = FALSE
    /\ UNCHANGED <<caller, since, queue, ghosts, stamps, calls, faults, recent, passed>>

\* Time passes; nothing tells ages apart beyond these caps.
Older(age, cap) == IF age > cap THEN age ELSE age + 1
Tick ==
    /\ since' = [c \in Callers |-> IF caller[c] = "waiting" THEN Older(since[c], Stale) ELSE 0]
    /\ ghosts' = {[g EXCEPT !.age = Older(@, Stale)] : g \in ghosts}
    /\ stamps' = [i \in DOMAIN stamps |-> Older(stamps[i], Memory)]
    /\ recent' = Younger([i \in DOMAIN recent |-> recent[i] + 1], Period)
    /\ UNCHANGED <<caller, queue, cooling, calls, faults, passed>>

GNext ==
    \/ \E c \in Callers : Call(c) \/ Skip(c) \/ Pass(c) \/ Answer(c) \/ Leave(c)
    \/ CoolDown \/ Tick

\* A waiting caller polls the file, and time passes.
GFairness == WF_gvars(Tick) /\ \A c \in Callers : WF_gvars(Pass(c))
GSpec == GInit /\ [][GNext]_gvars /\ GFairness

(* --- properties --------------------------------------------------------- *)
\* Over all processes no more than Burst calls start within a period, however
\* passes, crashes and dropped waiters interleave ("never bypasses the global
\* rate ceiling", rest_limiter.py; _token_wait_sec, _evict).
CeilingHeld == Len(recent) <= Burst

\* A call is not let through while one of a higher priority, or an older one
\* of the same, waits and has made a pass, unless that one is so old that the
\* file has dropped it (_best_waiter, _acquire_cross_process).
RankKept ==
    [][\A c \in Callers : caller[c] = "waiting" /\ caller'[c] = "sent" =>
          \A d \in passed \ {c} :
              Live(since[d]) => ~(Rank(d) < Rank(c) \/ (Rank(d) = Rank(c) /\ since[d] > since[c]))]_gvars

\* Every waiting call is let through in the end, also when a caller of a
\* higher priority died waiting in front of it (_evict).
EveryCallSent == \A c \in Callers : caller[c] = "waiting" ~> caller[c] # "waiting"

\* What becomes of the calls: higher ones first, and each is sent.
CallsServed == RankKept /\ EveryCallSent
=============================================================================
