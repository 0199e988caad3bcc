--------------------------- MODULE SpreadLifecycle ---------------------------
(***************************************************************************)
(* What the stop engine promises about one credit spread: the long leg     *)
(* protects the short leg until the short leg is bought back, no leg is    *)
(* closed further than flat, and a trade is marked closed when both legs   *)
(* are flat and not before.  TradeExit implements it as long as the broker *)
(* answers position queries.                                               *)
(***************************************************************************)
EXTENDS Integers

CONSTANT Q   \* contracts of the spread

VARIABLES
  short,     \* contracts of the short leg still to be bought back
  long,      \* contracts of the long leg still to be sold
  status     \* "open", "closing" or "closed"

vars == <<short, long, status>>

Init == short = Q /\ long = Q /\ status = "open"

\* n contracts of the short leg are bought back
CloseShort(n) ==
  /\ status # "closed"
  /\ n <= short
  /\ short' = short - n
  /\ UNCHANGED <<long, status>>

\* n contracts of both legs are closed in one order
CloseSpread(n) ==
  /\ status # "closed"
  /\ n <= short /\ n <= long
  /\ short' = short - n
  /\ long' = long - n
  /\ UNCHANGED status

\* n contracts of the long leg are sold; what is left covers the short leg
CloseLong(n) ==
  /\ status = "closing"
  /\ short <= long - n
  /\ long' = long - n
  /\ UNCHANGED <<short, status>>

StartClosing ==
  /\ status = "open"
  /\ status' = "closing"
  /\ UNCHANGED <<short, long>>

Finish ==
  /\ status # "closed"
  /\ short = 0 /\ long = 0
  /\ status' = "closed"
  /\ UNCHANGED <<short, long>>

Next ==
  \/ \E n \in 1..Q : CloseShort(n) \/ CloseSpread(n) \/ CloseLong(n)
  \/ StartClosing
  \/ Finish

Spec == Init /\ [][Next]_vars
=============================================================================
