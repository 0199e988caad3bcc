----------------------------- MODULE OpenTrades -----------------------------
(***************************************************************************)
(* What an open trade lives by: its files (TradeFile) and the quotes that  *)
(* may make it exit (BreachConfirm).  The parts share no variable, so a    *)
(* behaviour is that of one of them: `part' says which, the other rests in *)
(* an initial state.  Runs with a restart start with stop-limit orders.    *)
(***************************************************************************)
EXTENDS TradeFile, BreachConfirm

VARIABLE part

TradesInit ==
  /\ FileInit /\ BreachInit
  /\ \/ part = "files" /\ budget.of = (CHOOSE s \in Scenarios : TRUE) /\ ("restart" \in luck.of => ~oco)
     \/ part = "quotes" /\ ~paper /\ ~oco /\ luck.of = CHOOSE s \in FileScenes : "unsaved" \notin s

TradesNext ==
  \/ part = "files" /\ FileNext /\ UNCHANGED <<part, breachvars>>
  \/ part = "quotes" /\ BreachNext /\ UNCHANGED <<part, filevars>>

TradesSpec == TradesInit /\ [][TradesNext]_<<part, filevars, breachvars>>
=============================================================================
