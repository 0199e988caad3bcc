------------------------------ MODULE ExitSide ------------------------------
(***************************************************************************)
(* The supervisor's two views of an exit: the commands and jobs of its     *)
(* slots (ExitCommands) and the orders of one trade (TradeExit).  They     *)
(* share no variable, so a behaviour is that of one of them: `part' says   *)
(* which, the other rests in an initial state.                             *)
(***************************************************************************)
EXTENDS TradeExit, MCExitCommands

VARIABLE part

SideInit ==
  /\ Init /\ CommandsInit
  /\ \/ part = "orders"
     \/ part = "commands" /\ budget.of = CHOOSE s \in Scenarios : TRUE

SideNext ==
  \/ part = "orders" /\ Next /\ UNCHANGED <<part, commandVars>>
  \/ part = "commands" /\ CommandsNext /\ UNCHANGED <<part, vars>>

SideSpec == SideInit /\ [][SideNext]_<<part, vars, commandVars>>

\* The fairness of the part that runs (Fairness, CommandsFairness)
SideFairness ==
  /\ WF_vars(part = "orders" /\ Routine)
  /\ WF_vars(part = "orders" /\ Reconcile)
  /\ WF_vars(part = "orders" /\ EnsureStop)
  /\ WF_vars(part = "orders" /\ ResumeKill)
  /\ WF_vars(part = "orders" /\ PollSpread)
  /\ WF_vars(part = "orders" /\ Chase)
  /\ \A i \in Ids :
       /\ WF_vars(/\ part = "orders" /\ orders[i].kind # "stop"
                  /\ Fill(i, Rest(i)) /\ UNCHANGED <<t, pc, loc>>)
       /\ WF_vars(part = "orders" /\ TakeCancel(i) /\ UNCHANGED <<t, pc, loc>>)
  /\ WF_commandVars(part = "commands" /\ Scan)
  /\ \A p \in Paths :
       /\ SF_commandVars(part = "commands" /\ StartWork(p))
       /\ WF_commandVars(part = "commands" /\ (FinishWork(p) \/ ClearId(p) \/ EndJob(p)))

SideFairSpec == SideSpec /\ SideFairness
=============================================================================
