--------------------------- MODULE MCExitCommands ---------------------------
(* Instances of ExitCommands: every trade has a base name of its own.       *)
EXTENDS ExitCommands

MCNameOf == [p \in Paths |-> p]

=============================================================================
