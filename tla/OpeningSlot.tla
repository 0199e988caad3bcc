---------------------------- MODULE OpeningSlot ----------------------------
(***************************************************************************)
(* What the entry of one slot promises (opening_duplicate_guard.py: "One   *)
(* active opening order per slot"): an opening order is only sent while no *)
(* other one can still fill and nothing has been bought.                   *)
(***************************************************************************)
EXTENDS Naturals

CONSTANT Qty

VARIABLES working,   \* opening orders of the slot that may still fill
          held       \* contracts that the slot's opening orders have filled

Init == working = 0 /\ held = 0

Send == working = 0 /\ held = 0 /\ working' = 1 /\ held' = 0

Fill == /\ working = 1 /\ held < Qty
        /\ held' = held + 1
        /\ working' = IF held' = Qty THEN 0 ELSE 1

Stop == working = 1 /\ working' = 0 /\ held' = held

Spec == Init /\ [][Send \/ Fill \/ Stop]_<<working, held>>
=============================================================================
