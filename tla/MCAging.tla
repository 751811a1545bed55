------------------------------ MODULE MCAging -------------------------------
(* Instances of Aging for TLC. *)
EXTENDS Aging

AllPriorities == [Slots -> Priorities]

(* Slot 0 at the minimum priority, all the others at the maximum. *)
OneLow == {[s \in Slots |-> IF s = 0 THEN 0 ELSE ENV_PRIORITY_MAX]}
=============================================================================
