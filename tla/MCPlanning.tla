----------------------------- MODULE MCPlanning -----------------------------
(***************************************************************************)
(* A term of two school days and a Saturday, a morning slot on all three,  *)
(* a late slot of the second day that ends after midnight, and two units   *)
(* of which the second needs the first.                                    *)
(***************************************************************************)
EXTENDS Planning

MCUnits == {1, 2}
MCWindows == 1..6
MCDays == {1, 2, 6}
MCWeekend == {6}
MCSlots == {"morning", "late"}
MCSlotDays == [s \in MCSlots |-> IF s = "morning" THEN MCDays ELSE {2}]
MCSlotStart == [s \in MCSlots |-> IF s = "morning" THEN 540 ELSE 1410]
MCSlotEnd == [s \in MCSlots |-> IF s = "morning" THEN 585 ELSE 30]
MCDuration == [u \in MCUnits |-> 40]
MCRequires == [u \in MCUnits |-> IF u = 2 THEN {1} ELSE {}]
MCNoPrerequisites == [u \in MCUnits |-> {}]

MCSymmetry == Permutations(Clients)

=============================================================================
