---------------------------- MODULE MCStaffStock ----------------------------
(* Finite instances of StaffStock for TLC. *)
EXTENDS StaffStock, TLC

\* Just below what the first requests ask for, so that they find shortages.
LowStock == [i \in Items |->
    CASE i = "soap" -> 15 [] i = "cleaningItem" -> 9 [] i = "aromaCandle" -> 1 [] OTHER -> 0]

AllTypes == KnownTypes \cup {UnknownType}
UsedItems == {"cleaningItem", "soap", "aromaCandle", "wineBottle", "teaBags"}
TwoLists == {<<"soap", "cleaningItem">>, <<"aromaCandle", "soap">>}

Symmetry == Permutations(Housekeepers)
=============================================================================
