---------------------------- MODULE MCStaffSystem ----------------------------
(* Finite instances of StaffSystem for TLC. *)
EXTENDS StaffSystem, TLC

LowStock == [i \in Items |->
    CASE i = "soap" -> 15 [] i = "cleaningItem" -> 9 [] i = "aromaCandle" -> 1 [] OTHER -> 0]
FullStock == [i \in Items |-> 100]

UsedItems == {"cleaningItem", "soap", "aromaCandle", "wineBottle", "teaBags"}
OneList == {<<"soap", "cleaningItem">>}

Body(room, type) == [decodes |-> TRUE, RoomName |-> room, RequestType |-> type]

\* A body of each kind UnmarshalCleaningRequest rejects.
Garbage == [decodes |-> FALSE, RoomName |-> BlankRoom, RequestType |-> "UNSPECIFIED"]
ValidBodies == [decodes: {TRUE}, RoomName: Rooms, RequestType: RequestTypes]
InvalidBodies ==
    {Garbage} \cup [decodes: {TRUE}, RoomName: {BlankRoom}, RequestType: RequestTypes]
SomeBodies == ValidBodies \cup {Garbage}

NoBacklog == <<>>

\* Enough laundry to block a housekeeper behind a launderer in its cycle, then
\* enough requests to fill the cleaning channel and block the manager behind it.
BlockingBacklog ==
    << Body("r1", "DAILY_CLEANING"), Body("r2", "FULL_CLEANING"),
       Body("r1", UnknownType), Body("r2", UnknownType) >>

\* Nothing else is published.
BacklogBodies == Range(Backlog)

RoomSymmetry == Permutations(Rooms)
RoomAndHousekeeperSymmetry == Permutations(Rooms) \cup Permutations(Housekeepers)
=============================================================================
