----------------------------- MODULE CottageRepo -----------------------------
(***************************************************************************)
(* The cleaning_status field of the cottage documents                      *)
(* (internal/infra/mdb/cottage_repo.go).  A request may name a room that   *)
(* has no document.                                                        *)
(***************************************************************************)
EXTENDS StaffChannels

CONSTANT Cottages        \* the rooms that have a cottage document

ASSUME CottagesAssumption == Cottages \subseteq Rooms

VARIABLE cleaningStatus

CleaningStatuses ==
    {"prepared_for_guest", "daily_cleaned", "prepared_for_sleep", "fully_cleaned"}

\* The documents exist before the program starts, with no status of ours.
CottageInit == cleaningStatus = [c \in Cottages |-> "initial"]

\* nil needs a matched and modified document: setting the status a cottage
\* already has is reported as an error.
UpdateCleaningStatus(room, status, err) ==
    \/ /\ err = "nil"
       /\ ~ctxDone
       /\ room \in Cottages
       /\ cleaningStatus[room] # status
       /\ cleaningStatus' = [cleaningStatus EXCEPT ![room] = status]
    \/ /\ err = "failed"
       /\ \/ UNCHANGED cleaningStatus
          \/ /\ room \in Cottages
             /\ cleaningStatus' = [cleaningStatus EXCEPT ![room] = status]

CottageTypeOK == cleaningStatus \in [Cottages -> CleaningStatuses \cup {"initial"}]
=============================================================================
