------------------------------ MODULE StockRepo ------------------------------
(***************************************************************************)
(* The stock document of internal/infra/mdb/stock_repo.go.  Every method   *)
(* holds the repository's mutex from its first to its last database call,  *)
(* so each is one atomic action, a relation between the stock before, the  *)
(* stock after and the error returned:                                     *)
(*   "nil"           the update was matched and modified the document;     *)
(*   "insufficient"  StockInsufficientQuantityErr;                         *)
(*   "failed"        every other error.  The database may have applied the *)
(*                   update although the caller sees an error (the reply   *)
(*                   is lost, the context is cancelled while it waits).    *)
(***************************************************************************)
EXTENDS StaffChannels, Integers

CONSTANT InitialStock    \* the stock document the program starts with

ASSUME InitialStockAssumption == InitialStock \in [Items -> Nat]

VARIABLE stock           \* the quantity field of each item

StockInit == stock = InitialStock

\* Mutant: the quantity is checked before the update, not in its filter.
DecrementUnchecked(item, quantity) == stock' = [stock EXCEPT ![item] = @ - quantity]

\* UpdateOne with the filter {quantity: {$gte: q}} and {$inc: -q}.
DecrementIfEnough(item, quantity) ==
    /\ stock[item] >= quantity
    /\ stock' = [stock EXCEPT ![item] = @ - quantity]

ConsumeItem(item, quantity, err) ==
    \/ /\ err = "nil"
       /\ ~ctxDone
       /\ DecrementIfEnough(item, quantity)
    \/ /\ err = "insufficient"
       /\ ~ctxDone
       /\ ~(stock[item] >= quantity)
       /\ UNCHANGED stock
    \/ /\ err = "failed"
       /\ \/ UNCHANGED stock
          \/ DecrementIfEnough(item, quantity)

Increment(item, quantity) == stock' = [stock EXCEPT ![item] = @ + quantity]

RestockItem(item, quantity, err) ==
    \/ /\ err = "nil"
       /\ ~ctxDone
       /\ Increment(item, quantity)
    \/ /\ err = "failed"
       /\ \/ UNCHANGED stock
          \/ Increment(item, quantity)

StockTypeOK == stock \in [Items -> Int]
=============================================================================
