---------------------------- MODULE PositionLedger ----------------------------
(***************************************************************************)
(* What the durable record of positions promises, whatever happens to the  *)
(* process, to the orders and to the exchange: a position is entered once, *)
(* on a market and a book that have room for it, its lots are booked in    *)
(* slices and each exactly once, and a closed entry never changes.         *)
(***************************************************************************)
EXTENDS Naturals, FiniteSets

CONSTANTS Ids, Markets, NoMarket, MaxOpen

VARIABLE ledger   \* per position: its status, market, lots left, lots booked

Blank == [status |-> "unused", mkt |-> NoMarket, size |-> 0, realized |-> 0]

OpenEntries == {id \in Ids : ledger[id].status = "open"}

Init == ledger = [id \in Ids |-> Blank]

Enter(id, m, lots) ==
  /\ ledger[id].status = "unused"
  /\ Cardinality(OpenEntries) < MaxOpen
  /\ \A other \in OpenEntries : ledger[other].mkt # m
  /\ ledger' = [ledger EXCEPT ![id] =
       [status |-> "open", mkt |-> m, size |-> lots, realized |-> 0]]

Slice(id, lots) ==
  /\ id \in OpenEntries
  /\ lots < ledger[id].size
  /\ ledger' = [ledger EXCEPT ![id].size = @ - lots, ![id].realized = @ + lots]

Close(id) ==
  /\ id \in OpenEntries
  /\ ledger' = [ledger EXCEPT ![id].status = "closed",
                              ![id].realized = @ + ledger[id].size]

(* The lots of an entry, or of a slice, are those of the step itself.      *)
Next ==
  \E id \in Ids :
    \/ \E m \in Markets : Enter(id, m, ledger'[id].size)
    \/ Slice(id, ledger[id].size - ledger'[id].size)
    \/ Close(id)

Spec == Init /\ [][Next]_ledger
=============================================================================
