----------------------------- MODULE MCInventory -----------------------------
(***************************************************************************)
(* Properties of the slot tracker, for TLC.                                *)
(***************************************************************************)
EXTENDS Inventory, TLC

TagSymmetry == Permutations(Tags)

settled == pc = "idle" /\ uiPc = "idle" /\ readings = Present

(* Once a poll has seen the shelf as it is, the engine's slots say what    *)
(* stands where: a slot is OCCUPIED exactly by the can that is on it.      *)
ViewMatchesShelf ==
  settled => \A s \in Slots : /\ status[s] = "occupied" => where[tag[s]] = s
                              /\ \A t \in Tags : where[t] = s =>
                                   status[s] = "occupied" /\ tag[s] = t

(* A can that stays on a slot is recorded there.                           *)
PlacementRecorded ==
  \A t \in Tags, s \in Slots :
    where[t] = s ~> where[t] # s \/ (status[s] = "occupied" /\ tag[s] = t)

(* slot_state, the table the stock screens call confirmed on the shelf,    *)
(* does not go on naming a can that has gone.                              *)
RemovalRecorded ==
  \A t \in Tags, s \in Slots :
    persisted[s] = <<"occupied", t>> /\ where[t] # s
      ~> where[t] = s \/ persisted[s] # <<"occupied", t>>

(* Slots and table follow the shelf, in both directions.                   *)
RecordsFollow == PlacementRecorded /\ RemovalRecorded

(* The custody of a can, read off the slot that records its tag.           *)
CustodyOf(t) ==
  IF \A s \in Slots : tag[s] # t THEN "unknown"
  ELSE LET s == First({x \in Slots : tag[x] = t})
       IN CASE status[s] = "occupied" -> "shelf"
            [] status[s] = "removed" -> "out"
            [] OTHER -> "elsewhere"

Abstract == INSTANCE CanCustody WITH
  custody <- [t \in Tags |-> CustodyOf(t)],
  news <- {[type |-> e.type, tag |-> e.tag] : e \in emitted}

(* The tracker implements CanCustody.                                      *)
TellsCustody == Abstract!Spec
=============================================================================
