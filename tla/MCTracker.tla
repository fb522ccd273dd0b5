------------------------------ MODULE MCTracker ------------------------------
(***************************************************************************)
(* The slot tracker under outages of the readers, pauses, reader swaps,    *)
(* stock loading and restarts, for TLC, with notes of the cans whose moves *)
(* poll had no chance to compare.                                          *)
(***************************************************************************)
EXTENDS MCInventory

VARIABLES
  moved,    \* the cans that were moved since poll last read the tags
  blind,    \* has it, since then, forgotten the tags to compare them with?
  unseen,   \* the cans of which it may have missed a move
  mixed     \* has a poll mixed what was before a swap with what came after?

(* What a step was, told by the counters it changed: poll reads the tags;  *)
(* poll, or notify_reader_swap, drops the ones to compare them with; every *)
(* slot is empty again, with no poll on its way.                           *)
polls   == pc = "idle" /\ pc' = "appear"
forgets == (pc = "idle" /\ pc' = "timeouts") \/ uiPc' = "forgotten"
resets  == \/ pc # "down" /\ pc' = "down"
           \/ uiPc = "forgotten" /\ uiPc' = "reset" /\ pc \notin {"appear", "gone"}

(* A poll is under way while a swap is.                                    *)
overlaps == uiPc \in {"swapped", "forgotten"} /\ pc \in {"appear", "gone"}

(* Stock loading does not look for the slot that a can was taken from.     *)
loadsTwice == {t \in todo \ todo' : pc = "appear" /\ stockLoading /\ Sources(0, t) # {}}
movedNow   == {t \in Tags : where'[t] # where[t]}

MCInit == Init /\ moved = {} /\ blind = FALSE /\ unseen = {} /\ mixed = FALSE
MCNext ==
  /\ Next
  /\ moved' = IF polls \/ resets THEN {} ELSE moved \cup movedNow
  /\ blind' = (~polls /\ ~resets /\ (blind \/ forgets))
  /\ unseen' = IF overlaps' THEN Tags
               ELSE IF resets THEN {}
               ELSE IF polls /\ blind THEN unseen \cup moved
               ELSE unseen \cup loadsTwice
  /\ mixed' = (overlaps' \/ (mixed /\ ~(polls /\ previous = {})))
MCSpec == MCInit /\ [][MCNext]_<<vars, moved, blind, unseen, mixed>>

(* With the threads' fairness, for what must come about.                   *)
MCFairSpec == MCSpec /\ Fairness

(* Whatever outages, pauses, swaps, loading and restarts came before, once *)
(* a poll has compared the shelf as it is, each can on it is recorded in   *)
(* its slot, and a slot goes on naming a can that is not there only if the *)
(* can was moved while nobody compared, or put elsewhere during stock      *)
(* loading.  A swap that overlaps a poll spoils the first until poll reads *)
(* every tag as new again.                                                 *)
SlotsTellTheShelf ==
  settled /\ previous = TagsOf(readings) =>
    /\ ~mixed => \A t \in Tags, s \in Slots :
                   where[t] = s => status[s] = "occupied" /\ tag[s] = t
    /\ \A s \in Slots : status[s] = "occupied" => where[tag[s]] = s \/ tag[s] \in unseen
=============================================================================
