----------------------------- MODULE RfidReaders -----------------------------
(***************************************************************************)
(* The readers of hal/real/real_rfid_multi_pn532.py: one per USB port, each *)
(* with the number of the slot it stands for.  The driver numbers the      *)
(* ports it finds; a map saved when the crew swaps two readers overrides   *)
(* that at the next start.  A poll asks every reader in a thread of its    *)
(* own while the UI thread swaps; a reader that has failed is connected    *)
(* again by a later poll, and a poll in which that takes more than two     *)
(* seconds raises instead of returning what it has.                        *)
(***************************************************************************)
EXTENDS Naturals

CONSTANTS
  MaxPort,     \* the USB ports are 1 .. MaxPort, in the order of their names
  MaxSwaps     \* bound: the swaps

ReaderAssumption == MaxPort \in Nat /\ MaxSwaps \in Nat

Ports == 1 .. MaxPort
SlotIds == 1 .. MaxPort

VARIABLES
  readers,     \* the ports with a reader, the values of _readers
  slotOf,      \* reader_id of each of them, 0 for the other ports
  healthy,     \* the readers that are healthy
  saved,       \* the configuration rfid_reader_map: the slot of a port, or 0
  cans,        \* the ports with a can on the reader
  todo,        \* the readers the running poll has not heard of
  polling,     \* is there a running poll?
  got,         \* what it has got: pairs of a can (named by its port) and a slot
  ui,          \* the UI thread: idle, or about to save the map
  lostSave,    \* has a save of the map failed?
  changed,     \* the ports where something changed since the poll began
  swaps,       \* counts the swaps
  again        \* has the program started again?  That resets all a poll reads, so
               \* polls are looked at before

readerVars == <<readers, slotOf, healthy>>
pollVars   == <<todo, polling, got, changed>>
vars == <<readerVars, saved, cans, pollVars, ui, lostSave, swaps, again>>

TypeOK ==
  /\ readers \subseteq Ports /\ slotOf \in [Ports -> SlotIds \cup {0}]
  /\ healthy \subseteq readers
  /\ saved \in [Ports -> SlotIds \cup {0}] /\ cans \subseteq Ports
  /\ todo \subseteq readers /\ polling \in BOOLEAN
  /\ got \subseteq Ports \X SlotIds
  /\ ui \in {"idle", "swapped"} /\ lostSave \in BOOLEAN /\ changed \subseteq Ports
  /\ swaps \in 0 .. MaxSwaps /\ again \in BOOLEAN

-----------------------------------------------------------------------------
(* The ports get the lowest of the slots, in the order of both.            *)
InOrder(ports, slots) ==
  {f \in [ports -> slots] :
     /\ \A p, q \in ports : p < q => f[p] < f[q]
     /\ \A p \in ports, s \in slots : s < f[p] => \E q \in ports : f[q] = s}

(* initialize numbers the ports it finds, if a reader answers there or     *)
(* not.  apply_saved_mapping: a port of the map gets its slot back, the    *)
(* others get the slots that are free.                                     *)
Unknown(answering) == {p \in answering : saved[p] = 0}
Free_All(answering) == SlotIds
Free(answering) == SlotIds \ {saved[p] : p \in answering}

Restored_Never(auto, rest, answering) == [p \in Ports |-> IF p \in answering THEN auto[p] ELSE 0]
Restored(auto, rest, answering) ==
  [p \in Ports |-> IF p \notin answering THEN 0
                    ELSE IF saved[p] # 0 THEN saved[p]
                    ELSE IF \A q \in Ports : saved[q] = 0 THEN auto[p]
                    ELSE rest[p]]

(* The program starts, with the ports that are plugged in just then.       *)
Boot ==
  /\ again' = TRUE
  /\ \E found \in SUBSET Ports : \E auto \in InOrder(found, SlotIds) :
       \E answering \in SUBSET found \ {{}} :
         \E rest \in InOrder(Unknown(answering), Free(answering)) :
           /\ readers' = answering
           /\ slotOf' = Restored(auto, rest, answering)
  /\ healthy' = readers'
  /\ todo' = {} /\ polling' = FALSE /\ got' = {} /\ changed' = {}
  /\ ui' = "idle"
  /\ UNCHANGED <<saved, cans, lostSave, swaps>>

Init ==
  /\ readers = Ports /\ slotOf = [p \in Ports |-> p] /\ healthy = Ports
  /\ saved = [p \in Ports |-> 0] /\ cans \in SUBSET Ports
  /\ todo = {} /\ polling = FALSE /\ got = {} /\ changed = {}
  /\ ui = "idle" /\ lostSave = FALSE /\ swaps = 0 /\ again = FALSE

-----------------------------------------------------------------------------
(* poll_tags, _poll_parallel.                                              *)
PollBegin ==
  /\ ~polling /\ ~again /\ polling' = TRUE
  /\ todo' = readers /\ got' = {} /\ changed' = {}
  /\ UNCHANGED <<readerVars, saved, cans, ui, lostSave, swaps, again>>

(* _poll_one_reader: the reading carries the number the reader has now.    *)
Reading_Port(p) == <<p, p>>
Reading(p) == <<p, slotOf[p]>>
PollOne(p) ==
  /\ polling /\ p \in todo \cap healthy /\ todo' = todo \ {p}
  /\ got' = IF p \in cans THEN got \cup {Reading(p)} ELSE got
  /\ UNCHANGED <<readerVars, saved, cans, polling, ui, changed, lostSave, swaps, again>>

(* An error, or a reader that is lost: no reading.  _try_reconnect_reader  *)
(* may come too soon, and then leaves the reader as it is.                 *)
PollFails(p) ==
  /\ polling /\ p \in todo /\ todo' = todo \ {p}
  /\ healthy' \in {healthy \cup {p}, healthy \ {p}}
  /\ changed' = changed \cup {p}
  /\ UNCHANGED <<readers, slotOf, saved, cans, polling, got, ui, lostSave, swaps, again>>

PollEnd ==
  /\ polling /\ todo = {} /\ polling' = FALSE
  /\ got' = {} /\ changed' = {}
  /\ UNCHANGED <<readerVars, saved, cans, todo, ui, lostSave, swaps, again>>

(* as_completed gives up while a reader is being connected.  The exception *)
(* ends the worker's poll; the reader's thread goes on for itself.         *)
PollTimesOut(p) ==
  /\ polling /\ p \in todo
  /\ polling' = FALSE /\ todo' = {} /\ got' = {} /\ changed' = {}
  /\ healthy' \in {healthy \cup {p}, healthy \ {p}}
  /\ UNCHANGED <<readers, slotOf, saved, cans, ui, lostSave, swaps, again>>

-----------------------------------------------------------------------------
(* _do_swap of the shelf map: swap_readers and, if both exist, the map is  *)
(* saved.                                                                  *)
Swapped_Half(p, q) == [slotOf EXCEPT ![p] = slotOf[q]]
Swapped(p, q) == [slotOf EXCEPT ![p] = slotOf[q], ![q] = slotOf[p]]
Swap(p, q) ==
  /\ ui = "idle" /\ swaps < MaxSwaps /\ swaps' = swaps + 1
  /\ {p, q} \subseteq readers /\ p < q
  /\ slotOf' = Swapped(p, q)
  /\ ui' = "swapped" /\ changed' = changed \cup {p, q}
  /\ UNCHANGED <<readers, healthy, saved, cans, todo, polling, got, lostSave, again>>

(* _save_reader_mapping stores get_mapping, whole.                         *)
SaveMap ==
  /\ ui = "swapped" /\ ui' = "idle"
  /\ \/ saved' = slotOf /\ lostSave' = FALSE
     \/ saved' = saved /\ lostSave' = TRUE
  /\ UNCHANGED <<readerVars, cans, pollVars, swaps, again>>

Next ==
  \/ Boot \/ PollBegin \/ PollEnd \/ SaveMap
  \/ \E p \in Ports : \/ PollOne(p) \/ PollFails(p) \/ PollTimesOut(p)
                      \/ \E q \in Ports : Swap(p, q)

Spec == Init /\ [][Next]_vars

-----------------------------------------------------------------------------
(* No two readers stand for the same slot, whatever was plugged in when,   *)
(* and a reader of the saved map stands for the slot the map gives it.     *)
ReadersKeepSlots ==
  /\ \A p, q \in readers : slotOf[p] = slotOf[q] => p = q
  /\ ui = "idle" /\ ~lostSave =>
       \A p \in readers : saved[p] # 0 => slotOf[p] = saved[p]

(* What a poll returns is complete: the can on every reader that neither   *)
(* failed nor was swapped during the poll is in it, in the slot the reader *)
(* stands for, and nothing else is said of those readers.                  *)
PollTellsAll ==
  PollEnd => \A p \in readers \ changed :
    {r \in got : r[1] = p} = IF p \in cans THEN {<<p, slotOf[p]>>} ELSE {}
PollIsComplete == [][PollTellsAll]_vars
=============================================================================
