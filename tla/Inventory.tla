------------------------------ MODULE Inventory ------------------------------
(***************************************************************************)
(* The slot tracker of core/inventory_engine.py.  The hardware-worker      *)
(* thread polls the RFID readers every two seconds, compares the tags it   *)
(* sees with the tags of the previous poll, and turns each difference into *)
(* a change of a slot and an event.  The UI thread shares the engine's     *)
(* fields without a lock: it pauses RFID, switches on stock loading, opens *)
(* a session, and resets the slots after a reader swap.  The crew moves    *)
(* cans at any moment.  The slots' LEDs are left out: the tracker is only  *)
(* one of their four writers, beside the weight alarm and the screens of   *)
(* loading and mixing.                                                     *)
(*                                                                         *)
(* One step of the hardware thread is one handler call of a poll, so the   *)
(* crew and the UI thread act between any two handlers.  Weights are left  *)
(* to another module; here a reading is the pair <<slot, tag>>.            *)
(***************************************************************************)
EXTENDS Naturals, FiniteSets

CONSTANTS
  N,              \* number of slots; each has one reader
  Tags,           \* the tags glued to the cans
  NoTag,          \* a slot's current_tag_id when it is None
  InUseAfter,     \* CAN_REMOVAL_TIMEOUT_S, in ticks
  ConsumedAfter,  \* CAN_REMOVAL_CONSUMED_TIMEOUT_S, in ticks
  Screens,        \* the screens the crew opens, a subset of AllScreens
  Env             \* what the environment may do, a subset of AllEnv

AllScreens == {"home", "tag_writer", "stock_loading", "shelf_map", "mixing"}
AllEnv == {"session",       \* the crew opens and closes mixing sessions
           "fast_moves",    \* two changes of the shelf within one poll interval
           "missed_reads",  \* a reader misses its tag although the driver is healthy
           "outage",        \* rfid.is_healthy() turns FALSE and TRUE again
           "restart",       \* the process dies and a new one is started
           "clock_jump"}    \* the wall clock jumps forward

ASSUME NAssumption == N \in Nat \ {0}
ASSUME TagAssumption == NoTag \notin Tags
ASSUME TimeoutAssumption ==
  InUseAfter \in Nat \ {0} /\ ConsumedAfter \in Nat /\ InUseAfter < ConsumedAfter
ASSUME ScreenAssumption == "home" \in Screens /\ Screens \subseteq AllScreens
ASSUME EnvAssumption == Env \subseteq AllEnv

Slots == 1 .. N
Away == 0                         \* the place of a can that is on no slot
Status == {"empty", "occupied", "removed", "in_use"}
Out == {"removed", "in_use"}      \* the can was taken and not seen since

Event == [type : {"can_placed", "can_returned", "can_moved", "can_wrong_slot",
                  "can_removed", "unauthorized_removal", "can_consumed"},
          slot : Slots, tag : Tags \cup {NoTag}]

VARIABLES
  where,      \* the slot each can stands on, or Away (the real shelf)
  healthy,    \* what rfid.is_healthy() answers
  screen,     \* the screen that is open
  activeSession,  \* active_session
  uiPc,       \* the UI thread's place in notify_reader_swap
  status, tag,  \* Slot.status, Slot.current_tag_id
  age,        \* ticks since Slot.last_change_time, counted while the can is out
  timed,      \* the keys of _removal_times
  persisted,  \* the slot_state table
  previous,   \* _previous_tags
  readings,   \* the readings of the latest RFID poll
  todo,       \* the tags the current loop of poll has still to handle
  pc,         \* the hardware thread's place in poll
  checked,    \* has the timeout check run since the last tick?
  emitted     \* the events the last step published

shelfVars == <<where, healthy>>
uiVars    == <<screen, activeSession, uiPc>>
slotVars  == <<status, tag, age, timed, persisted>>
pollVars  == <<previous, readings, todo, pc, checked>>
vars == <<shelfVars, uiVars, slotVars, pollVars, emitted>>

Present == {r \in Slots \X Tags : where[r[2]] = r[1]}
TagsOf_KeepsReadings(rs) == rs
TagsOf(rs) == {r[2] : r \in rs}
Change(f, S, v) == [s \in Slots |-> IF s \in S THEN v ELSE f[s]]
First(S) == CHOOSE s \in S : \A x \in S : s <= x

rfidPaused   == screen = "tag_writer"
stockLoading == screen = "stock_loading"

ShelfOK == /\ where \in [Tags -> Slots \cup {Away}]
           /\ healthy \in BOOLEAN

UiOK == /\ screen \in Screens
        /\ activeSession \in BOOLEAN
        /\ uiPc \in {"idle", "swapped", "forgotten", "reset"}

SlotsOK == /\ status \in [Slots -> Status]
           /\ tag \in [Slots -> Tags \cup {NoTag}]
           /\ age \in [Slots -> 0 .. ConsumedAfter]
           /\ timed \subseteq Slots
           /\ persisted \in [Slots -> Status \X (Tags \cup {NoTag})]

PollOK == /\ previous \subseteq Tags
          /\ readings \subseteq Slots \X Tags
          /\ todo \subseteq Tags
          /\ pc \in {"idle", "appear", "gone", "timeouts", "down"}
          /\ checked \in BOOLEAN

(* The types of the engine's fields: in particular a slot only ever has a  *)
(* status the code gives it (never ANOMALY) and the poll keeps tag ids,    *)
(* not readings.                                                           *)
TypeOK == ShelfOK /\ UiOK /\ SlotsOK /\ PollOK /\ emitted \subseteq Event

(* A fresh engine: rebuild_shelves builds empty slots, whatever slot_state *)
(* holds.                                                                  *)
Init ==
  /\ where \in {w \in [Tags -> Slots \cup {Away}] :
                  \A t, u \in Tags : w[t] = w[u] /\ w[t] # Away => t = u}
  /\ healthy = TRUE
  /\ persisted = [s \in Slots |-> <<"empty", NoTag>>]
  /\ uiPc = "idle" /\ screen = "home" /\ activeSession = FALSE
  /\ status = [s \in Slots |-> "empty"]
  /\ tag = [s \in Slots |-> NoTag]
  /\ age = [s \in Slots |-> 0]
  /\ timed = {}
  /\ previous = {} /\ readings = {} /\ todo = {}
  /\ pc = "idle" /\ checked = TRUE
  /\ emitted = {}

-----------------------------------------------------------------------------
(* The hardware thread: InventoryEngine.poll.                              *)

(* Every healthy reader reports the tag it sees; a reader that times out   *)
(* or fails reports nothing while the driver as a whole stays healthy.     *)
Snapshots == IF "missed_reads" \in Env THEN SUBSET Present ELSE {Present}

NewTags_Swapped(rs) == previous \ TagsOf(rs)
NewTags(rs) == TagsOf(rs) \ previous
GoneTags_Swapped == TagsOf(readings) \ previous
GoneTags == previous \ TagsOf(readings)

PollRfid ==
  /\ pc = "idle" /\ healthy /\ ~rfidPaused
  /\ \E rs \in Snapshots : readings' = rs /\ todo' = NewTags(rs)
  /\ pc' = "appear"
  /\ emitted' = {}
  /\ UNCHANGED <<shelfVars, uiVars, slotVars, previous, checked>>

PollDown ==
  /\ pc = "idle" /\ (~healthy \/ rfidPaused)
  /\ previous' = {}
  /\ pc' = "timeouts"
  /\ emitted' = {}
  /\ UNCHANGED <<shelfVars, uiVars, slotVars, readings, todo, checked>>

(* _persist_slot_state for the slots in S, after they have changed.        *)
Persist_Early(S) ==
  persisted' = [s \in Slots |-> IF s \in S THEN <<status[s], tag[s]>> ELSE persisted[s]]
Persist(S) ==
  persisted' = [s \in Slots |-> IF s \in S THEN <<status'[s], tag'[s]>> ELSE persisted[s]]

(* _find_slot_with_removed_tag, once slot s holds the tag itself.          *)
Sources_RemovedOnly(s, t) == {x \in Slots \ {s} : status[x] = "removed" /\ tag[x] = t}
Sources(s, t) == {x \in Slots \ {s} : status[x] \in Out /\ tag[x] = t}

StopTimers_OfTarget(s, source) == timed' = timed \ {s}
StopTimers(s, source) == timed' = timed \ ({s} \cup source)

(* _handle_tag_appeared for tag t, read in slot s.                         *)
TagAppeared(s, t) ==
  LET wasRemoved == status[s] = "removed"
      sameCan == wasRemoved /\ tag[s] = t
      moved == ~stockLoading /\ ~sameCan /\ Sources(s, t) # {}
      wrong == ~stockLoading /\ ~sameCan /\ Sources(s, t) = {} /\ wasRemoved
      source == IF moved THEN {First(Sources(s, t))} ELSE {}
      type == IF moved THEN "can_moved" ELSE IF wrong THEN "can_wrong_slot"
              ELSE IF sameCan THEN "can_returned" ELSE "can_placed"
  IN /\ status' = Change(Change(status, source, "empty"), {s}, "occupied")
     /\ tag' = Change(Change(tag, source, NoTag), {s}, t)
     /\ age' = Change(age, {s} \cup source, 0)
     /\ StopTimers(s, source)
     /\ Persist({s} \cup source)
     /\ emitted' = IF stockLoading THEN {}
                   ELSE {[type |-> type, slot |-> s, tag |-> t]}

HandleAppeared ==
  /\ pc = "appear"
  /\ \E r \in readings : /\ r[2] \in todo
                         /\ TagAppeared(r[1], r[2])
                         /\ todo' = todo \ {r[2]}
  /\ UNCHANGED <<shelfVars, uiVars, previous, readings, pc, checked>>

(* gone_tags is computed only now, from the field as it is now.            *)
AppearedDone ==
  /\ pc = "appear" /\ todo = {}
  /\ todo' = GoneTags
  /\ pc' = "gone"
  /\ emitted' = {}
  /\ UNCHANGED <<shelfVars, uiVars, slotVars, previous, readings, checked>>

(* _handle_tag_disappeared: the first slot that records the tag, whatever  *)
(* its status, becomes REMOVED; a tag no slot records is ignored.          *)
TagDisappeared(t) ==
  LET holders == {x \in Slots : tag[x] = t}
      s == First(holders)
  IN IF holders = {}
     THEN emitted' = {} /\ UNCHANGED slotVars
     ELSE /\ status' = [status EXCEPT ![s] = "removed"]
          /\ age' = [age EXCEPT ![s] = 0]
          /\ timed' = timed \cup {s}
          /\ emitted' = {[type |-> IF activeSession THEN "can_removed"
                                   ELSE "unauthorized_removal",
                          slot |-> s, tag |-> t]}
          /\ UNCHANGED tag
          /\ Persist({s})

HandleDisappeared ==
  /\ pc = "gone"
  /\ \E t \in todo : TagDisappeared(t) /\ todo' = todo \ {t}
  /\ UNCHANGED <<shelfVars, uiVars, previous, readings, pc, checked>>

DisappearedDone ==
  /\ pc = "gone" /\ todo = {}
  /\ previous' = TagsOf(readings)
  /\ pc' = "timeouts"
  /\ emitted' = {}
  /\ UNCHANGED <<shelfVars, uiVars, slotVars, readings, todo, checked>>

(* _check_removal_timeouts ends every poll, the ones that skip RFID too.   *)
CheckTimeouts ==
  LET running == {s \in timed : status[s] = "removed"}
      due == {s \in running : age[s] >= ConsumedAfter}
      overdue == {s \in running \ due : age[s] >= InUseAfter}
  IN /\ pc \in {"idle", "timeouts"}
     /\ status' = Change(Change(status, due, "empty"), overdue, "in_use")
     /\ tag' = Change(tag, due, NoTag)
     /\ age' = Change(age, due, 0)
     /\ timed' = running \ due
     /\ Persist(due)
     /\ emitted' = {[type |-> "can_consumed", slot |-> s, tag |-> NoTag] : s \in due}
     /\ pc' = "idle" /\ checked' = TRUE
     /\ UNCHANGED <<shelfVars, uiVars, previous, readings, todo>>

HwStep == PollRfid \/ PollDown \/ HandleAppeared \/ AppearedDone
            \/ HandleDisappeared \/ DisappearedDone \/ CheckTimeouts

-----------------------------------------------------------------------------
(* The UI thread.                                                          *)

GoScreen(x) ==
  /\ pc # "down" /\ uiPc = "idle" /\ x # screen
  /\ screen' = x
  /\ emitted' = {}
  /\ UNCHANGED <<shelfVars, activeSession, uiPc, slotVars, pollVars>>

(* The mixing screen of ui/ sets active_session for the length of a        *)
(* session; the one of ui_qt/ never does.                                  *)
SwitchSession ==
  /\ "session" \in Env /\ pc # "down" /\ uiPc = "idle"
  /\ activeSession' = ~activeSession
  /\ emitted' = {}
  /\ UNCHANGED <<shelfVars, screen, uiPc, slotVars, pollVars>>

(* swap_readers exchanges the reader ids of two readers: from now on the   *)
(* cans of slot a are read in slot b.  notify_reader_swap follows in       *)
(* three statements, and the hardware thread may run between them.         *)
SwapReaders(a, b) ==
  /\ screen = "shelf_map" /\ uiPc = "idle" /\ a < b
  /\ where' = [t \in Tags |-> CASE where[t] = a -> b
                                [] where[t] = b -> a
                                [] OTHER -> where[t]]
  /\ uiPc' = "swapped"
  /\ emitted' = {}
  /\ UNCHANGED <<healthy, screen, activeSession, slotVars, pollVars>>

SwapForgetTags_KeepsThem ==
  /\ uiPc = "swapped" /\ uiPc' = "forgotten"
  /\ emitted' = {}
  /\ UNCHANGED <<shelfVars, screen, activeSession, slotVars, pollVars>>
SwapForgetTags ==
  /\ uiPc = "swapped" /\ uiPc' = "forgotten"
  /\ previous' = {}
  /\ emitted' = {}
  /\ UNCHANGED <<shelfVars, screen, activeSession, slotVars, readings, todo, pc, checked>>

SwapResetSlots ==
  /\ uiPc = "forgotten" /\ uiPc' = "reset"
  /\ status' = [s \in Slots |-> "empty"]
  /\ tag' = [s \in Slots |-> NoTag]
  /\ age' = [s \in Slots |-> 0]
  /\ emitted' = {}
  /\ UNCHANGED <<shelfVars, screen, activeSession, timed, pollVars>>
  /\ Persist({s \in Slots : status[s] # "empty"})

SwapClearTimers ==
  /\ uiPc = "reset" /\ uiPc' = "idle"
  /\ timed' = {}
  /\ emitted' = {}
  /\ UNCHANGED <<shelfVars, screen, activeSession, status, tag, age, persisted,
                 pollVars>>

UiStep == SwapForgetTags \/ SwapResetSlots \/ SwapClearTimers

-----------------------------------------------------------------------------
(* The crew, the hardware and the clock.                                   *)

(* A crew that moves one can per poll interval leaves each change to be    *)
(* seen by a poll before it makes the next, but makes as many as it likes  *)
(* while the process is down or poll has forgotten the tags.               *)
forgotten == pc \in {"idle", "timeouts"} /\ previous = {} /\ (~healthy \/ rfidPaused)
MayMove == "fast_moves" \in Env \/ readings = Present \/ pc = "down" \/ forgotten

TakeCan(t) ==
  /\ MayMove /\ where[t] # Away
  /\ where' = [where EXCEPT ![t] = Away]
  /\ emitted' = {}
  /\ UNCHANGED <<healthy, uiVars, slotVars, pollVars>>

PutCan(t, s) ==
  /\ MayMove /\ where[t] = Away
  /\ \A u \in Tags : where[u] # s
  /\ where' = [where EXCEPT ![t] = s]
  /\ emitted' = {}
  /\ UNCHANGED <<healthy, uiVars, slotVars, pollVars>>

RfidHealth ==
  /\ "outage" \in Env
  /\ healthy' = ~healthy
  /\ emitted' = {}
  /\ UNCHANGED <<where, uiVars, slotVars, pollVars>>

(* A tick is a good part of an hour: many polls run between two ticks      *)
(* unless the wall clock itself jumps.                                     *)
Tick ==
  /\ pc = "idle" /\ (checked \/ "clock_jump" \in Env)
  /\ \E s \in Slots : status[s] \in Out /\ age[s] < ConsumedAfter
  /\ age' = [s \in Slots |-> IF status[s] \in Out /\ age[s] < ConsumedAfter
                             THEN age[s] + 1 ELSE age[s]]
  /\ checked' = FALSE
  /\ emitted' = {}
  /\ UNCHANGED <<shelfVars, uiVars, status, tag, timed, persisted,
                 previous, readings, todo, pc>>

(* The process dies; everything but the shelf and slot_state is lost.  A   *)
(* new one starts as Init says, and does not read slot_state back.         *)
Crash ==
  /\ "restart" \in Env /\ pc # "down" /\ pc' = "down"
  /\ uiPc' = "idle" /\ screen' = "home" /\ activeSession' = FALSE
  /\ status' = [s \in Slots |-> "empty"]
  /\ tag' = [s \in Slots |-> NoTag]
  /\ age' = [s \in Slots |-> 0]
  /\ timed' = {}
  /\ previous' = {} /\ readings' = {} /\ todo' = {}
  /\ checked' = TRUE
  /\ emitted' = {}
  /\ UNCHANGED <<shelfVars, persisted>>

Start ==
  /\ pc = "down" /\ pc' = "idle"
  /\ emitted' = {}
  /\ UNCHANGED <<shelfVars, uiVars, status, tag, age, timed, persisted,
                 previous, readings, todo, checked>>

Crew == \/ \E t \in Tags : TakeCan(t) \/ \E s \in Slots : PutCan(t, s)
        \/ SwitchSession \/ \E x \in Screens : GoScreen(x)
        \/ \E a, b \in Slots : SwapReaders(a, b)

Next == HwStep \/ UiStep \/ Crew \/ RfidHealth \/ Tick \/ Crash \/ Start

Spec == Init /\ [][Next]_vars

(* The hardware worker loops as long as the process lives, and a UI        *)
(* handler that has started runs to its end; nothing else is owed.         *)
Fairness == WF_vars(PollRfid \/ PollDown) /\ WF_vars(HandleAppeared)
              /\ WF_vars(AppearedDone) /\ WF_vars(HandleDisappeared)
              /\ WF_vars(DisappearedDone) /\ WF_vars(pc = "timeouts" /\ CheckTimeouts)
              /\ WF_vars(UiStep)

FairSpec == Spec /\ Fairness

-----------------------------------------------------------------------------
(* No can is recorded in two slots: where a can reappears, the slot it was *)
(* taken from is cleaned up in the same handler.                           *)
OneSlotPerTag == \A a, b \in Slots : tag[a] = tag[b] /\ tag[a] # NoTag => a = b

(* The removal timers run for exactly the cans that are out: a REMOVED     *)
(* slot is never without its timer, and no timer runs for a slot whose can *)
(* is back or was never there.                                             *)
TimersMatch == \A s \in Slots : /\ status[s] = "removed" => s \in timed
                                /\ s \in timed => status[s] \in Out

(* An empty slot has no tag and every other slot has one, so the tag-less  *)
(* can_consumed and the swap reset leave no slot half cleared.             *)
EmptyIsUntagged == \A s \in Slots : status[s] = "empty" <=> tag[s] = NoTag

(* The tags poll has compared, or will compare, with the next readings.    *)
compared == IF pc = "appear" THEN previous \cup (TagsOf(readings) \ todo)
            ELSE IF pc = "gone" THEN TagsOf(readings) \cup todo ELSE previous

(* No can on a slot drops out of the comparison that would notice its      *)
(* removal, at any point of a poll: what an OCCUPIED slot records is       *)
(* compared with the next readings, and a tag still to be handled as new   *)
(* was not seen before.                                                    *)
OccupiedIsTracked ==
  /\ \A s \in Slots : status[s] = "occupied" => tag[s] \in compared
  /\ pc = "appear" => todo \cap previous = {}
=============================================================================
