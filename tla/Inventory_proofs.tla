--------------------------- MODULE Inventory_proofs ---------------------------
(***************************************************************************)
(* Proofs about the slot tracker, for any number of slots and cans.        *)
(***************************************************************************)
EXTENDS MCInventory, WellFoundedInduction, TLAPS

(* A set of slots that is not empty has a first one, the one the loops of  *)
(* the engine find.                                                        *)
LEMMA FirstIsMember ==
  ASSUME NEW S, S \subseteq Slots, S # {}
  PROVE  First(S) \in S
<1>1. S \subseteq Nat
  BY NAssumption DEF Slots
<1>2. PICK x \in S : \A y \in S : ~ (<<y, x>> \in OpToRel(<, Nat))
  BY <1>1, NatLessThanWellFounded, WFMin
<1>3. \A y \in S : ~ (y < x)
  BY <1>1, <1>2 DEF OpToRel
<1>4. \A y \in S : x <= y
  BY <1>1, <1>3
<1>5. QED
  BY <1>4 DEF First

LEMMA ZeroIsAge == 0 \in 0 .. ConsumedAfter
BY TimeoutAssumption

(* Change alters a slot function only by values of its range.              *)
LEMMA ChangeType ==
  ASSUME NEW R, NEW f \in [Slots -> R], NEW S, NEW v \in R
  PROVE  Change(f, S, v) \in [Slots -> R]
BY DEF Change

LEMMA SourcesType ==
  ASSUME NEW s, NEW t
  PROVE  Sources(s, t) \subseteq Slots
BY DEF Sources

(* What is saved is well typed if what it is saved from is.                *)
LEMMA PersistType ==
  ASSUME NEW S, Persist(S),
         persisted \in [Slots -> Status \X (Tags \cup {NoTag})],
         status' \in [Slots -> Status], tag' \in [Slots -> Tags \cup {NoTag}]
  PROVE  persisted' \in [Slots -> Status \X (Tags \cup {NoTag})]
BY DEF Persist

(* The handlers keep the types of the slots and publish events.            *)
LEMMA TagAppearedType ==
  ASSUME SlotsOK, NEW s \in Slots, NEW t \in Tags, TagAppeared(s, t)
  PROVE  SlotsOK' /\ emitted' \subseteq Event
<1> DEFINE wasRemoved == status[s] = "removed"
           sameCan == wasRemoved /\ tag[s] = t
           moved == ~stockLoading /\ ~sameCan /\ Sources(s, t) # {}
           source == IF moved THEN {First(Sources(s, t))} ELSE {}
<1>1. source \subseteq Slots
  BY FirstIsMember, SourcesType
<1>2. /\ status' = Change(Change(status, source, "empty"), {s}, "occupied")
      /\ tag' = Change(Change(tag, source, NoTag), {s}, t)
      /\ age' = Change(age, {s} \cup source, 0)
      /\ timed' = timed \ ({s} \cup source)
      /\ Persist({s} \cup source)
  BY DEF TagAppeared, StopTimers
<1>3. status' \in [Slots -> Status]
  <2>1. Change(status, source, "empty") \in [Slots -> Status]
    BY ChangeType DEF SlotsOK, Status
  <2>2. QED
    BY <1>2, <2>1, ChangeType DEF Status
<1>4. tag' \in [Slots -> Tags \cup {NoTag}]
  <2>1. Change(tag, source, NoTag) \in [Slots -> Tags \cup {NoTag}]
    BY ChangeType DEF SlotsOK
  <2>2. QED
    BY <1>2, <2>1, ChangeType
<1>5. age' \in [Slots -> 0 .. ConsumedAfter]
  BY <1>2, ZeroIsAge, ChangeType DEF SlotsOK
<1>6. timed' \subseteq Slots
  BY <1>2 DEF SlotsOK
<1>8. persisted' \in [Slots -> Status \X (Tags \cup {NoTag})]
  BY <1>2, <1>3, <1>4, PersistType DEF SlotsOK
<1>9. emitted' \subseteq Event
  BY DEF TagAppeared, Event
<1>10. QED
  BY <1>3, <1>4, <1>5, <1>6, <1>8, <1>9 DEF SlotsOK

LEMMA TagDisappearedType ==
  ASSUME SlotsOK, NEW t \in Tags, TagDisappeared(t)
  PROVE  SlotsOK' /\ emitted' \subseteq Event
<1> DEFINE holders == {x \in Slots : tag[x] = t}
           s == First(holders)
<1>1. CASE holders = {}
  BY <1>1 DEF TagDisappeared, SlotsOK, slotVars
<1>2. CASE holders # {}
  <2>1. s \in Slots
    BY <1>2, FirstIsMember
  <2>2. /\ status' = [status EXCEPT ![s] = "removed"]
        /\ age' = [age EXCEPT ![s] = 0]
        /\ timed' = timed \cup {s}
        /\ tag' = tag
        /\ Persist({s})
    BY <1>2 DEF TagDisappeared
  <2>3. status' \in [Slots -> Status] /\ tag' \in [Slots -> Tags \cup {NoTag}]
    BY <2>2 DEF SlotsOK, Status
  <2>4. persisted' \in [Slots -> Status \X (Tags \cup {NoTag})]
    BY <2>2, <2>3, PersistType DEF SlotsOK
  <2>5. age' \in [Slots -> 0 .. ConsumedAfter]
    BY <2>2, ZeroIsAge DEF SlotsOK
  <2>6. timed' \subseteq Slots
    BY <2>1, <2>2 DEF SlotsOK
  <2>7. emitted' \subseteq Event
    BY <1>2, <2>1 DEF TagDisappeared, Event
  <2>8. QED
    BY <2>3, <2>4, <2>5, <2>6, <2>7 DEF SlotsOK
<1>3. QED
  BY <1>1, <1>2

LEMMA CheckTimeoutsType ==
  ASSUME SlotsOK, CheckTimeouts
  PROVE  SlotsOK' /\ emitted' \subseteq Event
<1> DEFINE running == {s \in timed : status[s] = "removed"}
           due == {s \in running : age[s] >= ConsumedAfter}
           overdue == {s \in running \ due : age[s] >= InUseAfter}
<1>1. /\ status' = Change(Change(status, due, "empty"), overdue, "in_use")
      /\ tag' = Change(tag, due, NoTag)
      /\ age' = Change(age, due, 0)
      /\ timed' = running \ due
      /\ Persist(due)
  BY DEF CheckTimeouts
<1>2. status' \in [Slots -> Status]
  <2>1. Change(status, due, "empty") \in [Slots -> Status]
    BY ChangeType DEF SlotsOK, Status
  <2>2. QED
    BY <1>1, <2>1, ChangeType DEF Status
<1>3. tag' \in [Slots -> Tags \cup {NoTag}]
  BY <1>1, ChangeType DEF SlotsOK
<1>4. age' \in [Slots -> 0 .. ConsumedAfter]
  BY <1>1, ZeroIsAge, ChangeType DEF SlotsOK
<1>5. persisted' \in [Slots -> Status \X (Tags \cup {NoTag})]
  BY <1>1, <1>2, <1>3, PersistType DEF SlotsOK
<1>6. timed' \subseteq Slots
  BY <1>1 DEF SlotsOK
<1>7. emitted' \subseteq Event
  BY DEF CheckTimeouts, Event, SlotsOK
<1>8. QED
  BY <1>2, <1>3, <1>4, <1>5, <1>6, <1>7 DEF SlotsOK

LEMMA TypeStep == TypeOK /\ [Next]_vars => TypeOK'
<1> SUFFICES ASSUME TypeOK, [Next]_vars
             PROVE  TypeOK'
  OBVIOUS
<1> USE DEF TypeOK
<1>1. CASE PollRfid
  <2>1. \A rs \in Snapshots : rs \subseteq Slots \X Tags
    BY DEF Snapshots, Present
  <2>2. PICK rs \in Snapshots : readings' = rs /\ todo' = NewTags(rs)
    BY <1>1 DEF PollRfid
  <2>3. readings' \subseteq Slots \X Tags /\ todo' \subseteq Tags
    BY <2>1, <2>2 DEF NewTags, TagsOf
  <2>4. QED
    BY <1>1, <2>3 DEF PollRfid, ShelfOK, UiOK, SlotsOK, PollOK, shelfVars, uiVars, slotVars
<1>2. CASE PollDown
  BY <1>2 DEF PollDown, ShelfOK, UiOK, SlotsOK, PollOK, shelfVars, uiVars, slotVars
<1>3. CASE HandleAppeared
  <2>1. PICK r \in readings : /\ r[2] \in todo
                             /\ TagAppeared(r[1], r[2])
                             /\ todo' = todo \ {r[2]}
    BY <1>3 DEF HandleAppeared
  <2>2. r[1] \in Slots /\ r[2] \in Tags
    BY <2>1 DEF PollOK
  <2>3. SlotsOK' /\ emitted' \subseteq Event
    BY <2>1, <2>2, TagAppearedType
  <2>4. QED
    BY <1>3, <2>1, <2>3 DEF HandleAppeared, ShelfOK, UiOK, PollOK, shelfVars, uiVars
<1>4. CASE AppearedDone
  BY <1>4 DEF AppearedDone, GoneTags, ShelfOK, UiOK, SlotsOK, PollOK, shelfVars, uiVars, slotVars
<1>5. CASE HandleDisappeared
  <2>1. PICK t \in todo : TagDisappeared(t) /\ todo' = todo \ {t}
    BY <1>5 DEF HandleDisappeared
  <2>2. SlotsOK' /\ emitted' \subseteq Event
    BY <2>1, TagDisappearedType DEF PollOK
  <2>3. QED
    BY <1>5, <2>1, <2>2 DEF HandleDisappeared, ShelfOK, UiOK, PollOK, shelfVars, uiVars
<1>6. CASE DisappearedDone
  <2>1. previous' \subseteq Tags
    BY <1>6 DEF DisappearedDone, TagsOf, PollOK
  <2>2. QED
    BY <1>6, <2>1 DEF DisappearedDone, ShelfOK, UiOK, SlotsOK, PollOK, shelfVars, uiVars, slotVars
<1>7. CASE CheckTimeouts
  <2>1. SlotsOK' /\ emitted' \subseteq Event
    BY <1>7, CheckTimeoutsType
  <2>2. QED
    BY <1>7, <2>1 DEF CheckTimeouts, ShelfOK, UiOK, PollOK, shelfVars, uiVars
<1>8. CASE UiStep
  <2>1. CASE SwapForgetTags
    BY <2>1 DEF SwapForgetTags, ShelfOK, UiOK, SlotsOK, PollOK, shelfVars, slotVars
  <2>2. CASE SwapResetSlots
    <3>1. status' \in [Slots -> Status] /\ tag' \in [Slots -> Tags \cup {NoTag}]
      BY <2>2 DEF SwapResetSlots, Status
    <3>2. persisted' \in [Slots -> Status \X (Tags \cup {NoTag})]
      BY <2>2, <3>1, PersistType DEF SwapResetSlots, SlotsOK
    <3>3. age' \in [Slots -> 0 .. ConsumedAfter]
      BY <2>2, ZeroIsAge DEF SwapResetSlots
    <3>4. QED
      BY <2>2, <3>1, <3>2, <3>3
      DEF SwapResetSlots, ShelfOK, UiOK, SlotsOK, PollOK, shelfVars, pollVars
  <2>3. CASE SwapClearTimers
    BY <2>3 DEF SwapClearTimers, ShelfOK, UiOK, SlotsOK, PollOK, shelfVars, pollVars
  <2>4. QED
    BY <1>8, <2>1, <2>2, <2>3 DEF UiStep
<1>9. CASE Crew
  <2>1. ASSUME NEW t \in Tags, TakeCan(t)
        PROVE  TypeOK'
    BY <2>1 DEF TakeCan, Away, ShelfOK, UiOK, SlotsOK, PollOK, uiVars, slotVars, pollVars
  <2>2. ASSUME NEW t \in Tags, NEW s \in Slots, PutCan(t, s)
        PROVE  TypeOK'
    BY <2>2 DEF PutCan, ShelfOK, UiOK, SlotsOK, PollOK, uiVars, slotVars, pollVars
  <2>3. CASE SwitchSession
    BY <2>3 DEF SwitchSession, ShelfOK, UiOK, SlotsOK, PollOK, shelfVars, slotVars, pollVars
  <2>4. ASSUME NEW x \in Screens, GoScreen(x)
        PROVE  TypeOK'
    BY <2>4 DEF GoScreen, ShelfOK, UiOK, SlotsOK, PollOK, shelfVars, slotVars, pollVars
  <2>5. ASSUME NEW a \in Slots, NEW b \in Slots, SwapReaders(a, b)
        PROVE  TypeOK'
    <3>1. where' \in [Tags -> Slots \cup {Away}]
      BY <2>5 DEF SwapReaders, ShelfOK
    <3>2. QED
      BY <2>5, <3>1 DEF SwapReaders, ShelfOK, UiOK, SlotsOK, PollOK, slotVars, pollVars
  <2>6. QED
    BY <1>9, <2>1, <2>2, <2>3, <2>4, <2>5 DEF Crew
<1>10. CASE RfidHealth
  BY <1>10 DEF RfidHealth, ShelfOK, UiOK, SlotsOK, PollOK, uiVars, slotVars, pollVars
<1>11. CASE Tick
  <2>1. age' \in [Slots -> 0 .. ConsumedAfter]
    <3>1. \A n \in 0 .. ConsumedAfter : n < ConsumedAfter => n + 1 \in 0 .. ConsumedAfter
      BY TimeoutAssumption
    <3>2. QED
      BY <1>11, <3>1 DEF Tick, SlotsOK
  <2>2. QED
    BY <1>11, <2>1 DEF Tick, ShelfOK, UiOK, SlotsOK, PollOK, shelfVars, uiVars
<1>12. CASE Crash
  BY <1>12, ZeroIsAge, ScreenAssumption
  DEF Crash, ShelfOK, UiOK, SlotsOK, PollOK, shelfVars, Status
<1>13. CASE Start
  BY <1>13 DEF Start, ShelfOK, UiOK, SlotsOK, PollOK, shelfVars, uiVars
<1>14. CASE UNCHANGED vars
  BY <1>14 DEF vars, ShelfOK, UiOK, SlotsOK, PollOK, shelfVars, uiVars, slotVars, pollVars
<1>15. QED
  BY <1>1, <1>2, <1>3, <1>4, <1>5, <1>6, <1>7, <1>8, <1>9, <1>10, <1>11, <1>12, <1>13, <1>14
  DEF Next, HwStep

LEMMA InitType == Init => TypeOK
<1>1. Init => SlotsOK
  BY ZeroIsAge DEF Init, SlotsOK, Status
<1>2. Init => ShelfOK /\ UiOK
  BY ScreenAssumption DEF Init, ShelfOK, UiOK
<1>3. Init => PollOK /\ emitted \subseteq Event
  BY DEF Init, PollOK
<1>4. QED
  BY <1>1, <1>2, <1>3 DEF TypeOK

(* The engine's fields keep their types whatever crew, screens, hardware   *)
(* and restarts do.                                                        *)
THEOREM TypeCorrect == Spec => []TypeOK
<1>1. Init => TypeOK
  BY InitType
<1>2. TypeOK /\ [Next]_vars => TypeOK'
  BY TypeStep
<1>3. QED
  BY <1>1, <1>2, PTL DEF Spec

-----------------------------------------------------------------------------
(* With a driver that stays healthy and no screen that pauses RFID, defers *)
(* the handling or swaps readers, no can is ever recorded twice.  A can    *)
(* that reappears is then not OCCUPIED anywhere, because every OCCUPIED    *)
(* slot's tag is still being compared; so the slot that records it is one  *)
(* the handler finds and clears.                                           *)
OrdinaryScreens == Screens \subseteq {"home", "mixing"}
Ordinary == healthy = TRUE /\ screen \in {"home", "mixing"} /\ uiPc = "idle"

OneSlotInv == /\ TypeOK /\ Ordinary
              /\ EmptyIsUntagged /\ OccupiedIsTracked /\ OneSlotPerTag

LEMMA TagAppearedOneSlot ==
  ASSUME OneSlotInv, pc = "appear", NEW s \in Slots, NEW t \in Tags,
         t \in todo, t \in TagsOf(readings), TagAppeared(s, t)
  PROVE  /\ EmptyIsUntagged' /\ OneSlotPerTag'
         /\ \A x \in Slots : status'[x] = "occupied" => tag'[x] \in compared \cup {t}
<1> DEFINE wasRemoved == status[s] = "removed"
           sameCan == wasRemoved /\ tag[s] = t
           moved == ~stockLoading /\ ~sameCan /\ Sources(s, t) # {}
           source == IF moved THEN {First(Sources(s, t))} ELSE {}
<1>1. t # NoTag
  BY TagAssumption
<1>2. ~stockLoading
  BY DEF OneSlotInv, Ordinary, stockLoading
<1>3. /\ status' = Change(Change(status, source, "empty"), {s}, "occupied")
      /\ tag' = Change(Change(tag, source, NoTag), {s}, t)
  BY DEF TagAppeared
<1>4. \A x \in Slots : status[x] = "occupied" => tag[x] # t
  BY DEF OneSlotInv, OccupiedIsTracked, compared
<1>5. \A x \in Slots \ {s} : tag[x] = t => x \in Sources(s, t)
  BY <1>1, <1>4 DEF Sources, Out, Status, OneSlotInv, EmptyIsUntagged, TypeOK, SlotsOK
<1>6. \A x \in Slots \ {s} : tag[x] = t => x \in source
  <2>1. CASE sameCan
    BY <1>1, <2>1 DEF OneSlotInv, OneSlotPerTag
  <2>2. CASE ~sameCan /\ Sources(s, t) = {}
    BY <1>5, <2>2
  <2>3. CASE ~sameCan /\ Sources(s, t) # {}
    <3>1. First(Sources(s, t)) \in Sources(s, t)
      BY <2>3, FirstIsMember, SourcesType
    <3>2. QED
      BY <1>1, <1>2, <1>5, <2>3, <3>1 DEF OneSlotInv, OneSlotPerTag, Sources
  <2>4. QED
    BY <2>1, <2>2, <2>3
<1>7. s \notin source
  BY FirstIsMember, SourcesType DEF Sources
<1>8. /\ status'[s] = "occupied" /\ tag'[s] = t
      /\ \A x \in Slots \ {s} : x \in source => status'[x] = "empty" /\ tag'[x] = NoTag
      /\ \A x \in Slots \ {s} : x \notin source => status'[x] = status[x] /\ tag'[x] = tag[x]
  BY <1>3, <1>7 DEF Change
<1>9. EmptyIsUntagged'
  BY <1>1, <1>8 DEF EmptyIsUntagged, OneSlotInv
<1>10. OneSlotPerTag'
  BY <1>6, <1>8 DEF OneSlotPerTag, OneSlotInv
<1>11. \A x \in Slots : status'[x] = "occupied" => tag'[x] \in compared \cup {t}
  BY <1>8 DEF OneSlotInv, OccupiedIsTracked
<1>12. QED
  BY <1>9, <1>10, <1>11

LEMMA TagDisappearedOneSlot ==
  ASSUME OneSlotInv, NEW t \in Tags, TagDisappeared(t)
  PROVE  /\ tag' = tag /\ EmptyIsUntagged'
         /\ \A x \in Slots : status'[x] = "occupied" => status[x] = "occupied" /\ tag[x] # t
<1> DEFINE holders == {x \in Slots : tag[x] = t}
           s == First(holders)
<1>1. CASE holders = {}
  BY <1>1 DEF TagDisappeared, slotVars, OneSlotInv, EmptyIsUntagged
<1>2. CASE holders # {}
  <2>1. s \in Slots /\ tag[s] = t
    BY <1>2, FirstIsMember
  <2>2. status' = [status EXCEPT ![s] = "removed"] /\ tag' = tag
    BY <1>2 DEF TagDisappeared
  <2>3. t # NoTag
    BY TagAssumption
  <2>4. \A x \in Slots : status'[x] = IF x = s THEN "removed" ELSE status[x]
    BY <2>2 DEF OneSlotInv, TypeOK, SlotsOK
  <2>5. EmptyIsUntagged'
    BY <2>1, <2>2, <2>3, <2>4 DEF EmptyIsUntagged, OneSlotInv
  <2>6. \A x \in Slots : tag[x] = t => x = s
    BY <2>1, <2>3 DEF OneSlotInv, OneSlotPerTag
  <2>7. QED
    BY <2>2, <2>4, <2>5, <2>6
<1>3. QED
  BY <1>1, <1>2

LEMMA CheckTimeoutsOneSlot ==
  ASSUME OneSlotInv, CheckTimeouts
  PROVE  EmptyIsUntagged' /\ OccupiedIsTracked' /\ OneSlotPerTag'
<1> DEFINE running == {s \in timed : status[s] = "removed"}
           due == {s \in running : age[s] >= ConsumedAfter}
           overdue == {s \in running \ due : age[s] >= InUseAfter}
<1>1. /\ status' = Change(Change(status, due, "empty"), overdue, "in_use")
      /\ tag' = Change(tag, due, NoTag)
      /\ previous' = previous /\ pc \in {"idle", "timeouts"} /\ pc' = "idle"
  BY DEF CheckTimeouts
<1>2. \A s \in Slots :
        /\ s \in due => status'[s] = "empty" /\ tag'[s] = NoTag
        /\ s \in overdue => status[s] = "removed" /\ status'[s] = "in_use" /\ tag'[s] = tag[s]
        /\ s \notin due \cup overdue => status'[s] = status[s] /\ tag'[s] = tag[s]
  BY <1>1 DEF Change
<1>3. EmptyIsUntagged'
  BY <1>2 DEF EmptyIsUntagged, OneSlotInv
<1>4. OneSlotPerTag'
  BY <1>2 DEF OneSlotPerTag, OneSlotInv
<1>5. OccupiedIsTracked'
  BY <1>1, <1>2 DEF OccupiedIsTracked, compared, OneSlotInv
<1>6. QED
  BY <1>3, <1>4, <1>5

LEMMA OneSlotInit == Init => OneSlotInv
<1>1. Init => Ordinary /\ EmptyIsUntagged /\ OccupiedIsTracked /\ OneSlotPerTag
  BY DEF Init, Ordinary, EmptyIsUntagged, OccupiedIsTracked, OneSlotPerTag
<1>2. QED
  BY <1>1, InitType DEF OneSlotInv

LEMMA OneSlotStep ==
  ASSUME "outage" \notin Env, OrdinaryScreens
  PROVE  OneSlotInv /\ [Next]_vars => OneSlotInv'
<1> SUFFICES ASSUME OneSlotInv, [Next]_vars
             PROVE  OneSlotInv'
  OBVIOUS
<1>1. TypeOK'
  BY TypeStep DEF OneSlotInv
<1> SUFFICES Ordinary' /\ EmptyIsUntagged' /\ OccupiedIsTracked' /\ OneSlotPerTag'
  BY <1>1 DEF OneSlotInv
<1> USE DEF OneSlotInv, Ordinary
<1>2. CASE PollRfid
  BY <1>2 DEF PollRfid, NewTags, EmptyIsUntagged, OccupiedIsTracked, OneSlotPerTag,
              compared, shelfVars, uiVars, slotVars
<1>3. CASE PollDown
  BY <1>3 DEF PollDown, rfidPaused
<1>4. CASE HandleAppeared
  <2>1. PICK r \in readings : /\ r[2] \in todo
                             /\ TagAppeared(r[1], r[2])
                             /\ todo' = todo \ {r[2]}
    BY <1>4 DEF HandleAppeared
  <2>2. r[1] \in Slots /\ r[2] \in Tags /\ r[2] \in TagsOf(readings)
    BY <2>1 DEF TypeOK, PollOK, TagsOf
  <2>3. /\ EmptyIsUntagged' /\ OneSlotPerTag'
        /\ \A x \in Slots : status'[x] = "occupied" => tag'[x] \in compared \cup {r[2]}
    BY <1>4, <2>1, <2>2, TagAppearedOneSlot DEF HandleAppeared
  <2>4. compared' = compared \cup {r[2]}
    BY <1>4, <2>1, <2>2 DEF HandleAppeared, compared, TagsOf, TypeOK, PollOK
  <2>5. OccupiedIsTracked'
    BY <1>4, <2>1, <2>3, <2>4 DEF HandleAppeared, OccupiedIsTracked
  <2>6. QED
    BY <1>4, <2>3, <2>5 DEF HandleAppeared, shelfVars, uiVars
<1>5. CASE AppearedDone
  BY <1>5 DEF AppearedDone, GoneTags, EmptyIsUntagged, OccupiedIsTracked, OneSlotPerTag,
              compared, shelfVars, uiVars, slotVars
<1>6. CASE HandleDisappeared
  <2>1. PICK t \in todo : TagDisappeared(t) /\ todo' = todo \ {t}
    BY <1>6 DEF HandleDisappeared
  <2>2. /\ tag' = tag /\ EmptyIsUntagged'
        /\ \A x \in Slots : status'[x] = "occupied" => status[x] = "occupied" /\ tag[x] # t
    BY <2>1, TagDisappearedOneSlot DEF TypeOK, PollOK
  <2>3. OccupiedIsTracked'
    BY <1>6, <2>1, <2>2 DEF HandleDisappeared, OccupiedIsTracked, compared
  <2>4. QED
    BY <1>6, <2>2, <2>3 DEF HandleDisappeared, OneSlotPerTag, shelfVars, uiVars
<1>7. CASE DisappearedDone
  BY <1>7 DEF DisappearedDone, EmptyIsUntagged, OccupiedIsTracked, OneSlotPerTag,
              compared, shelfVars, uiVars, slotVars
<1>8. CASE CheckTimeouts
  BY <1>8, CheckTimeoutsOneSlot DEF CheckTimeouts, shelfVars, uiVars
<1>9. CASE UiStep
  BY <1>9 DEF UiStep, SwapForgetTags, SwapResetSlots, SwapClearTimers
<1>10. CASE Crew
  <2>1. CASE \E t \in Tags : TakeCan(t) \/ \E s \in Slots : PutCan(t, s)
    BY <2>1 DEF TakeCan, PutCan, EmptyIsUntagged, OccupiedIsTracked, OneSlotPerTag,
                compared, uiVars, slotVars, pollVars
  <2>2. CASE SwitchSession
    BY <2>2 DEF SwitchSession, EmptyIsUntagged, OccupiedIsTracked, OneSlotPerTag,
                compared, shelfVars, slotVars, pollVars
  <2>3. CASE \E x \in Screens : GoScreen(x)
    BY <2>3 DEF GoScreen, slotVars, OrdinaryScreens, EmptyIsUntagged, OccupiedIsTracked, OneSlotPerTag,
                compared, shelfVars, pollVars
  <2>4. CASE \E a, b \in Slots : SwapReaders(a, b)
    BY <2>4 DEF SwapReaders
  <2>5. QED
    BY <1>10, <2>1, <2>2, <2>3, <2>4 DEF Crew
<1>11. CASE RfidHealth
  BY <1>11 DEF RfidHealth
<1>12. CASE Tick
  BY <1>12 DEF Tick, EmptyIsUntagged, OccupiedIsTracked, OneSlotPerTag, compared,
               shelfVars, uiVars
<1>13. CASE Crash
  BY <1>13 DEF Crash, EmptyIsUntagged, OccupiedIsTracked, OneSlotPerTag, compared, shelfVars
<1>14. CASE Start
  BY <1>14 DEF Start, EmptyIsUntagged, OccupiedIsTracked, OneSlotPerTag, compared,
               shelfVars, uiVars
<1>15. CASE UNCHANGED vars
  BY <1>15 DEF vars, EmptyIsUntagged, OccupiedIsTracked, OneSlotPerTag, compared,
               shelfVars, uiVars, slotVars, pollVars
<1>16. QED
  BY <1>2, <1>3, <1>4, <1>5, <1>6, <1>7, <1>8, <1>9, <1>10, <1>11, <1>12, <1>13, <1>14, <1>15
  DEF Next, HwStep

(* While RFID stays healthy and only ordinary screens are open, however    *)
(* fast the crew moves cans, whatever single reads are missed and whenever *)
(* the process restarts, no can is recorded in two slots, and no can on a  *)
(* slot escapes the comparison that would notice its removal.              *)
THEOREM NoCanTwice ==
  ASSUME "outage" \notin Env, OrdinaryScreens
  PROVE  Spec => [](OneSlotPerTag /\ OccupiedIsTracked)
<1>1. Init => OneSlotInv
  BY OneSlotInit
<1>2. OneSlotInv /\ [Next]_vars => OneSlotInv'
  BY OneSlotStep
<1>3. OneSlotInv => OneSlotPerTag /\ OccupiedIsTracked
  BY DEF OneSlotInv
<1>4. QED
  BY <1>1, <1>2, <1>3, PTL DEF Spec

-----------------------------------------------------------------------------
(* The timers, whenever no reader swap clears them behind the hardware     *)
(* thread's back.                                                          *)
TimersInv == TypeOK /\ uiPc = "idle" /\ TimersMatch

LEMMA TimersStep ==
  ASSUME "shelf_map" \notin Screens
  PROVE  TimersInv /\ [Next]_vars => TimersInv'
<1> SUFFICES ASSUME TimersInv, [Next]_vars
             PROVE  TimersInv'
  OBVIOUS
<1>1. TypeOK'
  BY TypeStep DEF TimersInv
<1> SUFFICES uiPc' = "idle" /\ TimersMatch'
  BY <1>1 DEF TimersInv
<1> USE DEF TimersInv
<1>2. CASE HandleAppeared
  <2>1. PICK r \in readings : TagAppeared(r[1], r[2])
    BY <1>2 DEF HandleAppeared
  <2> DEFINE s == r[1]
             t == r[2]
             moved == ~stockLoading /\ ~(status[s] = "removed" /\ tag[s] = t) /\ Sources(s, t) # {}
             source == IF moved THEN {First(Sources(s, t))} ELSE {}
  <2>2. /\ status' = Change(Change(status, source, "empty"), {s}, "occupied")
        /\ timed' = timed \ ({s} \cup source)
    BY <2>1 DEF TagAppeared, StopTimers
  <2>3. TimersMatch'
    BY <2>2 DEF TimersMatch, Change, Out
  <2>4. QED
    BY <1>2, <2>3 DEF HandleAppeared, uiVars
<1>3. CASE HandleDisappeared
  <2>1. PICK t \in Tags : TagDisappeared(t)
    BY <1>3 DEF HandleDisappeared, TypeOK, PollOK
  <2> DEFINE holders == {x \in Slots : tag[x] = t}
  <2>2. CASE holders = {}
    BY <1>3, <2>1, <2>2 DEF HandleDisappeared, TagDisappeared, TimersMatch, slotVars, uiVars
  <2>3. CASE holders # {}
    <3>1. /\ First(holders) \in Slots
          /\ status' = [status EXCEPT ![First(holders)] = "removed"]
          /\ timed' = timed \cup {First(holders)}
      BY <2>1, <2>3, FirstIsMember DEF TagDisappeared
    <3>2. \A x \in Slots : status'[x] = IF x = First(holders) THEN "removed" ELSE status[x]
      BY <3>1 DEF TypeOK, SlotsOK
    <3>3. QED
      BY <1>3, <3>1, <3>2 DEF HandleDisappeared, TimersMatch, Out, uiVars
  <2>4. QED
    BY <2>2, <2>3
<1>4. CASE CheckTimeouts
  <2> DEFINE running == {s \in timed : status[s] = "removed"}
             due == {s \in running : age[s] >= ConsumedAfter}
             overdue == {s \in running \ due : age[s] >= InUseAfter}
  <2>1. /\ status' = Change(Change(status, due, "empty"), overdue, "in_use")
        /\ timed' = running \ due
    BY <1>4 DEF CheckTimeouts
  <2>2. \A s \in Slots : /\ s \in due => status'[s] = "empty"
                         /\ s \in overdue => status'[s] = "in_use"
                         /\ s \notin due \cup overdue => status'[s] = status[s]
    BY <2>1 DEF Change
  <2>3. TimersMatch'
    BY <2>1, <2>2 DEF TimersMatch, Out
  <2>4. QED
    BY <1>4, <2>3 DEF CheckTimeouts, uiVars
<1>5. CASE \/ PollRfid \/ PollDown \/ AppearedDone \/ DisappearedDone \/ Tick
           \/ RfidHealth \/ Crash \/ Start
  BY <1>5 DEF PollRfid, PollDown, AppearedDone, DisappearedDone, Tick, RfidHealth, Crash,
              Start, TimersMatch, Out, slotVars, uiVars
<1>6. CASE UiStep
  BY <1>6 DEF UiStep, SwapForgetTags, SwapResetSlots, SwapClearTimers
<1>7. CASE Crew
  <2>1. \A a, b \in Slots : ~ SwapReaders(a, b)
    BY DEF SwapReaders, TypeOK, UiOK
  <2>2. QED
    BY <1>7, <2>1 DEF Crew, TakeCan, PutCan, SwitchSession, GoScreen, TimersMatch, slotVars, uiVars
<1>8. CASE UNCHANGED vars
  BY <1>8 DEF vars, TimersMatch, slotVars, uiVars
<1>9. QED
  BY <1>2, <1>3, <1>4, <1>5, <1>6, <1>7, <1>8 DEF Next, HwStep

(* The removal timers run for exactly the cans that are out, through       *)
(* outages, pauses, stock loading and restarts, as long as no readers are  *)
(* swapped.                                                                *)
THEOREM TimersCorrect ==
  ASSUME "shelf_map" \notin Screens
  PROVE  Spec => []TimersMatch
<1>1. Init => TimersInv
  <2>1. Init => TypeOK
    BY InitType
  <2>2. Init => uiPc = "idle" /\ TimersMatch
    BY DEF Init, TimersMatch
  <2>3. QED
    BY <2>1, <2>2 DEF TimersInv
<1>2. TimersInv /\ [Next]_vars => TimersInv'
  BY TimersStep
<1>3. TimersInv => TimersMatch
  BY DEF TimersInv
<1>4. QED
  BY <1>1, <1>2, <1>3, PTL DEF Spec

-----------------------------------------------------------------------------
(* What stands where, when besides the crew leaves each change of the      *)
(* shelf to be seen by a poll before it makes the next.  The readings are  *)
(* in accord with the shelf, with themselves and with the OCCUPIED slots:  *)
(* what is read where another can was is a can that has taken its place    *)
(* after it was missed.                                                    *)
Apart == \A t, u \in Tags : where[t] = where[u] /\ where[t] # Away => t = u

ReadRight ==
  /\ \A r \in readings, t \in Tags : where[t] # Away => (r[1] = where[t] <=> r[2] = t)
  /\ \A r, q \in readings : r[1] = q[1] <=> r[2] = q[2]
  /\ pc = "down" => readings = {}

Recorded ==
  \A s \in Slots : status[s] = "occupied" => \A r \in readings : r[1] = s <=> r[2] = tag[s]

(* What was read and is not still to be handled is recorded.               *)
Handled ==
  \A r \in readings : \/ pc = "appear" /\ r[2] \in todo
                      \/ status[r[1]] = "occupied" /\ tag[r[1]] = r[2]

(* What will be told as gone is recorded as OCCUPIED, if at all.           *)
Leaving ==
  /\ pc \in {"idle", "timeouts", "down"} => previous = TagsOf(readings)
  /\ pc = "appear" => \A s \in Slots : tag[s] \in previous => status[s] = "occupied"
  /\ pc = "gone" => /\ \A s \in Slots : tag[s] \in todo => status[s] = "occupied"
                    /\ todo \cap TagsOf(readings) = {}

ShelfInv == Apart /\ ReadRight /\ Recorded /\ Handled /\ Leaving

(* The effect of a can that appears, on a slot that is not OCCUPIED.       *)
LEMMA AppearedFacts ==
  ASSUME OneSlotInv, pc = "appear", NEW s \in Slots, NEW t \in Tags,
         t \in todo, t \in TagsOf(readings), TagAppeared(s, t)
  PROVE  /\ status'[s] = "occupied" /\ tag'[s] = t
         /\ \A x \in Slots : status[x] = "occupied" => tag[x] # t
         /\ \A x \in Slots \ {s} :
              \/ tag[x] = t /\ status[x] \in Out /\ status'[x] = "empty" /\ tag'[x] = NoTag
              \/ tag[x] # t /\ status'[x] = status[x] /\ tag'[x] = tag[x]
<1> DEFINE sameCan == status[s] = "removed" /\ tag[s] = t
           moved == ~stockLoading /\ ~sameCan /\ Sources(s, t) # {}
           source == IF moved THEN {First(Sources(s, t))} ELSE {}
<1>1. /\ status' = Change(Change(status, source, "empty"), {s}, "occupied")
      /\ tag' = Change(Change(tag, source, NoTag), {s}, t)
  BY DEF TagAppeared
<1>2. t # NoTag /\ ~stockLoading
  BY TagAssumption DEF OneSlotInv, Ordinary, stockLoading
<1>3. \A x \in Slots : status[x] = "occupied" => tag[x] # t
  BY DEF OneSlotInv, OccupiedIsTracked, compared
<1>4. \A x \in Slots \ {s} : tag[x] = t => x \in Sources(s, t)
  BY <1>2, <1>3 DEF Sources, Out, Status, OneSlotInv, EmptyIsUntagged, TypeOK, SlotsOK
<1>5. \A x \in Slots \ {s} : tag[x] = t <=> x \in source
  <2>1. CASE sameCan
    BY <1>2, <2>1 DEF OneSlotInv, OneSlotPerTag
  <2>2. CASE ~sameCan /\ Sources(s, t) = {}
    BY <1>4, <2>2
  <2>3. CASE ~sameCan /\ Sources(s, t) # {}
    <3>1. First(Sources(s, t)) \in Sources(s, t)
      BY <2>3, FirstIsMember, SourcesType
    <3>2. QED
      BY <1>2, <1>4, <2>3, <3>1 DEF OneSlotInv, OneSlotPerTag, Sources
  <2>4. QED
    BY <2>1, <2>2, <2>3
<1>6. s \notin source
  BY FirstIsMember, SourcesType DEF Sources
<1>7. /\ status'[s] = "occupied" /\ tag'[s] = t
      /\ \A x \in Slots \ {s} : x \in source => status'[x] = "empty" /\ tag'[x] = NoTag
      /\ \A x \in Slots \ {s} : x \notin source => status'[x] = status[x] /\ tag'[x] = tag[x]
  BY <1>1, <1>6 DEF Change
<1>8. \A x \in Slots \ {s} : tag[x] = t => status[x] \in Out
  BY <1>4 DEF Sources
<1>9. QED
  BY <1>3, <1>5, <1>7, <1>8

LEMMA DisappearedFacts ==
  ASSUME OneSlotInv, NEW t \in Tags, TagDisappeared(t)
  PROVE  /\ tag' = tag
         /\ \A x \in Slots : status'[x] = IF tag[x] = t THEN "removed" ELSE status[x]
<1> DEFINE holders == {x \in Slots : tag[x] = t}
           s == First(holders)
<1>1. CASE holders = {}
  BY <1>1 DEF TagDisappeared, slotVars
<1>2. CASE holders # {}
  <2>1. s \in Slots /\ tag[s] = t
    BY <1>2, FirstIsMember
  <2>2. status' = [status EXCEPT ![s] = "removed"] /\ tag' = tag
    BY <1>2 DEF TagDisappeared
  <2>3. \A x \in Slots : tag[x] = t <=> x = s
    BY <2>1, TagAssumption DEF OneSlotInv, OneSlotPerTag
  <2>4. QED
    BY <2>2, <2>3 DEF OneSlotInv, TypeOK, SlotsOK
<1>3. QED
  BY <1>1, <1>2

LEMMA TimeoutFacts ==
  ASSUME CheckTimeouts
  PROVE  \A s \in Slots :
           \/ UNCHANGED <<status[s], tag[s]>>
           \/ status[s] = "removed" /\ status'[s] = "in_use" /\ tag'[s] = tag[s]
           \/ status[s] = "removed" /\ status'[s] = "empty" /\ tag'[s] = NoTag
BY DEF CheckTimeouts, Change

LEMMA ShelfInit == Init => ShelfInv
BY DEF Init, ShelfInv, Apart, ReadRight, Recorded, Handled, Leaving, TagsOf

LEMMA ShelfStep ==
  ASSUME {"outage", "fast_moves"} \cap Env = {}, OrdinaryScreens
  PROVE  OneSlotInv /\ ShelfInv /\ [Next]_vars => ShelfInv'
<1> SUFFICES ASSUME OneSlotInv, ShelfInv, [Next]_vars PROVE ShelfInv'
  OBVIOUS
<1>i. Apart /\ ReadRight /\ Recorded /\ Handled /\ Leaving
  BY DEF ShelfInv
<1>t. /\ readings \subseteq Slots \X Tags /\ previous \subseteq Tags /\ todo \subseteq Tags
      /\ where \in [Tags -> Slots \cup {Away}]
      /\ tag \in [Slots -> Tags \cup {NoTag}] /\ status \in [Slots -> Status]
      /\ pc \in {"idle", "appear", "gone", "timeouts", "down"}
  BY DEF OneSlotInv, TypeOK, ShelfOK, SlotsOK, PollOK
<1>o. healthy /\ screen \in {"home", "mixing"} /\ uiPc = "idle"
  BY DEF OneSlotInv, Ordinary
<1>n. NoTag \notin Tags
  BY TagAssumption
<1>1. CASE PollRfid
  <2>1. PICK rs \in Snapshots : readings' = rs /\ todo' = NewTags(rs)
    BY <1>1 DEF PollRfid
  <2>2. /\ pc = "idle" /\ pc' = "appear"
        /\ UNCHANGED <<where, status, tag, previous>>
    BY <1>1 DEF PollRfid, shelfVars, slotVars
  <2>3. \A r \in readings' : r \in Slots \X Tags /\ where[r[2]] = r[1]
    BY <2>1 DEF Snapshots, Present
  <2>4. \A r \in readings' : r[1] \in Slots /\ r[2] \in Tags /\ where[r[2]] = r[1] /\ r[1] # Away
    BY <2>3 DEF Slots, Away
  <2>5. ReadRight'
    BY <1>i, <2>2, <2>4 DEF ReadRight, Apart
  <2>6. \A s \in Slots : status[s] = "occupied" => tag[s] \in TagsOf(readings) /\ tag[s] \in Tags
    BY <1>i, <1>t, <2>2 DEF Leaving, OneSlotInv, OccupiedIsTracked, compared, TagsOf
  <2>7. \A s \in Slots : status[s] = "occupied" => <<s, tag[s]>> \in readings
    BY <1>i, <1>t, <2>6 DEF Recorded, TagsOf
  <2>8. Recorded'
    <3> SUFFICES ASSUME NEW s \in Slots, status[s] = "occupied", NEW r \in readings'
                 PROVE  r[1] = s <=> r[2] = tag[s]
      BY <2>2 DEF Recorded
    <3>1. <<s, tag[s]>> \in readings
      BY <2>7
    <3>2. where[r[2]] = r[1] /\ r[2] \in Tags /\ where[r[2]] # Away
      BY <2>4
    <3>3. s = where[r[2]] <=> tag[s] = r[2]
      BY <1>i, <3>1, <3>2 DEF ReadRight
    <3>4. QED
      BY <3>2, <3>3
  <2>10. Handled'
    <3> SUFFICES ASSUME NEW r \in readings', r[2] \notin todo'
                 PROVE  status[r[1]] = "occupied" /\ tag[r[1]] = r[2]
      BY <2>2 DEF Handled
    <3>1. r[2] \in TagsOf(readings)
      BY <1>i, <2>1, <2>2 DEF NewTags, TagsOf, Leaving
    <3>2. PICK q \in readings : q[2] = r[2]
      BY <3>1 DEF TagsOf
    <3>3. q[1] = r[1]
      BY <1>i, <2>4, <3>2 DEF ReadRight
    <3>4. QED
      BY <1>i, <2>2, <3>2, <3>3 DEF Handled
  <2>11. Leaving'
    <3> SUFFICES ASSUME NEW s \in Slots, tag[s] \in previous PROVE status[s] = "occupied"
      BY <2>2 DEF Leaving
    <3>1. PICK q \in readings : q[2] = tag[s]
      BY <1>i, <2>2 DEF Leaving, TagsOf
    <3>2. status[q[1]] = "occupied" /\ tag[q[1]] = tag[s] /\ q[1] \in Slots /\ tag[s] # NoTag
      BY <1>i, <1>n, <1>t, <2>2, <3>1 DEF Handled
    <3>3. QED
      BY <3>2 DEF OneSlotInv, OneSlotPerTag
  <2>12. Apart'
    BY <1>i, <2>2 DEF Apart
  <2>13. QED
    BY <2>5, <2>8, <2>10, <2>11, <2>12 DEF ShelfInv
<1>2. CASE HandleAppeared
  <2>1. PICK r \in readings : r[2] \in todo /\ TagAppeared(r[1], r[2]) /\ todo' = todo \ {r[2]}
    BY <1>2 DEF HandleAppeared
  <2>2. /\ pc = "appear" /\ UNCHANGED <<where, previous, readings, pc>>
    BY <1>2 DEF HandleAppeared, shelfVars
  <2>3. r[1] \in Slots /\ r[2] \in Tags /\ r[2] \in TagsOf(readings)
    BY <1>t DEF TagsOf
  <2>4. /\ status'[r[1]] = "occupied" /\ tag'[r[1]] = r[2]
        /\ \A x \in Slots : status[x] = "occupied" => tag[x] # r[2]
        /\ \A x \in Slots \ {r[1]} :
             \/ tag[x] = r[2] /\ status[x] \in Out /\ status'[x] = "empty" /\ tag'[x] = NoTag
             \/ tag[x] # r[2] /\ status'[x] = status[x] /\ tag'[x] = tag[x]
    BY <2>1, <2>2, <2>3, AppearedFacts
  <2>5. Recorded'
    BY <1>i, <2>2, <2>3, <2>4 DEF Recorded, ReadRight
  <2>6. Handled'
    BY <1>i, <1>t, <2>1, <2>2, <2>4 DEF Handled, ReadRight, Out
  <2>7. Leaving'
    BY <1>i, <1>n, <1>t, <2>2, <2>4 DEF Leaving
  <2>8. Apart' /\ ReadRight'
    BY <1>i, <2>2 DEF Apart, ReadRight
  <2>9. QED
    BY <2>5, <2>6, <2>7, <2>8 DEF ShelfInv
<1>3. CASE AppearedDone
  BY <1>i, <1>3 DEF AppearedDone, GoneTags, shelfVars, slotVars, ShelfInv, Apart, ReadRight, Recorded,
     Handled, Leaving
<1>4. CASE HandleDisappeared
  <2>1. PICK t \in todo : TagDisappeared(t) /\ todo' = todo \ {t}
    BY <1>4 DEF HandleDisappeared
  <2>2. /\ pc = "gone" /\ UNCHANGED <<where, previous, readings, pc>>
    BY <1>4 DEF HandleDisappeared, shelfVars
  <2>3. /\ tag' = tag
        /\ \A x \in Slots : status'[x] = IF tag[x] = t THEN "removed" ELSE status[x]
    BY <1>t, <2>1, DisappearedFacts
  <2>4. \A r \in readings : r[2] # t
    BY <1>i, <2>1, <2>2 DEF Leaving, TagsOf
  <2>5. Recorded'
    BY <1>i, <2>2, <2>3 DEF Recorded
  <2>6. Handled'
    BY <1>i, <1>t, <2>2, <2>3, <2>4 DEF Handled
  <2>7. Leaving'
    BY <1>i, <2>1, <2>2, <2>3 DEF Leaving
  <2>8. Apart' /\ ReadRight'
    BY <1>i, <2>2 DEF Apart, ReadRight
  <2>9. QED
    BY <2>5, <2>6, <2>7, <2>8 DEF ShelfInv
<1>5. CASE DisappearedDone
  BY <1>i, <1>5 DEF DisappearedDone, shelfVars, slotVars, ShelfInv, Apart, ReadRight, Recorded,
     Handled, Leaving
<1>6. CASE CheckTimeouts
  <2>1. /\ pc \in {"idle", "timeouts"} /\ pc' = "idle"
        /\ UNCHANGED <<where, previous, readings, todo>>
    BY <1>6 DEF CheckTimeouts, shelfVars
  <2>2. \A s \in Slots :
          \/ UNCHANGED <<status[s], tag[s]>>
          \/ status[s] = "removed" /\ status'[s] \in {"in_use", "empty"}
    BY <1>6, TimeoutFacts
  <2>3. Recorded'
    BY <1>i, <2>1, <2>2 DEF Recorded
  <2>4. Handled'
    BY <1>i, <1>t, <2>1, <2>2 DEF Handled
  <2>5. Apart' /\ ReadRight' /\ Leaving'
    BY <1>i, <2>1 DEF Apart, ReadRight, Leaving
  <2>6. QED
    BY <2>3, <2>4, <2>5 DEF ShelfInv
<1>7. CASE PollDown \/ UiStep \/ RfidHealth
  BY <1>o, <1>7 DEF PollDown, rfidPaused, UiStep, SwapForgetTags, SwapResetSlots, SwapClearTimers,
     RfidHealth
<1>8. ASSUME NEW a \in Slots, NEW b \in Slots, SwapReaders(a, b)
      PROVE  FALSE
  BY <1>o, <1>8 DEF SwapReaders
<1>9. ASSUME MayMove
      PROVE  readings = Present \/ readings = {}
  BY <1>i, <1>o, <1>9 DEF MayMove, forgotten, rfidPaused, ReadRight
<1>10. ASSUME NEW t \in Tags, TakeCan(t)
       PROVE  ShelfInv'
  <2>1. /\ where' = [where EXCEPT ![t] = Away]
        /\ UNCHANGED <<status, tag, previous, readings, todo, pc>>
    BY <1>10 DEF TakeCan, slotVars, pollVars
  <2>2. Apart' /\ ReadRight'
    BY <1>i, <1>t, <2>1 DEF Apart, ReadRight
  <2>3. Recorded' /\ Handled' /\ Leaving'
    BY <1>i, <2>1 DEF Recorded, Handled, Leaving
  <2>4. QED
    BY <2>2, <2>3 DEF ShelfInv
<1>11. ASSUME NEW t \in Tags, NEW s \in Slots, PutCan(t, s)
       PROVE  ShelfInv'
  <2>1. /\ where' = [where EXCEPT ![t] = s] /\ where[t] = Away /\ s # Away
        /\ \A u \in Tags : where[u] # s
        /\ UNCHANGED <<status, tag, previous, readings, todo, pc>>
    BY <1>11 DEF PutCan, slotVars, pollVars, Slots, Away
  <2>2. \A r \in readings : r[1] # s /\ r[2] # t
    <3>1. \A r \in Present : r[2] \in Tags /\ where[r[2]] = r[1] /\ r[1] # Away
      BY DEF Present, Slots, Away
    <3>2. QED
      BY <1>9, <1>11, <2>1, <3>1 DEF PutCan
  <2>3. Apart' /\ ReadRight'
    BY <1>i, <1>t, <2>1, <2>2 DEF Apart, ReadRight
  <2>4. Recorded' /\ Handled' /\ Leaving'
    BY <1>i, <2>1 DEF Recorded, Handled, Leaving
  <2>5. QED
    BY <2>3, <2>4 DEF ShelfInv
<1>12. CASE Crash
  BY <1>i, <1>12 DEF Crash, shelfVars, ShelfInv, Apart, ReadRight, Recorded, Handled, Leaving, TagsOf
<1>13. CASE Start
  BY <1>i, <1>13 DEF Start, shelfVars, ShelfInv, Apart, ReadRight, Recorded, Handled, Leaving
<1>14. ASSUME UNCHANGED <<where, status, tag, previous, readings, todo, pc>>
       PROVE  ShelfInv'
  BY <1>i, <1>14 DEF ShelfInv, Apart, ReadRight, Recorded, Handled, Leaving
<1>15. CASE SwitchSession \/ Tick \/ UNCHANGED vars \/ \E x \in Screens : GoScreen(x)
  <2>1. UNCHANGED <<where, status, tag, previous, readings, todo, pc>>
    BY <1>15 DEF SwitchSession, Tick, GoScreen, vars, shelfVars, slotVars, pollVars
  <2>2. QED
    BY <1>14, <2>1
<1>16. QED
  BY <1>1, <1>2, <1>3, <1>4, <1>5, <1>6, <1>7, <1>8, <1>10, <1>11, <1>12, <1>13, <1>15
     DEF Next, HwStep, Crew

(* Once a poll has read the shelf as it stands, the slots say what stands  *)
(* where.  Neither a reader that misses its tag nor a restart spoils this: *)
(* what the readings in hand show is the shelf, and they have been         *)
(* recorded.                                                               *)
THEOREM ShelfIsKnown ==
  ASSUME {"outage", "fast_moves"} \cap Env = {}, OrdinaryScreens
  PROVE  Spec => []ViewMatchesShelf
<1>1. Init => OneSlotInv /\ ShelfInv
  BY OneSlotInit, ShelfInit
<1>2. OneSlotInv /\ ShelfInv /\ [Next]_vars => OneSlotInv' /\ ShelfInv'
  BY OneSlotStep, ShelfStep
<1>3. OneSlotInv /\ ShelfInv => ViewMatchesShelf
  <2> SUFFICES ASSUME OneSlotInv, ShelfInv, settled PROVE
        \A s \in Slots : /\ status[s] = "occupied" => where[tag[s]] = s
                         /\ \A t \in Tags : where[t] = s => status[s] = "occupied" /\ tag[s] = t
    BY DEF ViewMatchesShelf
  <2>1. pc = "idle" /\ readings = Present
    BY DEF settled
  <2>2. \A s \in Slots, t \in Tags : where[t] = s <=> <<s, t>> \in readings
    BY <2>1 DEF Present
  <2>3. ASSUME NEW s \in Slots, NEW t \in Tags, where[t] = s
        PROVE  status[s] = "occupied" /\ tag[s] = t
    <3>1. PICK r \in readings : r = <<s, t>>
      BY <2>2, <2>3
    <3>2. status[r[1]] = "occupied" /\ tag[r[1]] = r[2]
      BY <2>1 DEF ShelfInv, Handled
    <3>3. QED
      BY <3>1, <3>2
  <2>4. ASSUME NEW s \in Slots, status[s] = "occupied"
        PROVE  where[tag[s]] = s
    <3>1. tag[s] \in TagsOf(readings)
      BY <2>1, <2>4 DEF ShelfInv, Leaving, OneSlotInv, OccupiedIsTracked, compared
    <3>2. PICK r \in readings : r[2] = tag[s]
      BY <3>1 DEF TagsOf
    <3>3. r[1] = s /\ where[r[2]] = r[1]
      BY <2>1, <2>4, <3>2 DEF ShelfInv, Recorded, Present
    <3>4. QED
      BY <3>2, <3>3
  <2>5. QED
    BY <2>3, <2>4
<1>4. QED
  BY <1>1, <1>2, <1>3, PTL DEF Spec

-----------------------------------------------------------------------------
(* The tracker implements CanCustody.  The custody of a can is read off    *)
(* the one slot that records it.                                           *)
Kind(st) == CASE st = "occupied" -> "shelf" [] st = "removed" -> "out" [] OTHER -> "elsewhere"

CustodyIsKind ==
  \A t \in Tags : /\ \A s \in Slots : tag[s] = t => CustodyOf(t) = Kind(status[s])
                  /\ (\A s \in Slots : tag[s] # t) => CustodyOf(t) = "unknown"

LEMMA CustodyFacts == OneSlotInv => CustodyIsKind
<1> SUFFICES ASSUME OneSlotInv, NEW t \in Tags
             PROVE  /\ \A s \in Slots : tag[s] = t => CustodyOf(t) = Kind(status[s])
                    /\ (\A s \in Slots : tag[s] # t) => CustodyOf(t) = "unknown"
  BY DEF CustodyIsKind
<1>1. ASSUME NEW s \in Slots, tag[s] = t
      PROVE  CustodyOf(t) = Kind(status[s])
  <2> DEFINE holders == {x \in Slots : tag[x] = t}
  <2>1. First(holders) \in holders
    BY <1>1, FirstIsMember
  <2>2. First(holders) = s
    BY <1>1, <2>1, TagAssumption DEF OneSlotInv, OneSlotPerTag
  <2>3. QED
    BY <1>1, <2>2 DEF CustodyOf, Kind
<1>2. (\A s \in Slots : tag[s] # t) => CustodyOf(t) = "unknown"
  BY DEF CustodyOf
<1>3. QED
  BY <1>1, <1>2

LEMMA CustodyFactsNext == OneSlotInv' => CustodyIsKind'
BY CustodyFacts, PTL

(* What was told, in the words of CanCustody.                              *)
LEMMA OneNews ==
  ASSUME NEW type, NEW s, NEW t, emitted' = {[type |-> type, slot |-> s, tag |-> t]}
  PROVE  {[type |-> e.type, tag |-> e.tag] : e \in emitted'} = {Abstract!News(type, t)}
BY DEF Abstract!News

(* A step that changes no slot and tells nothing.                          *)
LEMMA QuietStep ==
  ASSUME UNCHANGED <<status, tag>>, emitted' = {}
  PROVE  Abstract!Quiet
<1>1. \A t \in Tags : CustodyOf(t)' = CustodyOf(t)
  BY DEF CustodyOf
<1>2. QED
  BY <1>1 DEF Abstract!Quiet

(* The arrival of can t, which displaces the can that slot s recorded.     *)
LEMMA ArriveStep ==
  ASSUME OneSlotInv, OneSlotInv', ShelfInv, pc = "appear",
         NEW s \in Slots, NEW t \in Tags, <<s, t>> \in readings, t \in todo,
         TagAppeared(s, t)
  PROVE  Abstract!Returned(t) \/ Abstract!Moved(t) \/ Abstract!Placed(t) \/ Abstract!WrongSlot(t)
<1> DEFINE wasRemoved == status[s] = "removed"
           sameCan == wasRemoved /\ tag[s] = t
<1>0. PICK D : D = {tag[s]} \ {t, NoTag}
  OBVIOUS
<1>1. /\ status'[s] = "occupied" /\ tag'[s] = t
      /\ \A x \in Slots : status[x] = "occupied" => tag[x] # t
      /\ \A x \in Slots \ {s} :
           \/ tag[x] = t /\ status[x] \in Out /\ status'[x] = "empty" /\ tag'[x] = NoTag
           \/ tag[x] # t /\ status'[x] = status[x] /\ tag'[x] = tag[x]
  <2>1. t \in TagsOf(readings)
    BY DEF TagsOf
  <2>2. QED
    BY <2>1, AppearedFacts
<1>2. /\ tag \in [Slots -> Tags \cup {NoTag}] /\ status \in [Slots -> Status] /\ t # NoTag
      /\ \A x \in Slots : status[x] = "empty" <=> tag[x] = NoTag
      /\ \A x, y \in Slots : tag[x] = tag[y] /\ tag[x] # NoTag => x = y
  BY TagAssumption DEF OneSlotInv, TypeOK, SlotsOK, EmptyIsUntagged, OneSlotPerTag
<1>3. CustodyIsKind /\ CustodyIsKind'
  BY CustodyFacts, CustodyFactsNext
<1>4. status[s] # "occupied"
  <2>1. status[s] = "occupied" => tag[s] = t
    BY DEF ShelfInv, Recorded
  <2>2. QED
    BY <1>1, <2>1
<1>5. CustodyOf(t) # "shelf" /\ CustodyOf(t)' = "shelf"
  <2>1. CustodyOf(t)' = Kind("occupied")
    BY <1>1, <1>3 DEF CustodyIsKind
  <2>2. ASSUME NEW x \in Slots, tag[x] = t
        PROVE  CustodyOf(t) = Kind(status[x]) /\ status[x] # "occupied"
    BY <1>1, <1>3, <2>2 DEF CustodyIsKind
  <2>3. (\A x \in Slots : tag[x] # t) => CustodyOf(t) = "unknown"
    BY <1>3 DEF CustodyIsKind
  <2>4. QED
    BY <2>1, <2>2, <2>3 DEF Kind
<1>6. ASSUME NEW u \in Tags, u # t
      PROVE  CustodyOf(u)' = IF u \in D THEN "unknown" ELSE CustodyOf(u)
  <2>1. CASE tag[s] = u
    <3>1. \A x \in Slots : tag'[x] # u
      BY <1>1, <1>2, <1>6, <2>1, TagAssumption
    <3>2. QED
      BY <1>0, <1>2, <1>3, <1>6, <2>1, <3>1, TagAssumption DEF CustodyIsKind
  <2>2. CASE \E x \in Slots \ {s} : tag[x] = u
    <3>1. PICK x \in Slots \ {s} : tag[x] = u
      BY <2>2
    <3>2. tag'[x] = u /\ status'[x] = status[x] /\ tag[s] # u
      BY <1>1, <1>2, <1>6, <3>1, TagAssumption
    <3>3. CustodyOf(u)' = Kind(status'[x]) /\ CustodyOf(u) = Kind(status[x])
      BY <1>3, <3>1, <3>2 DEF CustodyIsKind
    <3>4. QED
      BY <1>0, <3>2, <3>3
  <2>3. CASE \A x \in Slots : tag[x] # u
    <3>1. \A x \in Slots : tag'[x] # u
      BY <1>1, <1>6, <2>3, TagAssumption
    <3>2. CustodyOf(u)' = "unknown" /\ CustodyOf(u) = "unknown"
      BY <1>3, <2>3, <3>1 DEF CustodyIsKind
    <3>3. QED
      BY <1>0, <2>3, <3>2
  <2>4. QED
    BY <2>1, <2>2, <2>3
<1>7. /\ D \subseteq Tags /\ t \notin D
      /\ \A u \in D : CustodyOf(u) = IF wasRemoved THEN "out" ELSE "elsewhere"
  BY <1>0, <1>2, <1>3, <1>4 DEF CustodyIsKind, Kind, Status
<1>8. \A u, v \in D : u = v
  BY <1>0
<1>9. ASSUME NEW type, emitted' = {[type |-> type, slot |-> s, tag |-> t]}
      PROVE  Abstract!Arrive(type, t, D)
  <2>1. {[type |-> e.type, tag |-> e.tag] : e \in emitted'} = {Abstract!News(type, t)}
    BY <1>9, OneNews
  <2>2. QED
    BY <1>5, <1>6, <1>7, <2>1 DEF Abstract!Arrive
<1>10. ~stockLoading
  BY DEF OneSlotInv, Ordinary, stockLoading
<1>11. CASE sameCan
  <2>1. emitted' = {[type |-> "can_returned", slot |-> s, tag |-> t]}
    BY <1>10, <1>11 DEF TagAppeared
  <2>2. D = {}
    BY <1>0, <1>11
  <2>3. CustodyOf(t) = "out"
    BY <1>3, <1>11 DEF CustodyIsKind, Kind
  <2>4. QED
    <3>1. Abstract!Arrive("can_returned", t, D)
      BY <1>9, <2>1
    <3>2. Abstract!Returned(t)
      BY <2>2, <2>3, <3>1 DEF Abstract!Returned, Abstract!Arrive
    <3>3. QED
      BY <3>2
<1>12. CASE ~sameCan /\ Sources(s, t) # {}
  <2>1. emitted' = {[type |-> "can_moved", slot |-> s, tag |-> t]}
    BY <1>10, <1>12 DEF TagAppeared
  <2>2. PICK x \in Slots : status[x] \in Out /\ tag[x] = t
    BY <1>12 DEF Sources
  <2>3. CustodyOf(t) \in {"out", "elsewhere"}
    BY <1>3, <2>2 DEF CustodyIsKind, Kind, Out
  <2>4. D \in SUBSET {u \in Tags : [v \in Tags |-> CustodyOf(v)][u] \in {"out", "elsewhere"}}
    BY <1>7
  <2>5. QED
    <3>1. Abstract!Arrive("can_moved", t, D)
      BY <1>9, <2>1
    <3>2. Abstract!Moved(t)
      BY <1>8, <2>3, <2>4, <3>1 DEF Abstract!Moved, Abstract!AtMostOne
    <3>3. QED
      BY <3>2
<1>13. ASSUME ~sameCan, Sources(s, t) = {}
       PROVE  /\ \A x \in Slots \ {s} : tag[x] # t
              /\ tag[s] = t => status[s] = "in_use"
  BY <1>1, <1>2, <1>4, <1>13 DEF Sources, Out, Status
<1>14. CASE ~sameCan /\ Sources(s, t) = {} /\ wasRemoved
  <2>1. emitted' = {[type |-> "can_wrong_slot", slot |-> s, tag |-> t]}
    BY <1>10, <1>14 DEF TagAppeared
  <2>2. tag[s] \in Tags /\ tag[s] # t /\ D = {tag[s]}
    BY <1>0, <1>2, <1>14
  <2>3. CustodyOf(tag[s]) = "out"
    BY <1>7, <1>14, <2>2
  <2>4. CustodyOf(t) = "unknown"
    BY <1>3, <1>13, <1>14, <2>2 DEF CustodyIsKind
  <2>5. QED
    <3>1. Abstract!Arrive("can_wrong_slot", t, D)
      BY <1>9, <2>1
    <3>2. Abstract!WrongSlot(t)
      BY <2>2, <2>3, <2>4, <3>1 DEF Abstract!WrongSlot, Abstract!Arrive
    <3>3. QED
      BY <3>2
<1>15. CASE ~sameCan /\ Sources(s, t) = {} /\ ~wasRemoved
  <2>1. emitted' = {[type |-> "can_placed", slot |-> s, tag |-> t]}
    BY <1>10, <1>15 DEF TagAppeared
  <2>2. CustodyOf(t) \in {"unknown", "elsewhere"}
    BY <1>3, <1>13, <1>15 DEF CustodyIsKind, Kind
  <2>3. D \in SUBSET {u \in Tags : [v \in Tags |-> CustodyOf(v)][u] = "elsewhere"}
    BY <1>7, <1>15
  <2>4. QED
    <3>1. Abstract!Arrive("can_placed", t, D)
      BY <1>9, <2>1
    <3>2. Abstract!Placed(t)
      BY <1>8, <2>2, <2>3, <3>1 DEF Abstract!Placed, Abstract!AtMostOne
    <3>3. QED
      BY <3>2
<1>16. QED
  BY <1>11, <1>12, <1>14, <1>15

LEMMA DepartStep ==
  ASSUME OneSlotInv, OneSlotInv', ShelfInv, pc = "gone", NEW t \in Tags, t \in todo,
         TagDisappeared(t)
  PROVE  Abstract!Depart(t) \/ Abstract!Quiet
<1> DEFINE holders == {x \in Slots : tag[x] = t}
           s == First(holders)
<1>1. CASE holders = {}
  BY <1>1, QuietStep DEF TagDisappeared, slotVars
<1>2. CASE holders # {}
  <2>1. s \in Slots /\ tag[s] = t
    BY <1>2, FirstIsMember
  <2>2. \E type \in {"can_removed", "unauthorized_removal"} :
          emitted' = {[type |-> type, slot |-> s, tag |-> t]}
    BY <1>2 DEF TagDisappeared
  <2>3. /\ tag' = tag
        /\ \A x \in Slots : status'[x] = IF tag[x] = t THEN "removed" ELSE status[x]
    BY DisappearedFacts
  <2>4. CustodyIsKind /\ CustodyIsKind'
    BY CustodyFacts, CustodyFactsNext
  <2>5. status[s] = "occupied"
    BY <2>1 DEF ShelfInv, Leaving
  <2>6. CustodyOf(t) = "shelf" /\ CustodyOf(t)' = "out"
    <3>1. CustodyOf(t) = Kind(status[s]) /\ CustodyOf(t)' = Kind(status'[s])
      BY <2>1, <2>3, <2>4 DEF CustodyIsKind
    <3>2. QED
      BY <2>1, <2>3, <2>5, <3>1 DEF Kind
  <2>7. ASSUME NEW u \in Tags, u # t
        PROVE  CustodyOf(u)' = CustodyOf(u)
    <3>1. CASE \E x \in Slots : tag[x] = u
      <4>1. PICK x \in Slots : tag[x] = u
        BY <3>1
      <4>2. status'[x] = status[x] /\ tag'[x] = u
        BY <2>3, <2>7, <4>1
      <4>3. CustodyOf(u)' = Kind(status'[x]) /\ CustodyOf(u) = Kind(status[x])
        BY <2>4, <4>1, <4>2 DEF CustodyIsKind
      <4>4. QED
        BY <4>2, <4>3
    <3>2. CASE \A x \in Slots : tag[x] # u
      BY <2>3, <2>4, <3>2 DEF CustodyIsKind
    <3>3. QED
      BY <3>1, <3>2
  <2>8. \E type \in {"can_removed", "unauthorized_removal"} :
          {[type |-> e.type, tag |-> e.tag] : e \in emitted'} = {Abstract!News(type, t)}
    BY <2>2, OneNews
  <2>9. QED
    BY <2>6, <2>7, <2>8 DEF Abstract!Depart
<1>3. QED
  BY <1>1, <1>2

LEMMA ExpireStep ==
  ASSUME OneSlotInv, OneSlotInv', CheckTimeouts
  PROVE  Abstract!Expire
<1> DEFINE running == {s \in timed : status[s] = "removed"}
           due == {s \in running : age[s] >= ConsumedAfter}
           overdue == {s \in running \ due : age[s] >= InUseAfter}
           consumed == {t \in Tags : \E s \in due : tag[s] = t}
           late == {t \in Tags : \E s \in overdue : tag[s] = t}
<1>1. /\ status' = Change(Change(status, due, "empty"), overdue, "in_use")
      /\ tag' = Change(tag, due, NoTag)
      /\ emitted' = {[type |-> "can_consumed", slot |-> s, tag |-> NoTag] : s \in due}
  BY DEF CheckTimeouts
<1>2. /\ tag \in [Slots -> Tags \cup {NoTag}] /\ timed \subseteq Slots /\ NoTag \notin Tags
      /\ \A x \in Slots : status[x] = "empty" <=> tag[x] = NoTag
      /\ \A x, y \in Slots : tag[x] = tag[y] /\ tag[x] # NoTag => x = y
  BY TagAssumption DEF OneSlotInv, TypeOK, SlotsOK, EmptyIsUntagged, OneSlotPerTag
<1>3. /\ due \subseteq Slots /\ overdue \subseteq Slots /\ due \cap overdue = {}
      /\ \A s \in due \cup overdue : status[s] = "removed" /\ tag[s] \in Tags
  BY <1>2
<1> HIDE DEF due, overdue
<1>4. CustodyIsKind /\ CustodyIsKind'
  BY CustodyFacts, CustodyFactsNext
<1>5. /\ \A t \in consumed \cup late : CustodyOf(t) = "out"
      /\ consumed \cap late = {}
  BY <1>2, <1>3, <1>4 DEF CustodyIsKind, Kind
<1>6. ASSUME NEW t \in Tags
      PROVE  CustodyOf(t)' = CASE t \in consumed -> "unknown"
                               [] t \in late -> "elsewhere"
                               [] OTHER -> CustodyOf(t)
  <2>1. CASE t \in consumed
    <3>1. \A x \in Slots : tag'[x] # t
      BY <1>1, <1>2, <1>3, <2>1 DEF Change
    <3>2. QED
      BY <1>4, <1>5, <2>1, <3>1 DEF CustodyIsKind
  <2>2. CASE t \in late
    <3>1. PICK s \in overdue : tag[s] = t
      BY <2>2
    <3>2. t \notin consumed
      BY <1>5, <2>2
    <3>3. s \in Slots /\ tag'[s] = t /\ status'[s] = "in_use"
      BY <1>1, <1>3, <3>1 DEF Change
    <3>4. CustodyOf(t)' = "elsewhere"
      BY <1>4, <3>3 DEF CustodyIsKind, Kind
    <3>5. QED
      BY <2>2, <3>2, <3>4
  <2>3. CASE t \notin consumed /\ t \notin late
    <3>1. CASE \E x \in Slots : tag[x] = t
      <4>1. PICK x \in Slots : tag[x] = t
        BY <3>1
      <4>2. tag'[x] = t /\ status'[x] = status[x]
        BY <1>1, <2>3, <4>1 DEF Change
      <4>3. CustodyOf(t)' = Kind(status'[x]) /\ CustodyOf(t) = Kind(status[x])
        BY <1>4, <4>1, <4>2 DEF CustodyIsKind
      <4>4. QED
        BY <2>3, <4>2, <4>3
    <3>2. CASE \A x \in Slots : tag[x] # t
      <4>1. \A x \in Slots : tag'[x] # t
        BY <1>1, <1>2, <3>2 DEF Change
      <4>2. QED
        BY <1>4, <2>3, <3>2, <4>1 DEF CustodyIsKind
    <3>3. QED
      BY <3>1, <3>2
  <2>4. QED
    BY <2>1, <2>2, <2>3
<1>7. {[type |-> e.type, tag |-> e.tag] : e \in emitted'}
        = IF consumed = {} THEN {} ELSE {Abstract!News("can_consumed", NoTag)}
  <2>1. consumed = {} <=> due = {}
    BY <1>3
  <2>2. \A e : e \in emitted' <=> \E s \in due : e = [type |-> "can_consumed", slot |-> s, tag |-> NoTag]
    BY <1>1
  <2>3. \A e \in emitted' : [type |-> e.type, tag |-> e.tag] = Abstract!News("can_consumed", NoTag)
    BY <2>2 DEF Abstract!News
  <2>4. emitted' = {} <=> due = {}
    BY <2>2
  <2>5. QED
    BY <2>1, <2>3, <2>4
<1> HIDE DEF consumed, late
<1>8. /\ consumed \in SUBSET {t \in Tags : [u \in Tags |-> CustodyOf(u)][t] = "out"}
      /\ late \in SUBSET {t \in Tags : [u \in Tags |-> CustodyOf(u)][t] = "out"}
  BY <1>5 DEF consumed, late
<1>9. [t \in Tags |-> CustodyOf(t)]'
        = [t \in Tags |-> CASE t \in consumed -> "unknown"
                           [] t \in late -> "elsewhere"
                           [] OTHER -> [u \in Tags |-> CustodyOf(u)][t]]
  BY <1>6
<1>10. QED
  BY <1>7, <1>8, <1>9 DEF Abstract!Expire

LEMMA CustodyInit == Init => Abstract!Init
<1> SUFFICES ASSUME Init PROVE Abstract!Init
  OBVIOUS
<1>1. (\A t \in Tags : CustodyOf(t) = "unknown") /\ emitted = {}
  BY TagAssumption DEF Init, CustodyOf
<1>2. QED
  BY <1>1 DEF Abstract!Init

LEMMA CustodyStep ==
  ASSUME {"outage", "fast_moves"} \cap Env = {}, OrdinaryScreens
  PROVE  OneSlotInv /\ OneSlotInv' /\ ShelfInv /\ [Next]_vars
           => [Abstract!Next]_(Abstract!custodyVars)
<1> SUFFICES ASSUME OneSlotInv, OneSlotInv', ShelfInv, [Next]_vars
             PROVE  [Abstract!Next]_(Abstract!custodyVars)
  OBVIOUS
<1>o. healthy /\ screen \in {"home", "mixing"} /\ uiPc = "idle"
  BY DEF OneSlotInv, Ordinary
<1>t. readings \subseteq Slots \X Tags /\ todo \subseteq Tags
  BY DEF OneSlotInv, TypeOK, PollOK
<1>1. CASE HandleAppeared
  <2>1. PICK r \in readings : r[2] \in todo /\ TagAppeared(r[1], r[2])
    BY <1>1 DEF HandleAppeared
  <2>2. pc = "appear" /\ r[1] \in Slots /\ r[2] \in Tags /\ <<r[1], r[2]>> \in readings
    BY <1>1, <1>t DEF HandleAppeared
  <2>3. \/ Abstract!Returned(r[2]) \/ Abstract!Moved(r[2])
        \/ Abstract!Placed(r[2]) \/ Abstract!WrongSlot(r[2])
    BY <2>1, <2>2, ArriveStep
  <2>4. QED
    BY <2>2, <2>3 DEF Abstract!Next
<1>2. CASE HandleDisappeared
  <2>1. PICK t \in todo : TagDisappeared(t)
    BY <1>2 DEF HandleDisappeared
  <2>2. Abstract!Depart(t) \/ Abstract!Quiet
    BY <1>2, <1>t, <2>1, DepartStep DEF HandleDisappeared
  <2>3. QED
    BY <1>t, <2>2 DEF Abstract!Next
<1>3. CASE CheckTimeouts
  BY <1>3, ExpireStep DEF Abstract!Next
<1>4. CASE Crash
  <2>1. tag' = [s \in Slots |-> NoTag] /\ emitted' = {}
    BY <1>4 DEF Crash
  <2>2. \A t \in Tags : CustodyOf(t)' = "unknown"
    BY <2>1, CustodyFactsNext, TagAssumption DEF CustodyIsKind
  <2>3. QED
    BY <2>1, <2>2 DEF Abstract!Next, Abstract!Forget
<1>5. CASE PollDown \/ UiStep
  BY <1>o, <1>5 DEF PollDown, rfidPaused, UiStep, SwapForgetTags, SwapResetSlots, SwapClearTimers
<1>6. CASE PollRfid \/ AppearedDone \/ DisappearedDone \/ RfidHealth \/ Tick \/ Start \/ Crew
  <2>1. UNCHANGED <<status, tag>> /\ emitted' = {}
    BY <1>6 DEF PollRfid, AppearedDone, DisappearedDone, RfidHealth, Tick, Start, Crew, TakeCan,
       PutCan, SwitchSession, GoScreen, SwapReaders, slotVars
  <2>2. QED
    BY <2>1, QuietStep DEF Abstract!Next
<1>7. CASE UNCHANGED vars
  <2>1. UNCHANGED <<status, tag, emitted>>
    BY <1>7 DEF vars, slotVars
  <2>2. \A t \in Tags : CustodyOf(t)' = CustodyOf(t)
    BY <2>1 DEF CustodyOf
  <2>3. QED
    BY <2>1, <2>2 DEF Abstract!custodyVars
<1>8. QED
  BY <1>1, <1>2, <1>3, <1>4, <1>5, <1>6, <1>7 DEF Next, HwStep

(* The tracker implements CanCustody: with every change of the shelf seen  *)
(* by a poll, its events tell the custody of every can, step by step,      *)
(* through missed reads and restarts.                                      *)
THEOREM CustodyIsTold ==
  ASSUME {"outage", "fast_moves"} \cap Env = {}, OrdinaryScreens
  PROVE  Spec => TellsCustody
<1>1. Init => OneSlotInv /\ ShelfInv /\ Abstract!Init
  BY OneSlotInit, ShelfInit, CustodyInit
<1>2. OneSlotInv /\ ShelfInv /\ [Next]_vars => OneSlotInv' /\ ShelfInv'
  BY OneSlotStep, ShelfStep
<1>3. OneSlotInv /\ OneSlotInv' /\ ShelfInv /\ [Next]_vars
        => [Abstract!Next]_(Abstract!custodyVars)
  BY CustodyStep
<1>4. QED
  BY <1>1, <1>2, <1>3, PTL DEF Spec, TellsCustody, Abstract!Spec
=============================================================================
