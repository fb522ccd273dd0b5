------------------------- MODULE MCServices_proofs --------------------------
(***************************************************************************)
(* What MCServices owes, for every value of its constants: the invariants  *)
(* its run checks, by theorems about the single services.  Those of the    *)
(* stock table and a mixing session have modules of their own; the weight  *)
(* alarm, the alarm manager, the uploads, the updates and the scales       *)
(* follow here, and the types of the whole.                                *)
(***************************************************************************)
EXTENDS MCServices, Sequences, WellFoundedInduction, TLAPS

-----------------------------------------------------------------------------
(* The weight alarm.                                                       *)

(* While an alarm is pending nothing is detected, and a detection does not *)
(* grow old while the UI thread is at work or a popup is open: no alarm is *)
(* raised then.                                                            *)
OneAlarm ==
  /\ raised = pending
  /\ pending => ~detected
  /\ pending \/ ui # "idle" \/ popup => since = 0
  /\ ~pending => elapsed = ScanTimeout
  /\ hw = "ring" => pending /\ ~popup /\ ui = "idle"
  /\ hw = "silence" \/ ui \in {"silence", "confirm"} => ~pending

(* Whoever is about to clear an alarm has published what became of it.     *)
Published == hw = "clear" \/ ui = "clear" => told # {}

Sounding == /\ pending /\ hw # "ring" => buzzer = "alarm"
            /\ ~pending /\ buzzer = "alarm" => hw = "silence" \/ ui = "silence"

(* A detection is not older than the change it stands for, unless the next *)
(* look at the weight ends it.                                             *)
Lasting ==
  /\ baseline = NoWeight \/ (rfidHealthy /\ hw = "poll") => ~detected
  /\ detected => \/ since <= off
                 \/ rfidHealthy
                 \/ ~loading /\ ~Significant(weight, baseline)

IInv == TypeOK /\ OneAlarm /\ Published /\ Sounding /\ Lasting

-----------------------------------------------------------------------------
LEMMA Times == Sustain \in Nat /\ Sustain > 0 /\ ScanTimeout \in Nat /\ ScanTimeout > 0
BY TimeAssumption

LEMMA InitInv == Init => IInv
<1> SUFFICES ASSUME Init PROVE IInv
  OBVIOUS
<1>1. TypeOK
  <2>1. /\ rfidHealthy \in BOOLEAN /\ loading \in BOOLEAN /\ detected \in BOOLEAN
        /\ pending \in BOOLEAN /\ popup \in BOOLEAN /\ raised \in BOOLEAN
    BY DEF Init
  <2>2. QED
    BY <2>1, Times DEF Init, TypeOK
<1>2. OneAlarm /\ Published /\ Sounding /\ Lasting
  BY DEF Init, OneAlarm, Published, Sounding, Lasting
<1>3. QED
  BY <1>1, <1>2 DEF IInv

LEMMA TypeStep == TypeOK /\ [Next]_vars => TypeOK'
<1> SUFFICES ASSUME TypeOK, [Next]_vars PROVE TypeOK'
  OBVIOUS
<1> USE Times DEF vars, crewVars, watchVars, alarmVars
<1>1. CASE CheckPending
  BY <1>1 DEF CheckPending, TypeOK
<1>2. CASE CheckElapsed
  BY <1>2 DEF CheckElapsed, TypeOK
<1>3. CASE PublishUnauthorized
  BY <1>3 DEF PublishUnauthorized, TypeOK
<1>4. CASE ExpireClear
  <2>1. pending' \in BOOLEAN /\ raised' \in BOOLEAN
    BY <1>4 DEF ExpireClear, Clear
  <2>2. QED
    BY <1>4, <2>1 DEF ExpireClear, Clear, TypeOK
<1>5. CASE ExpireSilence
  BY <1>5 DEF ExpireSilence, Silence, TypeOK
<1>6. CASE FirstReading
  BY <1>6 DEF FirstReading, TypeOK
<1>7. CASE Detect
  BY <1>7 DEF Detect, TypeOK
<1>8. CASE KeepWaiting
  BY <1>8 DEF KeepWaiting, TypeOK
<1>9. CASE Trigger
  <2>1. pending' \in BOOLEAN /\ raised' \in BOOLEAN /\ detected' \in BOOLEAN
    BY <1>9 DEF Trigger
  <2>2. QED
    BY <1>9, <2>1 DEF Trigger, TypeOK
<1>10. CASE Ring
  BY <1>10 DEF Ring, TypeOK
<1>11. CASE Settle
  <2>1. detected' \in BOOLEAN
    BY <1>11 DEF Settle, Revert
  <2>2. QED
    BY <1>11, <2>1 DEF Settle, Revert, TypeOK
<1>12. CASE Follow
  <2>1. detected' \in BOOLEAN
    BY <1>12 DEF Follow, Revert, Followed
  <2>2. QED
    BY <1>12, <2>1 DEF Follow, Revert, Followed, TypeOK
<1>13. CASE LookAway
  BY <1>13 DEF LookAway, TypeOK
<1>14. CASE Resolve
  BY <1>14 DEF Resolve, TypeOK
<1>15. CASE PublishResolved
  BY <1>15 DEF PublishResolved, TypeOK
<1>16. CASE ResolveClear
  <2>1. pending' \in BOOLEAN /\ raised' \in BOOLEAN
    BY <1>16 DEF ResolveClear, Clear
  <2>2. QED
    BY <1>16, <2>1 DEF ResolveClear, Clear, TypeOK
<1>17. CASE ResolveSilence
  BY <1>17 DEF ResolveSilence, Silence, TypeOK
<1>18. CASE Confirm
  BY <1>18 DEF Confirm, TypeOK
<1>19. CASE SwitchLoading
  BY <1>19 DEF SwitchLoading, TypeOK
<1>20. CASE Scan
  BY <1>20 DEF Scan, TypeOK
<1>21. CASE ClosePopup
  BY <1>21 DEF ClosePopup, TypeOK
<1>22. ASSUME NEW w \in Weights, Handle(w) PROVE TypeOK'
  BY <1>22 DEF Handle, TypeOK
<1>23. CASE Tick
  BY <1>23 DEF Tick, Later, TypeOK
<1>24. CASE UNCHANGED vars
  BY <1>24 DEF vars, TypeOK
<1>25. QED
  BY <1>1, <1>2, <1>3, <1>4, <1>5, <1>6, <1>7, <1>8, <1>9, <1>10, <1>11,
     <1>12, <1>13, <1>14, <1>15, <1>16, <1>17, <1>18, <1>19, <1>20, <1>21,
     <1>22, <1>23, <1>24 DEF Next, HwStep, UiStep, Crew

LEMMA OneAlarmStep == TypeOK /\ OneAlarm /\ [Next]_vars => OneAlarm'
<1> SUFFICES ASSUME TypeOK, OneAlarm, [Next]_vars PROVE OneAlarm'
  OBVIOUS
<1> USE Times DEF vars, crewVars, watchVars, alarmVars
<1>1. CASE CheckPending
  BY <1>1 DEF CheckPending, OneAlarm, TypeOK
<1>2. CASE CheckElapsed
  BY <1>2 DEF CheckElapsed, OneAlarm, TypeOK
<1>3. CASE PublishUnauthorized
  BY <1>3 DEF PublishUnauthorized, OneAlarm, TypeOK
<1>4. CASE ExpireClear
  BY <1>4 DEF ExpireClear, Clear, OneAlarm, TypeOK
<1>5. CASE ExpireSilence
  BY <1>5 DEF ExpireSilence, Silence, OneAlarm, TypeOK
<1>6. CASE FirstReading
  BY <1>6 DEF FirstReading, OneAlarm, TypeOK
<1>7. CASE Detect
  BY <1>7 DEF Detect, OneAlarm, TypeOK, watching
<1>8. CASE KeepWaiting
  BY <1>8 DEF KeepWaiting, OneAlarm, TypeOK
<1>9. CASE Trigger
  BY <1>9 DEF Trigger, OneAlarm, TypeOK
<1>10. CASE Ring
  BY <1>10 DEF Ring, OneAlarm, TypeOK
<1>11. CASE Settle
  BY <1>11 DEF Settle, Revert, OneAlarm, TypeOK
<1>12. CASE Follow
  BY <1>12 DEF Follow, Revert, Followed, OneAlarm, TypeOK
<1>13. CASE LookAway
  BY <1>13 DEF LookAway, OneAlarm, TypeOK
<1>14. CASE Resolve
  BY <1>14 DEF Resolve, OneAlarm, TypeOK
<1>15. CASE PublishResolved
  BY <1>15 DEF PublishResolved, OneAlarm, TypeOK
<1>16. CASE ResolveClear
  BY <1>16 DEF ResolveClear, Clear, OneAlarm, TypeOK
<1>17. CASE ResolveSilence
  BY <1>17 DEF ResolveSilence, Silence, OneAlarm, TypeOK
<1>18. CASE Confirm
  BY <1>18 DEF Confirm, OneAlarm, TypeOK
<1>19. CASE SwitchLoading
  BY <1>19 DEF SwitchLoading, OneAlarm, TypeOK
<1>20. CASE Scan
  BY <1>20 DEF Scan, OneAlarm, TypeOK
<1>21. CASE ClosePopup
  BY <1>21 DEF ClosePopup, OneAlarm, TypeOK
<1>22. ASSUME NEW w \in Weights, Handle(w) PROVE OneAlarm'
  BY <1>22 DEF Handle, OneAlarm, TypeOK
<1>23. CASE Tick
  BY <1>23 DEF Tick, Later, OneAlarm, TypeOK
<1>24. CASE UNCHANGED vars
  BY <1>24 DEF vars, OneAlarm, TypeOK
<1>25. QED
  BY <1>1, <1>2, <1>3, <1>4, <1>5, <1>6, <1>7, <1>8, <1>9, <1>10, <1>11,
     <1>12, <1>13, <1>14, <1>15, <1>16, <1>17, <1>18, <1>19, <1>20, <1>21,
     <1>22, <1>23, <1>24 DEF Next, HwStep, UiStep, Crew

LEMMA PublishedStep == OneAlarm /\ Published /\ [Next]_vars => Published'
<1> SUFFICES ASSUME OneAlarm, Published, [Next]_vars PROVE Published'
  OBVIOUS
<1> USE Times DEF vars, crewVars, watchVars, alarmVars
<1>1. CASE CheckPending
  BY <1>1 DEF CheckPending, Published, OneAlarm
<1>2. CASE CheckElapsed
  BY <1>2 DEF CheckElapsed, Published, OneAlarm
<1>3. CASE PublishUnauthorized
  BY <1>3 DEF PublishUnauthorized, Published, OneAlarm
<1>4. CASE ExpireClear
  BY <1>4 DEF ExpireClear, Clear, Published, OneAlarm
<1>5. CASE ExpireSilence
  BY <1>5 DEF ExpireSilence, Silence, Published, OneAlarm
<1>6. CASE FirstReading
  BY <1>6 DEF FirstReading, Published, OneAlarm
<1>7. CASE Detect
  BY <1>7 DEF Detect, Published, OneAlarm
<1>8. CASE KeepWaiting
  BY <1>8 DEF KeepWaiting, Published, OneAlarm
<1>9. CASE Trigger
  BY <1>9 DEF Trigger, Published, OneAlarm
<1>10. CASE Ring
  BY <1>10 DEF Ring, Published, OneAlarm
<1>11. CASE Settle
  BY <1>11 DEF Settle, Revert, Published, OneAlarm
<1>12. CASE Follow
  BY <1>12 DEF Follow, Revert, Followed, Published, OneAlarm
<1>13. CASE LookAway
  BY <1>13 DEF LookAway, Published, OneAlarm
<1>14. CASE Resolve
  BY <1>14 DEF Resolve, Published, OneAlarm
<1>15. CASE PublishResolved
  BY <1>15 DEF PublishResolved, Published, OneAlarm
<1>16. CASE ResolveClear
  BY <1>16 DEF ResolveClear, Clear, Published, OneAlarm
<1>17. CASE ResolveSilence
  BY <1>17 DEF ResolveSilence, Silence, Published, OneAlarm
<1>18. CASE Confirm
  BY <1>18 DEF Confirm, Published, OneAlarm
<1>19. CASE SwitchLoading
  BY <1>19 DEF SwitchLoading, Published, OneAlarm
<1>20. CASE Scan
  BY <1>20 DEF Scan, Published, OneAlarm
<1>21. CASE ClosePopup
  BY <1>21 DEF ClosePopup, Published, OneAlarm
<1>22. ASSUME NEW w \in Weights, Handle(w) PROVE Published'
  BY <1>22 DEF Handle, Published, OneAlarm
<1>23. CASE Tick
  BY <1>23 DEF Tick, Later, Published, OneAlarm
<1>24. CASE UNCHANGED vars
  BY <1>24 DEF vars, Published, OneAlarm
<1>25. QED
  BY <1>1, <1>2, <1>3, <1>4, <1>5, <1>6, <1>7, <1>8, <1>9, <1>10, <1>11,
     <1>12, <1>13, <1>14, <1>15, <1>16, <1>17, <1>18, <1>19, <1>20, <1>21,
     <1>22, <1>23, <1>24 DEF Next, HwStep, UiStep, Crew

LEMMA SoundingStep == TypeOK /\ OneAlarm /\ Sounding /\ [Next]_vars => Sounding'
<1> SUFFICES ASSUME TypeOK, OneAlarm, Sounding, [Next]_vars PROVE Sounding'
  OBVIOUS
<1> USE Times DEF vars, crewVars, watchVars, alarmVars
<1>1. CASE CheckPending
  BY <1>1 DEF CheckPending, Sounding, OneAlarm, TypeOK
<1>2. CASE CheckElapsed
  BY <1>2 DEF CheckElapsed, Sounding, OneAlarm, TypeOK
<1>3. CASE PublishUnauthorized
  BY <1>3 DEF PublishUnauthorized, Sounding, OneAlarm, TypeOK
<1>4. CASE ExpireClear
  BY <1>4 DEF ExpireClear, Clear, Sounding, OneAlarm, TypeOK
<1>5. CASE ExpireSilence
  BY <1>5 DEF ExpireSilence, Silence, Sounding, OneAlarm, TypeOK
<1>6. CASE FirstReading
  BY <1>6 DEF FirstReading, Sounding, OneAlarm, TypeOK
<1>7. CASE Detect
  BY <1>7 DEF Detect, Sounding, OneAlarm, TypeOK
<1>8. CASE KeepWaiting
  BY <1>8 DEF KeepWaiting, Sounding, OneAlarm, TypeOK
<1>9. CASE Trigger
  BY <1>9 DEF Trigger, Sounding, OneAlarm, TypeOK
<1>10. CASE Ring
  BY <1>10 DEF Ring, Sounding, OneAlarm, TypeOK
<1>11. CASE Settle
  BY <1>11 DEF Settle, Revert, Sounding, OneAlarm, TypeOK
<1>12. CASE Follow
  BY <1>12 DEF Follow, Revert, Followed, Sounding, OneAlarm, TypeOK
<1>13. CASE LookAway
  BY <1>13 DEF LookAway, Sounding, OneAlarm, TypeOK
<1>14. CASE Resolve
  BY <1>14 DEF Resolve, Sounding, OneAlarm, TypeOK
<1>15. CASE PublishResolved
  BY <1>15 DEF PublishResolved, Sounding, OneAlarm, TypeOK
<1>16. CASE ResolveClear
  BY <1>16 DEF ResolveClear, Clear, Sounding, OneAlarm, TypeOK
<1>17. CASE ResolveSilence
  BY <1>17 DEF ResolveSilence, Silence, Sounding, OneAlarm, TypeOK
<1>18. CASE Confirm
  BY <1>18 DEF Confirm, Sounding, OneAlarm, TypeOK
<1>19. CASE SwitchLoading
  BY <1>19 DEF SwitchLoading, Sounding, OneAlarm, TypeOK
<1>20. CASE Scan
  BY <1>20 DEF Scan, Sounding, OneAlarm, TypeOK
<1>21. CASE ClosePopup
  BY <1>21 DEF ClosePopup, Sounding, OneAlarm, TypeOK
<1>22. ASSUME NEW w \in Weights, Handle(w) PROVE Sounding'
  BY <1>22 DEF Handle, Sounding, OneAlarm, TypeOK
<1>23. CASE Tick
  BY <1>23 DEF Tick, Later, Sounding, OneAlarm, TypeOK
<1>24. CASE UNCHANGED vars
  BY <1>24 DEF vars, Sounding, OneAlarm, TypeOK
<1>25. QED
  BY <1>1, <1>2, <1>3, <1>4, <1>5, <1>6, <1>7, <1>8, <1>9, <1>10, <1>11,
     <1>12, <1>13, <1>14, <1>15, <1>16, <1>17, <1>18, <1>19, <1>20, <1>21,
     <1>22, <1>23, <1>24 DEF Next, HwStep, UiStep, Crew

LEMMA LastingStep == TypeOK /\ OneAlarm /\ Lasting /\ [Next]_vars => Lasting'
<1> SUFFICES ASSUME TypeOK, OneAlarm, Lasting, [Next]_vars PROVE Lasting'
  OBVIOUS
<1> USE Times DEF vars, crewVars, watchVars, alarmVars
<1>1. CASE CheckPending
  BY <1>1 DEF CheckPending, Lasting, OneAlarm, TypeOK
<1>2. CASE CheckElapsed
  BY <1>2 DEF CheckElapsed, Lasting, OneAlarm, TypeOK
<1>3. CASE PublishUnauthorized
  BY <1>3 DEF PublishUnauthorized, Lasting, OneAlarm, TypeOK
<1>4. CASE ExpireClear
  BY <1>4 DEF ExpireClear, Clear, Lasting, OneAlarm, TypeOK
<1>5. CASE ExpireSilence
  BY <1>5 DEF ExpireSilence, Silence, Lasting, OneAlarm, TypeOK
<1>6. CASE FirstReading
  BY <1>6 DEF FirstReading, Lasting, OneAlarm, TypeOK
<1>7. CASE Detect
  BY <1>7 DEF Detect, Lasting, TypeOK, watching, Significant
<1>8. CASE KeepWaiting
  BY <1>8 DEF KeepWaiting, Lasting, OneAlarm, TypeOK, watching
<1>9. CASE Trigger
  BY <1>9 DEF Trigger, Lasting, OneAlarm, TypeOK
<1>10. CASE Ring
  BY <1>10 DEF Ring, Lasting, OneAlarm, TypeOK
<1>11. CASE Settle
  BY <1>11 DEF Settle, Revert, Lasting, OneAlarm, TypeOK, watching
<1>12. CASE Follow
  BY <1>12 DEF Follow, Revert, Followed, Lasting, OneAlarm, TypeOK
<1>13. CASE LookAway
  BY <1>13 DEF LookAway, Lasting, OneAlarm, TypeOK, watching
<1>14. CASE Resolve
  BY <1>14 DEF Resolve, Lasting, OneAlarm, TypeOK
<1>15. CASE PublishResolved
  BY <1>15 DEF PublishResolved, Lasting, OneAlarm, TypeOK
<1>16. CASE ResolveClear
  BY <1>16 DEF ResolveClear, Clear, Lasting, OneAlarm, TypeOK
<1>17. CASE ResolveSilence
  BY <1>17 DEF ResolveSilence, Silence, Lasting, OneAlarm, TypeOK
<1>18. CASE Confirm
  BY <1>18 DEF Confirm, Lasting, OneAlarm, TypeOK
<1>19. CASE SwitchLoading
  BY <1>19 DEF SwitchLoading, Lasting, OneAlarm, TypeOK, watching, Seen
<1>20. CASE Scan
  BY <1>20 DEF Scan, Lasting, OneAlarm, TypeOK
<1>21. CASE ClosePopup
  BY <1>21 DEF ClosePopup, Lasting, OneAlarm, TypeOK
<1>22. ASSUME NEW w \in Weights, Handle(w) PROVE Lasting'
  BY <1>22 DEF Handle, Lasting, OneAlarm, TypeOK, watching, Seen, Sampled
<1>23. CASE Tick
  BY <1>23 DEF Tick, Later, Lasting, OneAlarm, TypeOK, watching, Seen, Sampled
<1>24. CASE UNCHANGED vars
  BY <1>24 DEF vars, Lasting, OneAlarm, TypeOK
<1>25. QED
  BY <1>1, <1>2, <1>3, <1>4, <1>5, <1>6, <1>7, <1>8, <1>9, <1>10, <1>11,
     <1>12, <1>13, <1>14, <1>15, <1>16, <1>17, <1>18, <1>19, <1>20, <1>21,
     <1>22, <1>23, <1>24 DEF Next, HwStep, UiStep, Crew

LEMMA Inductive == Spec => []IInv
<1>1. IInv /\ [Next]_vars => IInv'
  BY TypeStep, OneAlarmStep, PublishedStep, SoundingStep, LastingStep DEF IInv
<1>2. QED
  BY InitInv, <1>1, PTL DEF Spec

-----------------------------------------------------------------------------
(* The state of the alarm, of the buzzer and of the popup keeps its types. *)
THEOREM AlarmTypeCorrect == Spec => []TypeOK
<1>1. IInv => TypeOK
  BY DEF IInv
<1>2. QED
  BY <1>1, Inductive, PTL

(* With both threads idle the buzzer sounds the alarm exactly while one is *)
(* pending.                                                                *)
THEOREM BuzzerInStep == Spec => []BuzzerMatchesAlarm
<1>1. IInv => BuzzerMatchesAlarm
  BY DEF IInv, OneAlarm, Sounding, BuzzerMatchesAlarm, threadsIdle
<1>2. QED
  BY <1>1, Inductive, PTL

(* Whichever thread clears an alarm, what became of it has been published. *)
THEOREM AlarmsAreTold == Spec => NoAlarmUntold
<1>1. IInv /\ [Next]_vars => [raised /\ ~raised' => told # {}]_vars
  <2> SUFFICES ASSUME IInv, Next, raised, ~raised' PROVE told # {}
    OBVIOUS
  <2>1. ExpireClear \/ ResolveClear
    BY DEF Next, HwStep, UiStep, Crew, CheckPending, CheckElapsed, PublishUnauthorized,
       ExpireSilence, FirstReading, Detect, KeepWaiting, Trigger, Ring, Settle, Follow, LookAway,
       Resolve, PublishResolved, ResolveSilence, Confirm, Handle, SwitchLoading, Scan,
       ClosePopup, Tick, Silence, alarmVars
  <2>2. QED
    BY <2>1 DEF IInv, Published, ExpireClear, ResolveClear
<1>2. QED
  BY <1>1, Inductive, PTL DEF Spec, NoAlarmUntold

(* An alarm is raised only by a change that has lasted WEIGHT_SUSTAIN_S.   *)
THEOREM ChangesAreSustained == Spec => OnlySustainedChanges
<1>1. IInv /\ [Next]_vars => [raised' /\ ~raised => off >= Sustain]_vars
  <2> SUFFICES ASSUME IInv, Next, raised', ~raised PROVE off >= Sustain
    OBVIOUS
  <2>1. Trigger
    BY DEF Next, HwStep, UiStep, Crew, CheckPending, CheckElapsed, PublishUnauthorized,
       ExpireClear, ExpireSilence, FirstReading, Detect, KeepWaiting, Ring, Settle, Follow,
       LookAway, Resolve, PublishResolved, ResolveClear, ResolveSilence, Confirm, Handle,
       SwitchLoading, Scan, ClosePopup, Tick, Clear, Silence, alarmVars
  <2>2. since <= off /\ since >= Sustain /\ since \in Nat /\ off \in Nat
    BY <2>1 DEF IInv, TypeOK, Lasting, Trigger, watching
  <2>3. QED
    BY <2>2, Times
<1>2. QED
  BY <1>1, Inductive, PTL DEF Spec, OnlySustainedChanges

-----------------------------------------------------------------------------

(* Every behaviour is a behaviour of each service: a step of another       *)
(* service leaves its variables as they are.                               *)
LEMMA AlarmPart == MCSpec => Spec
<1>1. MCInit => Init
  BY DEF MCInit
<1>2. [MCNext]_allVars => [Next]_vars
  BY DEF MCNext, allVars
<1>3. QED
  BY <1>1, <1>2, PTL DEF MCSpec, Spec

(* The buzzer sounds the alarm exactly while one is raised, as soon as     *)
(* both threads are idle.                                                  *)
THEOREM BuzzerInTune == MCSpec => []BuzzerMatchesAlarm
BY AlarmPart, BuzzerInStep, PTL

(* Every weight alarm is told of, and only changes that last raise one.    *)
THEOREM AlarmsTrue == MCSpec => AlarmsAreTrue
<1>1. Spec => NoAlarmUntold
  BY AlarmsAreTold
<1>2. Spec => OnlySustainedChanges
  BY ChangesAreSustained
<1>3. QED
  BY <1>1, <1>2, AlarmPart, PTL DEF AlarmsAreTrue

-----------------------------------------------------------------------------
(* The alarm manager, for any number of alarms at a time.                  *)
(* A thread that has taken an alarm off the list and has not yet tell that *)
(* it is over.                                                             *)
Resolving(t, i) == job[t].pc \in {"update", "resolved"} /\ job[t].id = i

(* An alarm that was tell to be over, or is about to be, is off the list;  *)
(* and no two threads are about to tell it.                                *)
ToldOver == \A i \in Alarms!Ids :
  /\ published[i]["resolved"] > 0 => i \notin active
  /\ \A t \in Alarms!Threads : Resolving(t, i) => i \notin active /\ published[i]["resolved"] = 0
  /\ \A t, u \in Alarms!Threads : Resolving(t, i) /\ Resolving(u, i) => t = u

ListInv == Alarms!TypeOK /\ ToldOver /\ Alarms!ResolvedOnce

(* The number of a new alarm is a free one.                                *)
LEMMA FreshIsFree ==
  ASSUME Alarms!Free # {}
  PROVE  (CHOOSE i \in Alarms!Free : \A j \in Alarms!Free : i <= j) \in Alarms!Free
<1>1. Alarms!Free \subseteq Nat
  BY DEF Alarms!Free, Alarms!Ids
<1>2. PICK i \in Alarms!Free : \A j \in Alarms!Free : ~ (<<j, i>> \in OpToRel(<, Nat))
  BY <1>1, NatLessThanWellFounded, WFMin
<1>3. \A j \in Alarms!Free : ~ (j < i)
  BY <1>1, <1>2 DEF OpToRel
<1>4. \A j \in Alarms!Free : i <= j
  BY <1>1, <1>3
<1>5. QED
  BY <1>4

LEMMA ListInit == Alarms!Init => ListInv
<1> SUFFICES ASSUME Alarms!Init PROVE ListInv
  OBVIOUS
<1>1. \A t \in Alarms!Threads : job[t] = Alarms!Resting
  BY DEF Alarms!Init
<1>2. \A i \in Alarms!Ids : published[i] = Alarms!NotTold
  BY DEF Alarms!Init
<1>3. Alarms!NotTold \in [Alarms!Events -> 0 .. 2] /\ Alarms!NotTold["resolved"] = 0
  BY DEF Alarms!NotTold, Alarms!Events
<1>4. Alarms!Resting \in [pc : Alarms!Places, todo : SUBSET Alarms!Ids,
    id : Alarms!Ids \cup {Alarms!NoId}]
  BY DEF Alarms!Resting, Alarms!Places
<1>5. Alarms!TypeOK
  BY <1>3, <1>4 DEF Alarms!Init, Alarms!TypeOK
<1>6. \A t \in Alarms!Threads, i \in Alarms!Ids : ~ Resolving(t, i)
  BY <1>1 DEF Resolving, Alarms!Resting
<1>7. QED
  BY <1>2, <1>3, <1>5, <1>6 DEF ListInv, ToldOver, Alarms!ResolvedOnce

(* A step that leaves the list and what was tell alone, and takes nothing  *)
(* off the list, leaves ToldOver as it is.                                     *)
LEMMA AlarmsQuiet ==
  ASSUME ListInv, UNCHANGED <<active, published>>,
         \A t \in Alarms!Threads, i \in Alarms!Ids : Resolving(t, i)' => Resolving(t, i)
  PROVE  ToldOver' /\ Alarms!ResolvedOnce'
<1>1. ToldOver'
  BY DEF ListInv, ToldOver
<1>2. QED
  BY <1>1 DEF ListInv, Alarms!ResolvedOnce

AlarmJobs == [pc : Alarms!Places, todo : SUBSET Alarms!Ids, id : Alarms!Ids \cup {Alarms!NoId}]

(* What one thread does leaves the job of the other alone.                 *)
LEMMA GoSets ==
  ASSUME Alarms!TypeOK, NEW t \in Alarms!Threads, NEW new \in AlarmJobs, Alarms!Go(t, new)
  PROVE  /\ job' \in [Alarms!Threads -> AlarmJobs]
         /\ job'[t] = new
         /\ \A u \in Alarms!Threads : u # t => job'[u] = job[u]
BY DEF Alarms!TypeOK, Alarms!Go, AlarmJobs

LEMMA GoOnSets ==
  ASSUME Alarms!TypeOK, NEW t \in Alarms!Threads, NEW pc \in Alarms!Places, Alarms!GoOn(t, pc)
  PROVE  /\ job' \in [Alarms!Threads -> AlarmJobs]
         /\ job'[t].pc = pc /\ job'[t].todo = job[t].todo /\ job'[t].id = job[t].id
         /\ \A u \in Alarms!Threads : u # t => job'[u] = job[u]
BY DEF Alarms!TypeOK, Alarms!GoOn, AlarmJobs

LEMMA PlacesAre ==
  /\ "check" \in Alarms!Places /\ "raised" \in Alarms!Places /\ "look" \in Alarms!Places
  /\ "update" \in Alarms!Places /\ "resolved" \in Alarms!Places
  /\ "ack row" \in Alarms!Places /\ "acked" \in Alarms!Places
BY DEF Alarms!Places

LEMMA RestingIsJob == Alarms!Resting \in AlarmJobs
BY DEF Alarms!Resting, AlarmJobs, Alarms!Places

(* An event is tell once more, and no other is.                            *)
LEMMA TellSets ==
  ASSUME Alarms!TypeOK, NEW i, NEW e \in Alarms!Events, Alarms!Tell(i, e)
  PROVE  /\ published' \in [Alarms!Ids -> [Alarms!Events -> 0 .. 2]]
         /\ \A j \in Alarms!Ids : j # i => published'[j] = published[j]
         /\ \A j \in Alarms!Ids, f \in Alarms!Events : f # e => published'[j][f] = published[j][f]
         /\ i \in Alarms!Ids /\ published[i][e] = 0 => published'[i][e] = 1
<1> DEFINE n == published[i][e]
           tell == [published[i] EXCEPT ![e] = IF n < 2 THEN n + 1 ELSE n]
<1>1. published' = [published EXCEPT ![i] = tell]
  BY DEF Alarms!Tell
<1>2. published \in [Alarms!Ids -> [Alarms!Events -> 0 .. 2]]
  BY DEF Alarms!TypeOK
<1>3. i \in Alarms!Ids => n \in 0 .. 2 /\ tell \in [Alarms!Events -> 0 .. 2]
  BY <1>2
<1>4. i \in Alarms!Ids => tell[e] = (IF n < 2 THEN n + 1 ELSE n)
  BY <1>2
<1>5. \A f \in Alarms!Events : i \in Alarms!Ids /\ f # e => tell[f] = published[i][f]
  BY <1>2
<1> HIDE DEF tell
<1>6. published' \in [Alarms!Ids -> [Alarms!Events -> 0 .. 2]]
  BY <1>1, <1>2, <1>3
<1>7. \A j \in Alarms!Ids : published'[j] = IF j = i THEN tell ELSE published[j]
  BY <1>1, <1>2
<1>8. QED
  BY <1>2, <1>4, <1>5, <1>6, <1>7

-----------------------------------------------------------------------------
LEMMA CheckBegins == ASSUME ListInv, NEW t \in Alarms!Threads, Alarms!Begin(t) PROVE ListInv'
<1>1. /\ job' \in [Alarms!Threads -> AlarmJobs]
      /\ job'[t].pc = "check"
      /\ \A u \in Alarms!Threads : u # t => job'[u] = job[u]
  BY GoOnSets, PlacesAre DEF ListInv, Alarms!Begin
<1>2. Alarms!TypeOK'
  BY <1>1 DEF ListInv, Alarms!TypeOK, Alarms!Begin, AlarmJobs, Alarms!listVars, Alarms!toldVars
<1>3. UNCHANGED <<active, published>>
  BY DEF Alarms!Begin, Alarms!listVars, Alarms!toldVars
<1>4. \A u \in Alarms!Threads, i \in Alarms!Ids : Resolving(u, i)' => Resolving(u, i)
  BY <1>1 DEF Resolving
<1>5. QED
  BY <1>2, <1>3, <1>4, AlarmsQuiet DEF ListInv

LEMMA RaiseAlarmStep == ASSUME ListInv, NEW t \in Alarms!Threads, Alarms!RaiseAlarm(t)
    PROVE ListInv'
<1> DEFINE i == CHOOSE i \in Alarms!Free : \A j \in Alarms!Free : i <= j
           new == [pc |-> "save", todo |-> {}, id |-> i]
<1>1. i \in Alarms!Free
  BY FreshIsFree DEF Alarms!RaiseAlarm
<1>2. i \in Alarms!Ids /\ i \notin active /\ \A u \in Alarms!Threads : job[u].id # i
  BY <1>1 DEF Alarms!Free, Alarms!Used
<1>3. /\ active' = active \cup {i}
      /\ status' = [status EXCEPT ![i] = "active"]
      /\ row' = [row EXCEPT ![i] = "none"] /\ published' = [published EXCEPT ![i] = Alarms!NotTold]
      /\ Alarms!Go(t, new) /\ recent' = TRUE
      /\ UNCHANGED <<bad, checked>>
  BY DEF Alarms!RaiseAlarm
<1> HIDE DEF i
<1>4. new \in AlarmJobs
  BY <1>2 DEF AlarmJobs, Alarms!Places
<1>5. /\ job' \in [Alarms!Threads -> AlarmJobs]
      /\ job'[t] = new
      /\ \A u \in Alarms!Threads : u # t => job'[u] = job[u]
  BY <1>3, <1>4, GoSets DEF ListInv
<1>6. Alarms!NotTold \in [Alarms!Events -> 0 .. 2] /\ Alarms!NotTold["resolved"] = 0
  BY DEF Alarms!NotTold, Alarms!Events
<1>7. Alarms!TypeOK'
  BY <1>2, <1>3, <1>5, <1>6 DEF ListInv, Alarms!TypeOK, AlarmJobs
<1>8. published'[i] = Alarms!NotTold /\ \A j \in Alarms!Ids : j # i => published'[j] = published[j]
  BY <1>2, <1>3 DEF ListInv, Alarms!TypeOK
<1>9. \A u \in Alarms!Threads, j \in Alarms!Ids : Resolving(u, j)' => Resolving(u, j) /\ j # i
  BY <1>2, <1>5 DEF Resolving
<1>10. ToldOver'
  BY <1>2, <1>3, <1>6, <1>8, <1>9 DEF ListInv, ToldOver
<1>11. QED
  BY <1>6, <1>7, <1>8, <1>10 DEF ListInv, Alarms!ResolvedOnce

LEMMA TooSoonStep == ASSUME ListInv, NEW t \in Alarms!Threads, Alarms!TooSoon(t) PROVE ListInv'
<1>1. /\ job' \in [Alarms!Threads -> AlarmJobs]
      /\ job'[t] = Alarms!Resting
      /\ \A u \in Alarms!Threads : u # t => job'[u] = job[u]
  BY GoSets, RestingIsJob DEF ListInv, Alarms!TooSoon
<1>2. Alarms!TypeOK'
  BY <1>1 DEF ListInv, Alarms!TypeOK, Alarms!TooSoon, AlarmJobs, Alarms!listVars, Alarms!toldVars
<1>3. \A u \in Alarms!Threads, i \in Alarms!Ids : Resolving(u, i)' => Resolving(u, i)
  BY <1>1 DEF Resolving, Alarms!Resting
<1>4. QED
  BY <1>2, <1>3, AlarmsQuiet DEF ListInv, Alarms!TooSoon, Alarms!listVars, Alarms!toldVars

LEMMA SaveAlarmStep == ASSUME ListInv, NEW t \in Alarms!Threads, Alarms!SaveAlarm(t) PROVE ListInv'
<1>1. /\ job' \in [Alarms!Threads -> AlarmJobs]
      /\ job'[t].pc = "raised"
      /\ \A u \in Alarms!Threads : u # t => job'[u] = job[u]
  BY GoOnSets, PlacesAre DEF ListInv, Alarms!SaveAlarm
<1>2. row' \in [Alarms!Ids -> {"none", "active", "acknowledged", "resolved"}]
  BY DEF ListInv, Alarms!TypeOK, Alarms!SaveAlarm
<1>3. Alarms!TypeOK'
  BY <1>1, <1>2 DEF ListInv, Alarms!TypeOK, Alarms!SaveAlarm, AlarmJobs, Alarms!listVars
<1>4. \A u \in Alarms!Threads, i \in Alarms!Ids : Resolving(u, i)' => Resolving(u, i)
  BY <1>1 DEF Resolving
<1>5. QED
  BY <1>3, <1>4, AlarmsQuiet DEF ListInv, Alarms!SaveAlarm, Alarms!listVars

LEMMA TellRaisedStep == ASSUME ListInv, NEW t \in Alarms!Threads, Alarms!TellRaised(t)
    PROVE ListInv'
<1> DEFINE i == job[t].id
<1>1. /\ job' \in [Alarms!Threads -> AlarmJobs]
      /\ job'[t] = Alarms!Resting
      /\ \A u \in Alarms!Threads : u # t => job'[u] = job[u]
  BY GoSets, RestingIsJob DEF ListInv, Alarms!TellRaised
<1>2. \A u \in Alarms!Threads, j \in Alarms!Ids : Resolving(u, j)' => Resolving(u, j)
  BY <1>1 DEF Resolving, Alarms!Resting
<1>3. published' \in [Alarms!Ids -> [Alarms!Events -> 0 .. 2]]
  BY TellSets DEF ListInv, Alarms!TellRaised, Alarms!Events
<1>4. \A j \in Alarms!Ids : published'[j]["resolved"] = published[j]["resolved"]
  BY TellSets DEF ListInv, Alarms!TellRaised, Alarms!Events
<1>5. Alarms!TypeOK'
  BY <1>1, <1>3 DEF ListInv, Alarms!TypeOK, Alarms!TellRaised, AlarmJobs, Alarms!listVars
<1>6. ToldOver'
  BY <1>2, <1>4 DEF ListInv, ToldOver, Alarms!TellRaised, Alarms!listVars
<1>7. QED
  BY <1>4, <1>5, <1>6 DEF ListInv, Alarms!ResolvedOnce

LEMMA ResolveByCodeStep == ASSUME ListInv, NEW t \in Alarms!Threads, Alarms!ResolveByCode(t)
    PROVE ListInv'
<1> DEFINE new == [pc |-> "look", todo |-> active, id |-> Alarms!NoId]
<1>1. new \in AlarmJobs /\ Alarms!Go(t, new)
  BY DEF ListInv, Alarms!TypeOK, AlarmJobs, Alarms!Places, Alarms!ResolveByCode
<1>2. /\ job' \in [Alarms!Threads -> AlarmJobs]
      /\ job'[t] = new
      /\ \A u \in Alarms!Threads : u # t => job'[u] = job[u]
  BY <1>1, GoSets DEF ListInv
<1>3. Alarms!TypeOK'
  BY <1>2 DEF ListInv, Alarms!TypeOK, Alarms!ResolveByCode, AlarmJobs, Alarms!listVars,
              Alarms!toldVars
<1>4. \A u \in Alarms!Threads, i \in Alarms!Ids : Resolving(u, i)' => Resolving(u, i)
  BY <1>2 DEF Resolving
<1>5. QED
  BY <1>3, <1>4, AlarmsQuiet DEF ListInv, Alarms!ResolveByCode, Alarms!listVars, Alarms!toldVars

LEMMA AlarmsLook == ASSUME ListInv, NEW t \in Alarms!Threads, Alarms!Look(t) PROVE ListInv'
<1>1. PICK new \in AlarmJobs : Alarms!Go(t, new) /\ new.pc \in {"idle", "take", "look"}
  <2>1. CASE job[t].todo = {}
    BY <2>1, RestingIsJob DEF Alarms!Look, Alarms!Resting
  <2>2. CASE job[t].todo # {}
    <3>1. PICK i \in job[t].todo :
            Alarms!Go(t, [pc |-> IF i \in active THEN "take" ELSE "look",
                   todo |-> job[t].todo \ {i}, id |-> i])
      BY <2>2 DEF Alarms!Look
    <3>2. job[t].todo \subseteq Alarms!Ids
      BY DEF ListInv, Alarms!TypeOK
    <3>3. [pc |-> IF i \in active THEN "take" ELSE "look",
           todo |-> job[t].todo \ {i}, id |-> i] \in AlarmJobs
      BY <3>2 DEF AlarmJobs, Alarms!Places
    <3>4. QED
      BY <3>1, <3>3
  <2>3. QED
    BY <2>1, <2>2
<1>2. /\ job' \in [Alarms!Threads -> AlarmJobs]
      /\ job'[t] = new
      /\ \A u \in Alarms!Threads : u # t => job'[u] = job[u]
  BY <1>1, GoSets DEF ListInv
<1>3. checked' \in BOOLEAN
  BY DEF ListInv, Alarms!TypeOK, Alarms!Look
<1>4. Alarms!TypeOK'
  BY <1>2, <1>3
     DEF ListInv, Alarms!TypeOK, Alarms!Look, AlarmJobs, Alarms!listVars, Alarms!toldVars
<1>5. \A u \in Alarms!Threads, i \in Alarms!Ids : Resolving(u, i)' => Resolving(u, i)
  BY <1>1, <1>2 DEF Resolving
<1>6. QED
  BY <1>4, <1>5, AlarmsQuiet DEF ListInv, Alarms!Look, Alarms!listVars, Alarms!toldVars

(* Of two threads that have found the same alarm, only the one that still  *)
(* finds it on the list goes on.                                           *)
LEMMA AlarmsTake == ASSUME ListInv, NEW t \in Alarms!Threads, Alarms!Take(t) PROVE ListInv'
<1> DEFINE i == job[t].id
<1>1. /\ status' = [status EXCEPT ![i] = "resolved"]
      /\ UNCHANGED <<bad, row, published, recent, checked>>
  BY DEF Alarms!Take, Alarms!toldVars
<1>2. status' \in [Alarms!Ids -> {"active", "acknowledged", "resolved"}]
  BY <1>1 DEF ListInv, Alarms!TypeOK
<1>3. CASE i \in active
  <2>1. active' = active \ {i} /\ Alarms!GoOn(t, "update")
    BY <1>3 DEF Alarms!Take, Alarms!Removed
  <2>2. /\ job' \in [Alarms!Threads -> AlarmJobs]
        /\ job'[t].id = i
        /\ \A u \in Alarms!Threads : u # t => job'[u] = job[u]
    BY <2>1, GoOnSets, PlacesAre DEF ListInv
  <2>3. Alarms!TypeOK'
    BY <1>1, <1>2, <2>1, <2>2 DEF ListInv, Alarms!TypeOK, AlarmJobs
  <2>4. i \in Alarms!Ids /\ published[i]["resolved"] = 0
        /\ \A u \in Alarms!Threads : ~ Resolving(u, i)
    BY <1>3 DEF ListInv, Alarms!TypeOK, ToldOver, Alarms!Events
  <2>5. \A u \in Alarms!Threads, j \in Alarms!Ids : Resolving(u, j)'
        => Resolving(u, j) \/ (u = t /\ j = i)
    BY <2>2 DEF Resolving
  <2>6. ToldOver'
    BY <1>1, <2>1, <2>4, <2>5 DEF ListInv, ToldOver
  <2>7. QED
    BY <1>1, <2>3, <2>6 DEF ListInv, Alarms!ResolvedOnce
<1>4. CASE i \notin active
  <2>1. active' = active /\ Alarms!Go(t, Alarms!Resting)
    BY <1>4 DEF Alarms!Take
  <2>2. /\ job' \in [Alarms!Threads -> AlarmJobs]
        /\ job'[t] = Alarms!Resting
        /\ \A u \in Alarms!Threads : u # t => job'[u] = job[u]
    BY <2>1, GoSets, RestingIsJob DEF ListInv
  <2>3. Alarms!TypeOK'
    BY <1>1, <1>2, <2>1, <2>2 DEF ListInv, Alarms!TypeOK, AlarmJobs
  <2>4. \A u \in Alarms!Threads, j \in Alarms!Ids : Resolving(u, j)' => Resolving(u, j)
    BY <2>2 DEF Resolving, Alarms!Resting
  <2>5. QED
    BY <1>1, <2>1, <2>3, <2>4, AlarmsQuiet DEF ListInv
<1>5. QED
  BY <1>3, <1>4

LEMMA UpdateRowStep == ASSUME ListInv, NEW t \in Alarms!Threads, Alarms!UpdateRow(t) PROVE ListInv'
<1>1. /\ job' \in [Alarms!Threads -> AlarmJobs]
      /\ job'[t].id = job[t].id
      /\ \A u \in Alarms!Threads : u # t => job'[u] = job[u]
  BY GoOnSets, PlacesAre DEF ListInv, Alarms!UpdateRow
<1>2. row' \in [Alarms!Ids -> {"none", "active", "acknowledged", "resolved"}]
  BY DEF ListInv, Alarms!TypeOK, Alarms!UpdateRow
<1>3. Alarms!TypeOK'
  BY <1>1, <1>2 DEF ListInv, Alarms!TypeOK, Alarms!UpdateRow, AlarmJobs, Alarms!listVars
<1>4. \A u \in Alarms!Threads, i \in Alarms!Ids : Resolving(u, i)' => Resolving(u, i)
  BY <1>1 DEF Resolving, Alarms!UpdateRow
<1>5. QED
  BY <1>3, <1>4, AlarmsQuiet DEF ListInv, Alarms!UpdateRow, Alarms!listVars

(* The one thread that resolves an alarm tells it, and never again.        *)
LEMMA TellResolvedStep == ASSUME ListInv, NEW t \in Alarms!Threads, Alarms!TellResolved(t)
    PROVE ListInv'
<1> DEFINE i == job[t].id
<1>1. /\ job' \in [Alarms!Threads -> AlarmJobs]
      /\ job'[t].pc = "look"
      /\ \A u \in Alarms!Threads : u # t => job'[u] = job[u]
  BY GoOnSets, PlacesAre DEF ListInv, Alarms!TellResolved
<1>2. published' \in [Alarms!Ids -> [Alarms!Events -> 0 .. 2]]
  BY TellSets DEF ListInv, Alarms!TellResolved, Alarms!Events
<1>3. Alarms!TypeOK'
  BY <1>1, <1>2 DEF ListInv, Alarms!TypeOK, Alarms!TellResolved, AlarmJobs, Alarms!listVars
<1>4. \A u \in Alarms!Threads, j \in Alarms!Ids : Resolving(u, j)' => Resolving(u, j) /\ u # t
  BY <1>1 DEF Resolving
<1>5. \A j \in Alarms!Ids : j # i => published'[j]["resolved"] = published[j]["resolved"]
  BY TellSets DEF ListInv, Alarms!TellResolved, Alarms!Events
<1>6. i \in Alarms!Ids => i \notin active /\ published[i]["resolved"] = 0 /\ Resolving(t, i)
  BY DEF ListInv, ToldOver, Resolving, Alarms!TellResolved
<1>7. i \in Alarms!Ids => published'[i]["resolved"] = 1
  BY <1>6, TellSets DEF ListInv, Alarms!TellResolved, Alarms!Events
<1>8. active' = active
  BY DEF Alarms!TellResolved, Alarms!listVars
<1>9. \A u \in Alarms!Threads, j \in Alarms!Ids : Resolving(u, j)' => j # i
  BY <1>4, <1>6 DEF ListInv, ToldOver
<1>10. ToldOver'
  BY <1>4, <1>5, <1>6, <1>8, <1>9 DEF ListInv, ToldOver
<1>11. Alarms!ResolvedOnce'
  BY <1>5, <1>7 DEF ListInv, Alarms!ResolvedOnce
<1>12. QED
  BY <1>3, <1>10, <1>11 DEF ListInv

-----------------------------------------------------------------------------
(* The alarm screen.                                                       *)
LEMMA ChangeStep == ASSUME ListInv, Alarms!Change PROVE ListInv'
<1>1. Alarms!TypeOK'
  BY DEF ListInv, Alarms!TypeOK, Alarms!Change, Alarms!listVars, Alarms!toldVars
<1>2. QED
  BY <1>1, AlarmsQuiet DEF ListInv, Alarms!Change, Alarms!listVars, Alarms!toldVars, Resolving

LEMMA ClickStep == ASSUME ListInv, NEW S \in SUBSET active, Alarms!Click(S) PROVE ListInv'
<1> DEFINE new == [pc |-> "look", todo |-> S, id |-> Alarms!NoId]
<1>1. new \in AlarmJobs /\ Alarms!Go("ui", new)
  BY DEF ListInv, Alarms!TypeOK, AlarmJobs, Alarms!Places, Alarms!Click
<1>2. /\ job' \in [Alarms!Threads -> AlarmJobs]
      /\ job'["ui"] = new
      /\ \A u \in Alarms!Threads : u # "ui" => job'[u] = job[u]
  BY <1>1, GoSets DEF ListInv, Alarms!Threads
<1>3. Alarms!TypeOK'
  BY <1>2 DEF ListInv, Alarms!TypeOK, Alarms!Click, AlarmJobs, Alarms!listVars, Alarms!toldVars
<1>4. \A u \in Alarms!Threads, i \in Alarms!Ids : Resolving(u, i)' => Resolving(u, i)
  BY <1>2 DEF Resolving
<1>5. QED
  BY <1>3, <1>4, AlarmsQuiet DEF ListInv, Alarms!Click, Alarms!listVars, Alarms!toldVars

LEMMA AcknowledgeStep == ASSUME ListInv, NEW i \in active, Alarms!Acknowledge(i) PROVE ListInv'
<1> DEFINE new == [pc |-> "ack", todo |-> {}, id |-> i]
<1>1. new \in AlarmJobs /\ Alarms!Go("ui", new)
  BY DEF ListInv, Alarms!TypeOK, AlarmJobs, Alarms!Places, Alarms!Acknowledge
<1>2. /\ job' \in [Alarms!Threads -> AlarmJobs]
      /\ job'["ui"] = new
      /\ \A u \in Alarms!Threads : u # "ui" => job'[u] = job[u]
  BY <1>1, GoSets DEF ListInv, Alarms!Threads
<1>3. Alarms!TypeOK'
  BY <1>2 DEF ListInv, Alarms!TypeOK, Alarms!Acknowledge, AlarmJobs, Alarms!listVars,
              Alarms!toldVars
<1>4. \A u \in Alarms!Threads, j \in Alarms!Ids : Resolving(u, j)' => Resolving(u, j)
  BY <1>2 DEF Resolving
<1>5. QED
  BY <1>3, <1>4, AlarmsQuiet DEF ListInv, Alarms!Acknowledge, Alarms!listVars, Alarms!toldVars

LEMMA AckStepStep == ASSUME ListInv, Alarms!AckStep PROVE ListInv'
<1>0. "ui" \in Alarms!Threads
  BY DEF Alarms!Threads
<1>1. CASE Alarms!SetAcknowledged
  <2>1. /\ job' \in [Alarms!Threads -> AlarmJobs]
        /\ job'["ui"].pc = "ack row"
        /\ \A u \in Alarms!Threads : u # "ui" => job'[u] = job[u]
    BY <1>0, <1>1, GoOnSets, PlacesAre DEF ListInv, Alarms!SetAcknowledged
  <2>2. status' \in [Alarms!Ids -> {"active", "acknowledged", "resolved"}]
    BY <1>1 DEF ListInv, Alarms!TypeOK, Alarms!SetAcknowledged
  <2>3. Alarms!TypeOK'
    BY <1>1, <2>1, <2>2
       DEF ListInv, Alarms!TypeOK, Alarms!SetAcknowledged, AlarmJobs, Alarms!toldVars
  <2>4. \A u \in Alarms!Threads, i \in Alarms!Ids : Resolving(u, i)' => Resolving(u, i)
    BY <2>1 DEF Resolving
  <2>5. QED
    BY <1>1, <2>3, <2>4, AlarmsQuiet DEF ListInv, Alarms!SetAcknowledged, Alarms!toldVars
<1>2. CASE Alarms!AcknowledgeRow
  <2>1. /\ job' \in [Alarms!Threads -> AlarmJobs]
        /\ job'["ui"].pc = "acked"
        /\ \A u \in Alarms!Threads : u # "ui" => job'[u] = job[u]
    BY <1>0, <1>2, GoOnSets, PlacesAre DEF ListInv, Alarms!AcknowledgeRow
  <2>2. row' \in [Alarms!Ids -> {"none", "active", "acknowledged", "resolved"}]
    BY <1>2 DEF ListInv, Alarms!TypeOK, Alarms!AcknowledgeRow
  <2>3. Alarms!TypeOK'
    BY <1>2, <2>1, <2>2
       DEF ListInv, Alarms!TypeOK, Alarms!AcknowledgeRow, AlarmJobs, Alarms!listVars
  <2>4. \A u \in Alarms!Threads, i \in Alarms!Ids : Resolving(u, i)' => Resolving(u, i)
    BY <2>1 DEF Resolving
  <2>5. QED
    BY <1>2, <2>3, <2>4, AlarmsQuiet DEF ListInv, Alarms!AcknowledgeRow, Alarms!listVars
<1>3. CASE Alarms!TellAcknowledged
  <2>1. /\ job' \in [Alarms!Threads -> AlarmJobs]
        /\ job'["ui"] = Alarms!Resting
        /\ \A u \in Alarms!Threads : u # "ui" => job'[u] = job[u]
    BY <1>0, <1>3, GoSets, RestingIsJob DEF ListInv, Alarms!TellAcknowledged
  <2>2. /\ published' \in [Alarms!Ids -> [Alarms!Events -> 0 .. 2]]
        /\ \A j \in Alarms!Ids : published'[j]["resolved"] = published[j]["resolved"]
    BY <1>3, TellSets DEF ListInv, Alarms!TellAcknowledged, Alarms!Events
  <2>3. Alarms!TypeOK'
    BY <1>3, <2>1, <2>2
       DEF ListInv, Alarms!TypeOK, Alarms!TellAcknowledged, AlarmJobs, Alarms!listVars
  <2>4. \A u \in Alarms!Threads, i \in Alarms!Ids : Resolving(u, i)' => Resolving(u, i)
    BY <2>1 DEF Resolving, Alarms!Resting
  <2>5. ToldOver'
    BY <1>3, <2>2, <2>4 DEF ListInv, ToldOver, Alarms!TellAcknowledged, Alarms!listVars
  <2>6. QED
    BY <2>2, <2>3, <2>5 DEF ListInv, Alarms!ResolvedOnce
<1>4. QED
  BY <1>1, <1>2, <1>3 DEF Alarms!AckStep

LEMMA ListStep == ASSUME ListInv, [Alarms!Next]_(Alarms!vars) PROVE ListInv'
<1>1. CASE UNCHANGED Alarms!vars
  <2>1. Alarms!TypeOK'
    BY <1>1 DEF ListInv, Alarms!TypeOK, Alarms!vars, Alarms!listVars, Alarms!toldVars
  <2>2. QED
    BY <1>1, <2>1, AlarmsQuiet
       DEF ListInv, Alarms!vars, Alarms!listVars, Alarms!toldVars, Resolving
<1>2. ASSUME NEW t \in Alarms!Threads, Alarms!JobStep(t) PROVE ListInv'
  BY <1>2, RaiseAlarmStep, TooSoonStep, SaveAlarmStep, TellRaisedStep, ResolveByCodeStep,
     AlarmsLook, AlarmsTake, UpdateRowStep, TellResolvedStep DEF Alarms!JobStep
<1>3. ASSUME NEW i \in active, Alarms!Click({i}) PROVE ListInv'
  BY <1>3, ClickStep
<1>4. QED
  BY <1>1, <1>2, <1>3, ChangeStep, CheckBegins, AckStepStep, ClickStep, AcknowledgeStep
     DEF Alarms!Next

(* Threads, alarms and what was tell of them keep their types.             *)
THEOREM AlarmsTypeCorrect == Alarms!Spec => []Alarms!TypeOK
<1>1. Alarms!Init => ListInv
  BY ListInit
<1>2. ListInv /\ [Alarms!Next]_(Alarms!vars) => ListInv'
  BY ListStep
<1>3. ListInv => Alarms!TypeOK
  BY DEF ListInv
<1>4. QED
  BY <1>1, <1>2, <1>3, PTL DEF Alarms!Spec

(* The end of an alarm is tell at most once, whichever threads resolve it  *)
(* (resolve_alarm has no lock).                                            *)
THEOREM EndToldOnce == Alarms!Spec => []Alarms!ResolvedOnce
<1>1. Alarms!Init => ListInv
  BY ListInit
<1>2. ListInv /\ [Alarms!Next]_(Alarms!vars) => ListInv'
  BY ListStep
<1>3. ListInv => Alarms!ResolvedOnce
  BY DEF ListInv
<1>4. QED
  BY <1>1, <1>2, <1>3, PTL DEF Alarms!Spec

LEMMA AlarmsPart == MCSpec => Alarms!Spec
<1>1. MCInit => Alarms!Init
  BY DEF MCInit
<1>2. [MCNext]_allVars => [Alarms!Next]_(Alarms!vars)
  BY DEF MCNext, allVars, alarmsVars, Alarms!vars, Alarms!listVars, Alarms!toldVars
<1>3. QED
  BY <1>1, <1>2, PTL DEF MCSpec, Alarms!Spec

(* Whichever threads resolve an alarm, the cloud is told once that it is   *)
(* over.                                                                   *)
THEOREM EndIsToldOnce == MCSpec => []ResolvedOnce
<1>1. Alarms!Spec => []Alarms!ResolvedOnce
  BY EndToldOnce
<1>2. Alarms!ResolvedOnce => ResolvedOnce
  BY DEF ResolvedOnce
<1>3. QED
  BY <1>1, <1>2, AlarmsPart, PTL

-----------------------------------------------------------------------------
(* The stock table.                                                        *)
LEMMA StockPart == MCSpec => Stock!Spec
<1>1. MCInit => Stock!Init
  BY DEF MCInit
<1>2. [MCNext]_allVars => [Stock!Next]_(Stock!vars)
  BY DEF MCNext, allVars, stockVars, Stock!vars, Stock!cloudVars
<1>3. QED
  BY <1>1, <1>2, PTL DEF MCSpec, Stock!Spec

(* No litre is lost or counted twice, however the threads that load,       *)
(* unload, synchronise and merge interleave.                               *)
THEOREM StockAdded == MCSpec => []StockAddsUp
<1>1. Stock!Spec => []Stock!StockAddsUp
  BY StockConstants, Stock!NoLitreIsLost
<1>2. Stock!StockAddsUp => StockAddsUp
  BY DEF StockAddsUp
<1>3. QED
  BY <1>1, <1>2, StockPart, PTL
-----------------------------------------------------------------------------
(* Uploads.  What the sync thread is about to mark, and what the WebSocket *)
(* acknowledges, has reached the cloud; and only what is stored goes there. *)
OnlyStored ==
  /\ place \in {"sessions", "post sessions", "mark sessions"} => batch \subseteq 1 .. saved
  /\ place \in {"post logs", "mark logs"} => batch \subseteq 1 .. logged
  /\ \A m \in wire \cup acks : m \subseteq 1 .. saved

OnlyArrived ==
  /\ place = "mark sessions" => batch \subseteq cloudHas
  /\ place = "mark logs" => batch \subseteq cloudLogs
  /\ \A m \in acks : m \subseteq cloudHas

UploadInv == Upload!TypeOK /\ OnlyStored /\ OnlyArrived /\ Upload!NothingForgotten

LEMMA UploadInit == Upload!Init => UploadInv
BY UploadConstants DEF Upload!Init, UploadInv, Upload!TypeOK, OnlyStored, OnlyArrived,
   Upload!NothingForgotten, Upload!UploadAssumption

LEMMA UploadNext == UploadInv /\ [Upload!Next]_(Upload!vars) => UploadInv'
<1> SUFFICES ASSUME UploadInv, [Upload!Next]_(Upload!vars) PROVE UploadInv'
  OBVIOUS
<1>n. MaxSessions \in Nat /\ MaxLogs \in Nat
  BY UploadConstants DEF Upload!UploadAssumption
<1>t. Upload!TypeOK /\ OnlyStored /\ OnlyArrived /\ Upload!NothingForgotten
  BY DEF UploadInv
<1>a. CASE UNCHANGED Upload!vars
  BY <1>t, <1>a DEF UploadInv, Upload!TypeOK, OnlyStored, OnlyArrived, Upload!NothingForgotten,
     Upload!vars, Upload!sessionVars, Upload!logVars, Upload!wireVars
<1>i. saved \in 0 .. MaxSessions /\ logged \in 0 .. MaxLogs /\ old \in 0 .. logged
  BY <1>t DEF Upload!TypeOK
<1>s. 1 .. saved \subseteq Upload!Sessions /\ 1 .. logged \subseteq Upload!Logs
  BY <1>n, <1>i DEF Upload!Sessions, Upload!Logs
<1>1. CASE Upload!SaveSession
  <2>0. saved' \in 0 .. MaxSessions /\ 1 .. saved \subseteq 1 .. saved'
        /\ 1 .. saved' \subseteq Upload!Sessions
    BY <1>n, <1>i, <1>1 DEF Upload!SaveSession, Upload!Sessions
  <2>1. Upload!TypeOK'
    BY <1>t, <1>s, <1>1, <2>0 DEF Upload!SaveSession, Upload!TypeOK, OnlyStored,
       Upload!sessionVars, Upload!logVars, Upload!wireVars
  <2>2. OnlyStored'
    BY <1>t, <1>s, <1>1, <2>0 DEF Upload!SaveSession, Upload!TypeOK, OnlyStored,
       Upload!sessionVars, Upload!logVars, Upload!wireVars
  <2>3. OnlyArrived' /\ Upload!NothingForgotten'
    BY <1>t, <1>s, <1>1, <2>0 DEF Upload!SaveSession, OnlyArrived, Upload!NothingForgotten,
       Upload!sessionVars, Upload!logVars, Upload!wireVars
  <2>4. QED
    BY <2>1, <2>2, <2>3 DEF UploadInv
<1>2. CASE Upload!LogHealth
  <2>0. logged' \in 0 .. MaxLogs /\ old \in 0 .. logged' /\ 1 .. logged \subseteq 1 .. logged'
        /\ 1 .. logged' \subseteq Upload!Logs
    BY <1>n, <1>i, <1>2 DEF Upload!LogHealth, Upload!Logs
  <2>1. Upload!TypeOK'
    BY <1>t, <1>s, <1>2, <2>0 DEF Upload!LogHealth, Upload!TypeOK, OnlyStored,
       Upload!sessionVars, Upload!logVars, Upload!wireVars
  <2>2. OnlyStored'
    BY <1>t, <1>s, <1>2, <2>0 DEF Upload!LogHealth, Upload!TypeOK, OnlyStored,
       Upload!sessionVars, Upload!logVars, Upload!wireVars
  <2>3. OnlyArrived' /\ Upload!NothingForgotten'
    BY <1>t, <1>s, <1>2, <2>0 DEF Upload!LogHealth, OnlyArrived, Upload!NothingForgotten,
       Upload!sessionVars, Upload!logVars, Upload!wireVars
  <2>4. QED
    BY <2>1, <2>2, <2>3 DEF UploadInv
<1>3. CASE Upload!GrowOld
  <2>0. 1 .. old \subseteq 1 .. old' /\ old' \in 0 .. logged
    BY <1>n, <1>i, <1>3 DEF Upload!GrowOld
  <2>1. Upload!TypeOK'
    BY <1>t, <1>s, <1>3, <2>0 DEF Upload!GrowOld, Upload!TypeOK, OnlyStored,
       Upload!sessionVars, Upload!logVars, Upload!wireVars
  <2>2. OnlyStored'
    BY <1>t, <1>s, <1>3, <2>0 DEF Upload!GrowOld, Upload!TypeOK, OnlyStored,
       Upload!sessionVars, Upload!logVars, Upload!wireVars
  <2>3. OnlyArrived' /\ Upload!NothingForgotten'
    BY <1>t, <1>s, <1>3, <2>0 DEF Upload!GrowOld, OnlyArrived, Upload!NothingForgotten,
       Upload!sessionVars, Upload!logVars, Upload!wireVars
  <2>4. QED
    BY <2>1, <2>2, <2>3 DEF UploadInv
<1>4. CASE Upload!BeginSessions
  <2>0. Upload!Oldest(Upload!Unsynced, SessionLimit) \subseteq 1 .. saved
    BY DEF Upload!Oldest, Upload!Unsynced
  <2>1. Upload!TypeOK'
    BY <1>t, <1>s, <1>4, <2>0 DEF Upload!BeginSessions, Upload!TypeOK, OnlyStored,
       Upload!sessionVars, Upload!logVars, Upload!wireVars, Upload!Go
  <2>2. OnlyStored'
    BY <1>t, <1>s, <1>4, <2>0 DEF Upload!BeginSessions, Upload!TypeOK, OnlyStored,
       Upload!sessionVars, Upload!logVars, Upload!wireVars, Upload!Go
  <2>3. OnlyArrived' /\ Upload!NothingForgotten'
    BY <1>t, <1>s, <1>4, <2>0 DEF Upload!BeginSessions, OnlyArrived, Upload!NothingForgotten,
       Upload!sessionVars, Upload!logVars, Upload!wireVars, Upload!Go
  <2>4. QED
    BY <2>1, <2>2, <2>3 DEF UploadInv
<1>5. CASE Upload!SendSessions
  <2>1. Upload!TypeOK'
    BY <1>t, <1>s, <1>5 DEF Upload!SendSessions, Upload!TypeOK, OnlyStored,
       Upload!sessionVars, Upload!logVars, Upload!wireVars, Upload!Go
  <2>0. batch \subseteq 1 .. saved /\ UNCHANGED saved
        /\ wire' \cup acks' \subseteq wire \cup acks \cup {batch}
    BY <1>t, <1>5 DEF Upload!SendSessions, OnlyStored, Upload!sessionVars
  <2>9. place' \in {"post sessions", "idle"} /\ batch' \subseteq batch
    BY <1>5 DEF Upload!SendSessions, Upload!Go
  <2>2. OnlyStored'
    BY <1>t, <2>0, <2>9 DEF OnlyStored
  <2>3. OnlyArrived' /\ Upload!NothingForgotten'
    BY <1>t, <1>s, <1>5 DEF Upload!SendSessions, OnlyArrived, Upload!NothingForgotten,
       Upload!sessionVars, Upload!logVars, Upload!wireVars, Upload!Go
  <2>4. QED
    BY <2>1, <2>2, <2>3 DEF UploadInv
<1>6. CASE Upload!PostSessions
  <2>0. \A o \in Upload!Outcomes : o.got \subseteq batch /\ (o.ok => o.got = batch)
    BY DEF Upload!Outcomes
  <2>1. Upload!TypeOK'
    BY <1>t, <1>s, <1>6, <2>0 DEF Upload!PostSessions, Upload!TypeOK, OnlyStored,
       Upload!sessionVars, Upload!logVars, Upload!wireVars, Upload!Go
  <2>2. OnlyStored'
    BY <1>t, <1>s, <1>6, <2>0 DEF Upload!PostSessions, Upload!TypeOK, OnlyStored,
       Upload!sessionVars, Upload!logVars, Upload!wireVars, Upload!Go
  <2>3. OnlyArrived' /\ Upload!NothingForgotten'
    BY <1>t, <1>s, <1>6, <2>0 DEF Upload!PostSessions, OnlyArrived, Upload!NothingForgotten,
       Upload!sessionVars, Upload!logVars, Upload!wireVars, Upload!Go
  <2>4. QED
    BY <2>1, <2>2, <2>3 DEF UploadInv
<1>7. CASE Upload!MarkSessions
  <2>1. Upload!TypeOK'
    BY <1>t, <1>s, <1>7 DEF Upload!MarkSessions, Upload!TypeOK, OnlyStored,
       Upload!sessionVars, Upload!logVars, Upload!wireVars, Upload!Go
  <2>2. OnlyStored'
    BY <1>t, <1>s, <1>7 DEF Upload!MarkSessions, Upload!TypeOK, OnlyStored,
       Upload!sessionVars, Upload!logVars, Upload!wireVars, Upload!Go
  <2>3. OnlyArrived' /\ Upload!NothingForgotten'
    BY <1>t, <1>s, <1>7 DEF Upload!MarkSessions, OnlyArrived, Upload!NothingForgotten,
       Upload!sessionVars, Upload!logVars, Upload!wireVars, Upload!Go
  <2>4. QED
    BY <2>1, <2>2, <2>3 DEF UploadInv
<1>8. CASE Upload!BeginLogs
  <2>0. Upload!Oldest((1 .. logged) \ marked, LogLimit) \subseteq 1 .. logged
    BY DEF Upload!Oldest
  <2>1. Upload!TypeOK'
    BY <1>t, <1>s, <1>8, <2>0 DEF Upload!BeginLogs, Upload!TypeOK, OnlyStored,
       Upload!sessionVars, Upload!logVars, Upload!wireVars, Upload!Go
  <2>2. OnlyStored'
    BY <1>t, <1>s, <1>8, <2>0 DEF Upload!BeginLogs, Upload!TypeOK, OnlyStored,
       Upload!sessionVars, Upload!logVars, Upload!wireVars, Upload!Go
  <2>3. OnlyArrived' /\ Upload!NothingForgotten'
    BY <1>t, <1>s, <1>8, <2>0 DEF Upload!BeginLogs, OnlyArrived, Upload!NothingForgotten,
       Upload!sessionVars, Upload!logVars, Upload!wireVars, Upload!Go
  <2>4. QED
    BY <2>1, <2>2, <2>3 DEF UploadInv
<1>9. CASE Upload!PostLogs
  <2>0. \A o \in Upload!Outcomes : o.got \subseteq batch /\ (o.ok => o.got = batch)
    BY DEF Upload!Outcomes
  <2>1. Upload!TypeOK'
    BY <1>t, <1>s, <1>9, <2>0 DEF Upload!PostLogs, Upload!TypeOK, OnlyStored,
       Upload!sessionVars, Upload!logVars, Upload!wireVars, Upload!Go
  <2>2. OnlyStored'
    BY <1>t, <1>s, <1>9, <2>0 DEF Upload!PostLogs, Upload!TypeOK, OnlyStored,
       Upload!sessionVars, Upload!logVars, Upload!wireVars, Upload!Go
  <2>3. OnlyArrived' /\ Upload!NothingForgotten'
    BY <1>t, <1>s, <1>9, <2>0 DEF Upload!PostLogs, OnlyArrived, Upload!NothingForgotten,
       Upload!sessionVars, Upload!logVars, Upload!wireVars, Upload!Go
  <2>4. QED
    BY <2>1, <2>2, <2>3 DEF UploadInv
<1>10. CASE Upload!MarkLogs
  <2>1. Upload!TypeOK'
    BY <1>t, <1>s, <1>10 DEF Upload!MarkLogs, Upload!TypeOK, OnlyStored,
       Upload!sessionVars, Upload!logVars, Upload!wireVars, Upload!Go
  <2>2. OnlyStored'
    BY <1>t, <1>s, <1>10 DEF Upload!MarkLogs, Upload!TypeOK, OnlyStored,
       Upload!sessionVars, Upload!logVars, Upload!wireVars, Upload!Go
  <2>3. OnlyArrived' /\ Upload!NothingForgotten'
    BY <1>t, <1>s, <1>10 DEF Upload!MarkLogs, OnlyArrived, Upload!NothingForgotten,
       Upload!sessionVars, Upload!logVars, Upload!wireVars, Upload!Go
  <2>4. QED
    BY <2>1, <2>2, <2>3 DEF UploadInv
<1>11. CASE Upload!CleanLogs
  <2>1. Upload!TypeOK'
    BY <1>t, <1>s, <1>11 DEF Upload!CleanLogs, Upload!TypeOK, OnlyStored,
       Upload!sessionVars, Upload!logVars, Upload!wireVars, Upload!Go, Upload!Expired
  <2>2. OnlyStored'
    BY <1>t, <1>s, <1>11 DEF Upload!CleanLogs, Upload!TypeOK, OnlyStored,
       Upload!sessionVars, Upload!logVars, Upload!wireVars, Upload!Go, Upload!Expired
  <2>3. OnlyArrived' /\ Upload!NothingForgotten'
    BY <1>t, <1>s, <1>11 DEF Upload!CleanLogs, OnlyArrived, Upload!NothingForgotten,
       Upload!sessionVars, Upload!logVars, Upload!wireVars, Upload!Go, Upload!Expired
  <2>4. QED
    BY <2>1, <2>2, <2>3 DEF UploadInv
<1>12. CASE Upload!CloudTakes
  <2>0. PICK m \in wire : /\ wire' = wire \ {m} /\ acks' = acks \cup {m}
                           /\ cloudHas' = cloudHas \cup m
    BY <1>12 DEF Upload!CloudTakes
  <2>9. /\ UNCHANGED <<saved, acked, logged, marked, deleted, old, cloudLogs, place, batch, net>>
        /\ m \subseteq 1 .. saved /\ m \subseteq Upload!Sessions
        /\ wire' \cup acks' \subseteq wire \cup acks
    BY <1>t, <1>s, <1>12, <2>0 DEF Upload!CloudTakes, OnlyStored, Upload!logVars
  <2>8. wire' \subseteq SUBSET Upload!Sessions /\ acks' \subseteq SUBSET Upload!Sessions
    BY <1>t, <2>0, <2>9 DEF Upload!TypeOK
  <2>1. Upload!TypeOK'
    BY <1>t, <2>0, <2>8, <2>9 DEF Upload!TypeOK
  <2>2. OnlyStored'
    BY <1>t, <2>9 DEF OnlyStored
  <2>3. OnlyArrived' /\ Upload!NothingForgotten'
    BY <1>t, <1>s, <1>12, <2>0 DEF Upload!CloudTakes, OnlyArrived, Upload!NothingForgotten,
       Upload!sessionVars, Upload!logVars, Upload!wireVars
  <2>4. QED
    BY <2>1, <2>2, <2>3 DEF UploadInv
<1>13. CASE Upload!HandleWsAck
  <2>1. Upload!TypeOK'
    BY <1>t, <1>s, <1>13 DEF Upload!HandleWsAck, Upload!TypeOK, OnlyStored,
       Upload!sessionVars, Upload!logVars, Upload!wireVars
  <2>2. OnlyStored'
    BY <1>t, <1>s, <1>13 DEF Upload!HandleWsAck, Upload!TypeOK, OnlyStored,
       Upload!sessionVars, Upload!logVars, Upload!wireVars
  <2>3. OnlyArrived' /\ Upload!NothingForgotten'
    BY <1>t, <1>s, <1>13 DEF Upload!HandleWsAck, OnlyArrived, Upload!NothingForgotten,
       Upload!sessionVars, Upload!logVars, Upload!wireVars
  <2>4. QED
    BY <2>1, <2>2, <2>3 DEF UploadInv
<1>14. CASE Upload!Restart
  <2>1. Upload!TypeOK'
    BY <1>t, <1>s, <1>14 DEF Upload!Restart, Upload!TypeOK, OnlyStored,
       Upload!sessionVars, Upload!logVars, Upload!wireVars, Upload!Go
  <2>2. OnlyStored'
    BY <1>t, <1>s, <1>14 DEF Upload!Restart, Upload!TypeOK, OnlyStored,
       Upload!sessionVars, Upload!logVars, Upload!wireVars, Upload!Go
  <2>3. OnlyArrived' /\ Upload!NothingForgotten'
    BY <1>t, <1>s, <1>14 DEF Upload!Restart, OnlyArrived, Upload!NothingForgotten,
       Upload!sessionVars, Upload!logVars, Upload!wireVars, Upload!Go
  <2>4. QED
    BY <2>1, <2>2, <2>3 DEF UploadInv
<1>15. CASE \E n \in {"off", "http", "ws"} : Upload!ChangeNet(n)
  BY <1>t, <1>15 DEF Upload!ChangeNet, UploadInv, Upload!TypeOK, OnlyStored, OnlyArrived,
     Upload!NothingForgotten, Upload!sessionVars, Upload!logVars
<1>16. QED
  BY <1>a, <1>1, <1>2, <1>3, <1>4, <1>5, <1>6, <1>7, <1>8, <1>9, <1>10, <1>11, <1>12, <1>13,
     <1>14, <1>15
     DEF Upload!Next, Upload!SyncStep

LEMMA UploadPart == MCSpec => Upload!Spec
<1>1. MCInit => Upload!Init
  BY DEF MCInit
<1>2. [MCNext]_allVars => [Upload!Next]_(Upload!vars)
  BY DEF MCNext, allVars, uploadVars, Upload!vars, Upload!sessionVars, Upload!logVars,
     Upload!wireVars
<1>3. QED
  BY <1>1, <1>2, PTL DEF MCSpec, Upload!Spec

LEMMA UploadHolds == MCSpec => []UploadInv
BY UploadPart, UploadInit, UploadNext, PTL DEF Upload!Spec

(* No session and no health record is marked as synced, nor a record       *)
(* deleted, that the cloud has not got.                                    *)
THEOREM NothingIsForgotten == MCSpec => []NothingForgotten
<1>1. UploadInv => NothingForgotten
  BY DEF UploadInv, NothingForgotten
<1>2. QED
  BY <1>1, UploadHolds, PTL
-----------------------------------------------------------------------------
(* Updates.  A thread that has passed the gate of _update_in_progress is   *)
(* the only one, until it is through; between its reset and its success or *)
(* its rollback the files need not have been tried.                        *)
InUpdate(t) == step[t] \notin {"idle", "begin"}

OneUpdate ==
  /\ \A t \in Update!Threads : InUpdate(t) => updating /\ t \in alive
  /\ \A t, u \in Update!Threads : InUpdate(t) /\ InUpdate(u) => t = u

FilesKept ==
  /\ \A t \in Update!Threads : step[t] = "verify" => whole
  /\ \/ remains \/ (whole /\ disk \in tried)
     \/ \E t \in Update!Threads : step[t] \in {"verify", "rollback"}

UpdateInv == Update!TypeOK /\ OneUpdate /\ FilesKept

LEMMA UpdateInit == Update!Init => UpdateInv
BY UpdateConstants DEF Update!Init, UpdateInv, Update!TypeOK, OneUpdate, FilesKept, InUpdate,
   Update!UpdateAssumption

(* What ends the process ends an update, and says so if it was cut short.  *)
LEMMA ProcessEnds ==
  ASSUME UpdateInv, Update!EndOfProcess,
         Update!Start \/ Update!Stay,
         UNCHANGED <<branch, wish, fetched, disk, tried, reported>>
  PROVE  UpdateInv'
<1> USE DEF Update!EndOfProcess
<1>t. Update!TypeOK /\ OneUpdate /\ FilesKept
  BY DEF UpdateInv
<1>1. step' \in [Update!Threads -> {"idle"}]
  OBVIOUS
<1>2. up' \in BOOLEAN /\ alive' \subseteq Update!Threads /\ running' \in Releases
      /\ serial' \in BOOLEAN
  BY <1>t DEF Update!Start, Update!Stay, Update!TypeOK
<1>3. whole' \in BOOLEAN
  BY <1>t DEF Update!TypeOK
<1>4. remains' \in BOOLEAN
  BY <1>t DEF Update!TypeOK
<1>5. Update!TypeOK'
  BY <1>t, <1>1, <1>2, <1>3, <1>4 DEF Update!TypeOK
<1>6. OneUpdate'
  BY <1>1 DEF OneUpdate, InUpdate
<1>7. FilesKept'
  BY <1>t, <1>1 DEF FilesKept, OneUpdate, InUpdate
<1>8. QED
  BY <1>5, <1>6, <1>7 DEF UpdateInv

LEMMA UpdateNext == UpdateInv /\ [Update!Next]_(Update!vars) => UpdateInv'
<1> SUFFICES ASSUME UpdateInv, [Update!Next]_(Update!vars) PROVE UpdateInv'
  OBVIOUS
<1> USE DEF Update!At, Update!Goto, Update!vars, Update!cloudVars, Update!diskVars, Update!procVars
<1>n. 0 \in Releases /\ NoRelease \notin Releases
  BY UpdateConstants DEF Update!UpdateAssumption
<1>t. Update!TypeOK /\ OneUpdate /\ FilesKept
  BY DEF UpdateInv
<1>a. CASE UNCHANGED Update!vars
  BY <1>t, <1>a DEF UpdateInv, Update!TypeOK, OneUpdate, FilesKept, InUpdate
<1>b. ASSUME NEW r \in Releases, Update!Push(r) \/ Update!Ask(r) PROVE UpdateInv'
  BY <1>t, <1>b
     DEF UpdateInv, Update!TypeOK, OneUpdate, FilesKept, InUpdate, Update!Push, Update!Ask
<1>c. CASE Update!PowerCycle
  BY <1>c, ProcessEnds DEF Update!PowerCycle
<1>d. ASSUME NEW t \in Update!Threads, Update!RestartCommand(t) PROVE UpdateInv'
  BY <1>d, ProcessEnds DEF Update!RestartCommand
<1>1. ASSUME NEW t \in Update!Threads, Update!CheckUpdate(t) PROVE UpdateInv'
  <2>1. Update!TypeOK'
    BY <1>n, <1>t, <1>1 DEF Update!CheckUpdate, Update!TypeOK
  <2>2. OneUpdate'
    BY <1>t, <1>1 DEF Update!CheckUpdate, Update!TypeOK, OneUpdate, InUpdate
  <2>3. FilesKept'
    BY <1>t, <1>1 DEF Update!CheckUpdate, Update!TypeOK, OneUpdate, InUpdate, FilesKept
  <2>4. QED
    BY <2>1, <2>2, <2>3 DEF UpdateInv
<1>2. ASSUME NEW t \in Update!Threads, Update!Begin(t) PROVE UpdateInv'
  <2>1. Update!TypeOK'
    BY <1>n, <1>t, <1>2 DEF Update!Begin, Update!TypeOK
  <2>2. OneUpdate'
    BY <1>t, <1>2 DEF Update!Begin, Update!TypeOK, OneUpdate, InUpdate
  <2>3. FilesKept'
    BY <1>t, <1>2 DEF Update!Begin, Update!TypeOK, OneUpdate, InUpdate, FilesKept
  <2>4. QED
    BY <2>1, <2>2, <2>3 DEF UpdateInv
<1>3. ASSUME NEW t \in Update!Threads, Update!InProgress(t) PROVE UpdateInv'
  <2>1. Update!TypeOK'
    BY <1>n, <1>t, <1>3 DEF Update!InProgress, Update!TypeOK
  <2>2. OneUpdate'
    BY <1>t, <1>3 DEF Update!InProgress, Update!TypeOK, OneUpdate, InUpdate
  <2>3. FilesKept'
    BY <1>t, <1>3 DEF Update!InProgress, Update!TypeOK, OneUpdate, InUpdate, FilesKept
  <2>4. QED
    BY <2>1, <2>2, <2>3 DEF UpdateInv
<1>4. ASSUME NEW t \in Update!Threads, Update!GitFetch(t) PROVE UpdateInv'
  <2>1. Update!TypeOK'
    BY <1>n, <1>t, <1>4 DEF Update!GitFetch, Update!TypeOK
  <2>2. OneUpdate'
    BY <1>t, <1>4 DEF Update!GitFetch, Update!TypeOK, OneUpdate, InUpdate
  <2>3. FilesKept'
    BY <1>t, <1>4 DEF Update!GitFetch, Update!TypeOK, OneUpdate, InUpdate, FilesKept
  <2>4. QED
    BY <2>1, <2>2, <2>3 DEF UpdateInv
<1>5. ASSUME NEW t \in Update!Threads, Update!GitReset(t) PROVE UpdateInv'
  <2>1. Update!TypeOK'
    BY <1>n, <1>t, <1>5 DEF Update!GitReset, Update!TypeOK
  <2>2. OneUpdate'
    BY <1>t, <1>5 DEF Update!GitReset, Update!TypeOK, OneUpdate, InUpdate
  <2>3. FilesKept'
    BY <1>t, <1>5 DEF Update!GitReset, Update!TypeOK, OneUpdate, InUpdate, FilesKept
  <2>4. QED
    BY <2>1, <2>2, <2>3 DEF UpdateInv
<1>6. ASSUME NEW t \in Update!Threads, Update!Verify(t) PROVE UpdateInv'
  <2>1. Update!TypeOK'
    BY <1>n, <1>t, <1>6 DEF Update!Verify, Update!TypeOK
  <2>2. OneUpdate'
    BY <1>t, <1>6 DEF Update!Verify, Update!TypeOK, OneUpdate, InUpdate
  <2>3. FilesKept'
    BY <1>t, <1>6 DEF Update!Verify, Update!TypeOK, OneUpdate, InUpdate, FilesKept
  <2>4. QED
    BY <2>1, <2>2, <2>3 DEF UpdateInv
<1>7. ASSUME NEW t \in Update!Threads, Update!Error(t) PROVE UpdateInv'
  <2>1. Update!TypeOK'
    BY <1>n, <1>t, <1>7 DEF Update!Error, Update!TypeOK
  <2>2. OneUpdate'
    BY <1>t, <1>7 DEF Update!Error, Update!TypeOK, OneUpdate, InUpdate
  <2>3. FilesKept'
    BY <1>t, <1>7 DEF Update!Error, Update!TypeOK, OneUpdate, InUpdate, FilesKept
  <2>4. QED
    BY <2>1, <2>2, <2>3 DEF UpdateInv
<1>8. ASSUME NEW t \in Update!Threads, Update!Rollback(t) PROVE UpdateInv'
  <2>1. Update!TypeOK'
    BY <1>n, <1>t, <1>8 DEF Update!Rollback, Update!TypeOK
  <2>2. OneUpdate'
    BY <1>t, <1>8 DEF Update!Rollback, Update!TypeOK, OneUpdate, InUpdate
  <2>3. FilesKept'
    BY <1>t, <1>8 DEF Update!Rollback, Update!TypeOK, OneUpdate, InUpdate, FilesKept
  <2>4. QED
    BY <2>1, <2>2, <2>3 DEF UpdateInv
<1>9. ASSUME NEW t \in Update!Threads, Update!Fail(t) PROVE UpdateInv'
  <2>1. Update!TypeOK'
    BY <1>n, <1>t, <1>9 DEF Update!Fail, Update!TypeOK
  <2>2. OneUpdate'
    BY <1>t, <1>9 DEF Update!Fail, Update!TypeOK, OneUpdate, InUpdate
  <2>3. FilesKept'
    BY <1>t, <1>9 DEF Update!Fail, Update!TypeOK, OneUpdate, InUpdate, FilesKept
  <2>4. QED
    BY <2>1, <2>2, <2>3 DEF UpdateInv
<1>10. ASSUME NEW t \in Update!Threads, Update!Flash(t) PROVE UpdateInv'
  <2>1. Update!TypeOK'
    BY <1>n, <1>t, <1>10 DEF Update!Flash, Update!TypeOK
  <2>2. OneUpdate'
    BY <1>t, <1>10 DEF Update!Flash, Update!TypeOK, OneUpdate, InUpdate
  <2>3. FilesKept'
    BY <1>t, <1>10 DEF Update!Flash, Update!TypeOK, OneUpdate, InUpdate, FilesKept
  <2>4. QED
    BY <2>1, <2>2, <2>3 DEF UpdateInv
<1>11. ASSUME NEW t \in Update!Threads, Update!RestartApp(t) PROVE UpdateInv'
  <2>1. CASE Unit = "none"
    BY <1>11, <2>1, ProcessEnds DEF Update!RestartApp
  <2>2. CASE Unit # "none"
    <3>1. Update!TypeOK'
      BY <1>t, <1>11, <2>2 DEF Update!RestartApp, Update!TypeOK
    <3>2. OneUpdate'
      BY <1>t, <1>11, <2>2 DEF Update!RestartApp, Update!TypeOK, OneUpdate, InUpdate
    <3>3. FilesKept'
      BY <1>t, <1>11, <2>2 DEF Update!RestartApp, Update!TypeOK, OneUpdate, InUpdate, FilesKept
    <3>4. QED
      BY <3>1, <3>2, <3>3 DEF UpdateInv
  <2>3. QED
    BY <2>1, <2>2
<1>12. QED
  BY <1>a, <1>b, <1>c, <1>d, <1>1, <1>2, <1>3, <1>4, <1>5, <1>6, <1>7, <1>8, <1>9, <1>10, <1>11
     DEF Update!Next, Update!UpdateStep

LEMMA UpdatePart == MCSpec => Update!Spec
<1>1. MCInit => Update!Init
  BY DEF MCInit
<1>2. [MCNext]_allVars => [Update!Next]_(Update!vars)
  BY DEF MCNext, allVars, updateVars, Update!vars, Update!cloudVars, Update!diskVars,
     Update!procVars
<1>3. QED
  BY <1>1, <1>2, PTL DEF MCSpec, Update!Spec

LEMMA UpdateHolds == MCSpec => []UpdateInv
BY UpdatePart, UpdateInit, UpdateNext, PTL DEF Update!Spec

(* However an update ends, it leaves files that were tried, unless it was  *)
(* cut short or could not be rolled back.                                  *)
THEOREM TriedCodeIsLeft == MCSpec => []TriedCodeStays
<1>1. UpdateInv => TriedCodeStays
  BY DEF UpdateInv, OneUpdate, InUpdate, FilesKept, Update!TypeOK, TriedCodeStays,
         Update!TriedCodeStays
<1>2. QED
  BY <1>1, UpdateHolds, PTL

-----------------------------------------------------------------------------
(* The scales' driver.                                                     *)

(* What a caller that was alone with the driver all along is told.  Its    *)
(* request is still there, or was sent; a tare that was sent into an empty *)
(* line is what comes back from it, and leaves nothing older behind.       *)
Newer(c) ==
  LET ch == call[c].ch IN
    /\ tares[ch] > call[c].since /\ zero[ch] > call[c].since
    /\ \A i \in 1 .. Len(back) : back[i].zero[ch] > call[c].since

SinceTared(c) == LET ch == call[c].ch IN
  Newer(c) /\ (cached[ch] = Unread \/ cached[ch] > call[c].since)

Carried(c) ==
  \/ out = <<[kind |-> "tare", ch |-> call[c].ch]>> /\ back = <<>>
  \/ /\ out = <<>> /\ Len(back) = 1
     /\ back[1].kind = "error" \/ (back[1].kind = "tare" /\ Newer(c))

Asked(c) == request = call[c].ch /\ ~done /\ at.pc \notin {"tare", "tell"}
Tared(c) == request = NoChannel /\ ~done /\ at.pc = "tare" /\ at.ch = call[c].ch
            /\ (doubt \/ Carried(c))
Told(c)  == request = NoChannel /\ at.pc # "tare" /\ (done <=> at.pc # "tell")
            /\ (doubt \/ ~result \/ SinceTared(c))

Served ==
  \A c \in Callers : call[c].alone =>
    /\ call[c].since <= tares[call[c].ch]
    /\ Asked(c) \/ Tared(c) \/ Told(c)

ScaleInv == Scales!TypeOK /\ Served


LEMMA Messages ==
  /\ \A m \in Scales!Commands : out \in Seq(Scales!Commands)
      => Append(out, m) \in Seq(Scales!Commands)
  /\ back \in Seq(Scales!Answers)
      => \A m \in Scales!Answers : Append(back, m) \in Seq(Scales!Answers)
  /\ back \in Seq(Scales!Answers) /\ back # <<>>
      => Tail(back) \in Seq(Scales!Answers) /\ Head(back) \in Scales!Answers
  /\ out \in Seq(Scales!Commands) /\ out # <<>>
      => Tail(out) \in Seq(Scales!Commands) /\ Head(out) \in Scales!Commands
OBVIOUS

LEMMA Sizes ==
  /\ Mix \in Channels /\ NoChannel \notin Channels /\ Unread \notin Nat
  /\ MaxCalls \in Nat /\ MaxLate \in Nat /\ MaxQueue \in Nat /\ MaxDrain \in Nat
  /\ MaxStarts \in Nat /\ MaxStarts > 0
BY ScaleConstants DEF Scales!ScaleAssumption

LEMMA ScaleInit == Scales!Init => ScaleInv
<1> SUFFICES ASSUME Scales!Init PROVE Scales!TypeOK /\ Served
  BY DEF ScaleInv
<1>0. /\ cached = [ch \in Channels |-> Unread] /\ tares = [ch \in Channels |-> 0]
      /\ zero = [ch \in Channels |-> Scales!OwnZero]
      /\ backup = [ch \in Channels |-> Scales!OwnZero]
  BY DEF Scales!Init
<1>1. /\ zero \in [Channels -> Nat] /\ backup \in [Channels -> Nat] /\ tares \in [Channels -> Nat]
      /\ cached \in [Channels -> Nat \cup {Unread}]
  BY <1>0 DEF Scales!OwnZero
<1>2. call \in [Callers -> [pc : {"idle", "waiting"}, ch : Channels, since : Nat, alone : BOOLEAN]]
  BY Sizes DEF Scales!Init, Scales!NoCall
<1>3. /\ queued \in 0 .. MaxQueue /\ drained \in 0 .. MaxDrain /\ calls \in 0 .. MaxCalls
      /\ late \in 0 .. MaxLate /\ starts \in 1 .. MaxStarts
      /\ out \in Seq(Scales!Commands) /\ back \in Seq(Scales!Answers)
  BY Sizes DEF Scales!Init
<1>4. done \in BOOLEAN /\ result \in BOOLEAN /\ doubt \in BOOLEAN
  BY DEF Scales!Init
<1>5. /\ at \in [pc : {"top", "lamp", "lamp in cycle", "tare", "tell", "cycle", "read"},
           ch : Channels]
      /\ request \in Channels \cup {NoChannel} /\ todo \subseteq Channels
      /\ missed \subseteq Channels /\ stored \subseteq Channels
  BY Sizes DEF Scales!Init
<1>6. Scales!TypeOK
  BY <1>1, <1>2, <1>3, <1>4, <1>5 DEF Scales!TypeOK
<1>7. QED
  BY <1>6 DEF Scales!Init, Scales!NoCall, Served

LEMMA ScaleTypes == Scales!TypeOK /\ [Scales!Next]_(Scales!vars) => Scales!TypeOK'
<1> SUFFICES ASSUME Scales!TypeOK, [Scales!Next]_(Scales!vars) PROVE Scales!TypeOK'
  OBVIOUS
<1> USE Sizes DEF Scales!callVars, Scales!lineVars, Scales!zeroVars, Scales!At
<1>q. queued \in 0 .. MaxQueue /\ drained \in 0 .. MaxDrain
  BY DEF Scales!TypeOK
<1>n. calls \in 0 .. MaxCalls /\ late \in 0 .. MaxLate /\ starts \in 1 .. MaxStarts
  BY DEF Scales!TypeOK
<1>r. request \in Channels \cup {NoChannel}
  BY DEF Scales!TypeOK
<1>c. call \in [Callers -> [pc : {"idle", "waiting"}, ch : Channels, since : Nat, alone : BOOLEAN]]
  BY DEF Scales!TypeOK
<1>a. at \in [pc : {"top", "lamp", "lamp in cycle", "tare", "tell", "cycle", "read"},
    ch : Channels]
  BY DEF Scales!TypeOK
<1>o. out \in Seq(Scales!Commands) /\ back \in Seq(Scales!Answers)
  BY DEF Scales!TypeOK
<1>z. /\ cached \in [Channels -> Nat \cup {Unread}] /\ tares \in [Channels -> Nat]
      /\ zero \in [Channels -> Nat] /\ backup \in [Channels -> Nat]
  BY DEF Scales!TypeOK
<1>m. missed \subseteq Channels /\ todo \subseteq Channels /\ stored \subseteq Channels
  BY DEF Scales!TypeOK
<1>h. at.ch \in Channels
  BY <1>a
<1>1. ASSUME NEW c \in Callers, NEW ch \in Channels, Scales!AskTare(c, ch) PROVE Scales!TypeOK'
  <2> DEFINE alone == ~Scales!tareUnderWay /\ \A d \in Callers : call[d].pc = "idle"
  <2>1. tares[ch] \in Nat /\ alone \in BOOLEAN
    BY <1>z
  <2>2. call' = [d \in Callers |->
          IF d = c THEN [pc |-> "waiting", ch |-> ch, since |-> tares[ch], alone |-> alone]
                   ELSE [call[d] EXCEPT !.alone = FALSE]]
    BY <1>1 DEF Scales!AskTare
  <2> HIDE DEF alone
  <2>3. call' \in [Callers -> [pc : {"idle", "waiting"}, ch : Channels, since : Nat,
      alone : BOOLEAN]]
    BY <1>c, <2>1, <2>2
  <2>4. calls' \in 0 .. MaxCalls
    BY <1>1, <1>n DEF Scales!AskTare
  <2>5. QED
    BY <1>1, <2>3, <2>4 DEF Scales!AskTare, Scales!Cleared, Scales!TypeOK
<1>2. ASSUME NEW c \in Callers, NEW ok \in BOOLEAN, Scales!Returns(c, ok) PROVE Scales!TypeOK'
  <2>1. call' \in [Callers -> [pc : {"idle", "waiting"}, ch : Channels, since : Nat,
      alone : BOOLEAN]]
    BY <1>2, <1>c DEF Scales!Returns, Scales!NoCall
  <2>2. QED
    BY <1>2, <2>1 DEF Scales!Returns, Scales!TypeOK
<1>3. ASSUME NEW c \in Callers, Scales!GivesUp(c) PROVE Scales!TypeOK'
  <2>1. call' \in [Callers -> [pc : {"idle", "waiting"}, ch : Channels, since : Nat,
      alone : BOOLEAN]]
    BY <1>3, <1>c DEF Scales!GivesUp, Scales!NoCall
  <2>2. QED
    BY <1>3, <2>1 DEF Scales!GivesUp, Scales!TypeOK
<1>4. CASE Scales!Enqueue
  <2>1. queued' \in 0 .. MaxQueue
    BY <1>4, <1>q DEF Scales!Enqueue
  <2>2. QED
    BY <1>4, <2>1 DEF Scales!Enqueue, Scales!TypeOK
<1>5. CASE Scales!SendLamp
  <2>1. at.ch \in Channels /\ [kind |-> "lamp", ch |-> at.ch] \in Scales!Commands
    BY <1>a DEF Scales!Commands
  <2>0. /\ queued > 0 /\ drained < MaxDrain /\ queued' = queued - 1
        /\ drained' = drained + 1
        /\ out' = Append(out, [kind |-> "lamp", ch |-> at.ch]) /\ back' = <<>>
    BY <1>5 DEF Scales!SendLamp, Scales!Drains, Scales!Send, Scales!Drained
  <2>2. out' \in Seq(Scales!Commands) /\ back' \in Seq(Scales!Answers)
    BY <1>o, <2>0, <2>1
  <2>3. queued' \in 0 .. MaxQueue /\ drained' \in 0 .. MaxDrain
    BY <1>q, <2>0
  <2>4. at' \in [pc : {"top", "lamp", "lamp in cycle", "tare", "tell", "cycle", "read"},
      ch : Channels]
    BY <1>5, <1>a DEF Scales!SendLamp
  <2>5. QED
    BY <1>5, <2>2, <2>3, <2>4 DEF Scales!SendLamp, Scales!TypeOK
<1>6. CASE Scales!TakeRequest
  <2>1. request \in Channels /\ [kind |-> "tare", ch |-> request] \in Scales!Commands
    BY <1>6, <1>r DEF Scales!Commands, Scales!TakeRequest
  <2>2. out' \in Seq(Scales!Commands) /\ back' \in Seq(Scales!Answers)
    BY <1>6, <1>o, <2>1, Messages DEF Scales!TakeRequest, Scales!Send, Scales!Drained
  <2>3. doubt' \in BOOLEAN
    BY <1>6 DEF Scales!TakeRequest
  <2>4. at' \in [pc : {"top", "lamp", "lamp in cycle", "tare", "tell", "cycle", "read"},
      ch : Channels]
    BY <1>6, <2>1 DEF Scales!TakeRequest
  <2>5. QED
    BY <1>6, <2>2, <2>3, <2>4 DEF Scales!TakeRequest, Scales!TypeOK
<1>w. Scales!Cycle => /\ todo' \subseteq Channels /\ drained' \in 0 .. MaxDrain
               /\ at' \in [pc : {"top", "lamp", "lamp in cycle", "tare", "tell", "cycle", "read"},
                   ch : Channels]
  BY DEF Scales!Cycle
<1>7. CASE Scales!BeginCycle
  <2>1. Scales!Cycle
        /\ UNCHANGED <<queued, Scales!callVars, out, back, late, doubt, cached, Scales!zeroVars>>
    BY <1>7 DEF Scales!BeginCycle
  <2>2. QED
    BY <1>w, <2>1 DEF Scales!TypeOK
<1>8. ASSUME NEW ch \in Channels, Scales!SendRead(ch) PROVE Scales!TypeOK'
  <2>1. [kind |-> "read", ch |-> ch] \in Scales!Commands
    BY DEF Scales!Commands
  <2>2. out' \in Seq(Scales!Commands) /\ back' \in Seq(Scales!Answers)
    BY <1>8, <1>o, <2>1, Messages DEF Scales!SendRead, Scales!Send, Scales!Drained
  <2>3. todo' \subseteq Channels /\ drained' \in 0 .. MaxDrain
    BY <1>8, <1>m DEF Scales!SendRead
  <2>4. QED
    BY <1>8, <2>2, <2>3 DEF Scales!SendRead, Scales!TypeOK
<1>9. CASE Scales!EndCycle
  <2>1. drained' \in 0 .. MaxDrain
    BY <1>9 DEF Scales!EndCycle
  <2>2. QED
    BY <1>9, <2>1 DEF Scales!EndCycle, Scales!TypeOK
<1>10. CASE Scales!Skip
  <2>1. back' \in Seq(Scales!Answers)
    BY <1>10, <1>o, Messages DEF Scales!Skip
  <2>2. QED
    BY <1>10, <2>1 DEF Scales!Skip, Scales!TypeOK
<1>11. CASE Scales!RecvLamp
  <2>1. back' \in Seq(Scales!Answers)
    BY <1>11, <1>o, Messages DEF Scales!RecvLamp
  <2>2. at' \in [pc : {"top", "lamp", "lamp in cycle", "tare", "tell", "cycle", "read"},
      ch : Channels]
    BY <1>11, <1>a DEF Scales!RecvLamp, Scales!AfterLamp
  <2>3. QED
    BY <1>11, <2>1, <2>2 DEF Scales!RecvLamp, Scales!TypeOK
<1>12. CASE Scales!RecvRead
  <2>1. Head(back) \in Scales!Answers /\ back' \in Seq(Scales!Answers)
    BY <1>12, <1>o, Messages DEF Scales!RecvRead
  <2>2. at.ch \in Channels /\ Head(back).zero[at.ch] \in Nat
    BY <1>a, <2>1 DEF Scales!Answers
  <2>3. cached' \in [Channels -> Nat \cup {Unread}]
    BY <1>12, <1>z, <2>2 DEF Scales!RecvRead
  <2>4. QED
    BY <1>12, <2>1, <2>3 DEF Scales!RecvRead, Scales!TypeOK
<1>13. CASE Scales!RecvTare
  <2>1. Head(back) \in Scales!Answers /\ back' \in Seq(Scales!Answers)
    BY <1>13, <1>o, Messages DEF Scales!RecvTare
  <2>2. Head(back).zero \in [Channels -> Nat] /\ at.ch \in Channels
    BY <1>a, <2>1 DEF Scales!Answers
  <2>3. result' \in BOOLEAN
    BY <1>13 DEF Scales!RecvTare
  <2>4. cached' \in [Channels -> Nat \cup {Unread}]
    BY <1>13, <1>z, <2>2 DEF Scales!RecvTare, Scales!Popped
  <2>5. backup' \in [Channels -> Nat]
    BY <1>13, <1>z, <2>2 DEF Scales!RecvTare, Scales!Saved
  <2>8. stored' \subseteq Channels
    BY <1>13, <1>m DEF Scales!RecvTare
  <2>6. missed' \subseteq missed \cup {at.ch}
    BY <1>13 DEF Scales!RecvTare
  <2>7. QED
    BY <1>13, <1>m, <2>1, <2>2, <2>3, <2>4, <2>5, <2>6, <2>8
    DEF Scales!RecvTare, Scales!TypeOK
<1>14. CASE Scales!TellDone
  <2>1. /\ Scales!Cycle /\ done' \in BOOLEAN
        /\ UNCHANGED <<queued, request, result, call, calls, out, back, late, doubt, cached,
            Scales!zeroVars>>
    BY <1>14 DEF Scales!TellDone
  <2>2. QED
    BY <1>w, <2>1 DEF Scales!TypeOK
<1>15. CASE Scales!RecvNothing
  <2>1. result' \in BOOLEAN
    BY <1>15 DEF Scales!RecvNothing, Scales!TypeOK
  <2>0. /\ at' = [pc |-> "tell", ch |-> Mix] \/ at' = [pc |-> "cycle",
             ch |-> Mix] \/ Scales!AfterLamp
        /\ missed' = missed \/ missed' = missed \cup {at.ch}
        /\ late < MaxLate /\ late' = late + 1
    BY <1>15 DEF Scales!RecvNothing
  <2>2. at' \in [pc : {"top", "lamp", "lamp in cycle", "tare", "tell", "cycle", "read"},
      ch : Channels]
    <3>1. CASE Scales!AfterLamp
      BY <1>a, <3>1 DEF Scales!AfterLamp
    <3>2. \A p \in {"tell", "cycle"} : [pc |-> p, ch |-> Mix] \in
            [pc : {"top", "lamp", "lamp in cycle", "tare", "tell", "cycle", "read"}, ch : Channels]
      OBVIOUS
    <3>3. QED
      BY <2>0, <3>1, <3>2
  <2>3. missed' \subseteq Channels /\ late' \in 0 .. MaxLate
    <3>1. missed' \subseteq Channels
      BY <1>m, <1>h, <2>0
    <3>2. late' \in 0 .. MaxLate
      BY <1>n, <2>0
    <3>3. QED
      BY <3>1, <3>2
  <2>4. QED
    BY <1>15, <2>1, <2>2, <2>3 DEF Scales!RecvNothing, Scales!TypeOK
<1>16. CASE Scales!ArduinoStep
  <2>1. Head(out) \in Scales!Commands /\ out' \in Seq(Scales!Commands)
    BY <1>16, <1>o, Messages DEF Scales!ArduinoStep
  <2>2. Head(out).ch \in Channels /\ Head(out).kind \in {"lamp", "tare", "read"}
    BY <2>1 DEF Scales!Commands
  <2>0. \/ /\ tares' = [tares EXCEPT ![Head(out).ch] = @ + 1]
           /\ zero' = [zero EXCEPT ![Head(out).ch] = tares'[Head(out).ch]]
        \/ UNCHANGED <<tares, zero>>
    BY <1>16 DEF Scales!ArduinoStep, Scales!Arduino
  <2>3. tares' \in [Channels -> Nat] /\ zero' \in [Channels -> Nat]
    BY <1>z, <2>0, <2>2
  <2>4. \A k \in {"lamp", "tare", "error", "read"} : \A z \in {zero, zero'} :
          [kind |-> k, ch |-> Head(out).ch, zero |-> z] \in Scales!Answers
    BY <1>z, <2>2, <2>3 DEF Scales!Answers
  <2>5. \E m \in Scales!Answers : back' = Append(back, m)
    <3>1. (IF Head(out).kind = "tare" THEN "error" ELSE Head(out).kind) \in {"lamp", "tare",
        "error",
        "read"}
      BY <2>2
    <3>2. QED
      BY <1>16, <2>4, <3>1 DEF Scales!ArduinoStep, Scales!Arduino
  <2>6. back' \in Seq(Scales!Answers)
    BY <1>o, <2>5, Messages
  <2>7. QED
    BY <1>16, <2>1, <2>3, <2>6 DEF Scales!ArduinoStep, Scales!TypeOK
<1>17. CASE Scales!Restart
  <2>1. zero' \in [Channels -> Nat]
    <3>1. Scales!Restored \in [Channels -> Nat] /\ [ch \in Channels |-> Scales!OwnZero] \in [Channels -> Nat]
      BY <1>z DEF Scales!Restored, Scales!OwnZero
    <3>2. QED
      BY <1>17, <1>z, <3>1 DEF Scales!Restart, Scales!Zeros
  <2>0. /\ missed' \subseteq missed \cup {at.ch} \cup Channels /\ starts < MaxStarts /\ starts' = starts + 1
        /\ UNCHANGED <<calls, late, tares, backup, stored>>
    BY <1>17 DEF Scales!Restart, Scales!Zeros
  <2>2. missed' \subseteq Channels /\ starts' \in 1 .. MaxStarts
    <3>1. missed' \subseteq Channels
      BY <1>m, <1>h, <2>0
    <3>2. starts' \in 1 .. MaxStarts
      BY <1>n, <2>0
    <3>3. QED
      BY <3>1, <3>2
  <2>3. call' \in [Callers -> [pc : {"idle", "waiting"}, ch : Channels, since : Nat,
      alone : BOOLEAN]]
    BY <1>17 DEF Scales!Restart, Scales!NoCall
  <2>4. /\ queued' \in 0 .. MaxQueue /\ drained' \in 0 .. MaxDrain /\ todo' \subseteq Channels
        /\ request' \in Channels \cup {NoChannel}
        /\ at' \in [pc : {"top", "lamp", "lamp in cycle", "tare", "tell", "cycle", "read"},
            ch : Channels]
        /\ out' \in Seq(Scales!Commands) /\ back' \in Seq(Scales!Answers)
    BY <1>17 DEF Scales!Restart
  <2>5. done' \in BOOLEAN /\ result' \in BOOLEAN /\ doubt' \in BOOLEAN
    BY <1>17 DEF Scales!Restart
  <2>6. cached' \in [Channels -> Nat \cup {Unread}]
    BY <1>17 DEF Scales!Restart
  <2>7. QED
    BY <2>0, <2>1, <2>2, <2>3, <2>4, <2>5, <2>6 DEF Scales!TypeOK
<1>18. CASE UNCHANGED Scales!vars
  BY <1>18 DEF Scales!vars, Scales!TypeOK
<1>19. QED
  BY <1>1, <1>2, <1>3, <1>4, <1>5, <1>6, <1>7, <1>8, <1>9, <1>10, <1>11, <1>12, <1>13, <1>14,
     <1>15, <1>16, <1>17, <1>18 DEF Scales!Next, Scales!ReaderStep

(* The steps that leave callers, requests and tares alone.                 *)
LEMMA ServedKept ==
  ASSUME Scales!TypeOK, Served, UNCHANGED <<request, done, result, call, doubt, tares, zero>>,
         at'.pc \notin {"tare", "tell"}, at.pc \notin {"tare", "tell"},
         \A i \in 1 .. Len(back') : \E j \in 1 .. Len(back) : back'[i] = back[j],
         \A ch \in Channels : cached'[ch] = cached[ch]
           \/ \E j \in 1 .. Len(back) : cached'[ch] = back[j].zero[ch]
  PROVE  Served'
<1> SUFFICES ASSUME NEW c \in Callers, call[c].alone
             PROVE  (call[c].since <= tares[call[c].ch] /\ (Asked(c) \/ Tared(c) \/ Told(c)))'
  BY DEF Served
<1>1. call[c].since <= tares[call[c].ch] /\ (Asked(c) \/ Told(c)) /\ call[c].ch \in Channels
  BY DEF Served, Tared, Scales!TypeOK
<1>2. SinceTared(c) => SinceTared(c)'
  BY <1>1 DEF SinceTared, Newer
<1>3. QED
  BY <1>1, <1>2 DEF Asked, Told

LEMMA Shorter ==
  ASSUME Scales!TypeOK, back # <<>>, back' = Tail(back)
  PROVE  /\ \A i \in 1 .. Len(back') : \E j \in 1 .. Len(back) : back'[i] = back[j]
         /\ Head(back) = back[1] /\ 1 \in 1 .. Len(back) /\ Len(back') = Len(back) - 1
<1>0. back \in Seq(Scales!Answers)
  BY DEF Scales!TypeOK
<1>1. Len(back') = Len(back) - 1 /\ Len(back) \in Nat /\ Len(back) > 0 /\ Head(back) = back[1]
  BY <1>0
<1>2. \A i \in 1 .. Len(back') : back'[i] = back[i + 1] /\ i + 1 \in 1 .. Len(back)
  BY <1>0, <1>1
<1>3. QED
  BY <1>1, <1>2

LEMMA ServedStep == Scales!TypeOK /\ Scales!TypeOK' /\ Served /\ [Scales!Next]_(Scales!vars)
    => Served'
<1> SUFFICES ASSUME Scales!TypeOK, Scales!TypeOK', Served, [Scales!Next]_(Scales!vars)
             PROVE Served'
  OBVIOUS
<1> USE ScaleConstants
    DEF Scales!ScaleAssumption, Scales!vars, Scales!callVars, Scales!lineVars, Scales!zeroVars,
        Scales!At
<1>1. ASSUME NEW c \in Callers, NEW ch \in Channels, Scales!AskTare(c, ch) PROVE Served'
  <2> SUFFICES ASSUME NEW d \in Callers, call'[d].alone
               PROVE  (call[d].since <= tares[call[d].ch] /\ Asked(d))'
    BY DEF Served
  <2>0. call' = [e \in Callers |->
          IF e = c THEN [pc |-> "waiting", ch |-> ch, since |-> tares[ch],
                         alone |-> ~Scales!tareUnderWay /\ \A f \in Callers : call[f].pc = "idle"]
                   ELSE [call[e] EXCEPT !.alone = FALSE]]
    BY <1>1 DEF Scales!AskTare
  <2>1. call[d] \in [pc : {"idle", "waiting"}, ch : Channels, since : Nat, alone : BOOLEAN]
    BY DEF Scales!TypeOK
  <2>2. d = c
    BY <2>0, <2>1
  <2>3. ~Scales!tareUnderWay /\ call'[d].ch = ch /\ call'[d].since = tares[ch]
    BY <2>0, <2>2
  <2>4. request' = ch /\ done' = FALSE /\ UNCHANGED <<at, tares>>
    BY <1>1 DEF Scales!AskTare, Scales!Cleared
  <2>5. tares[ch] \in Nat
    BY DEF Scales!TypeOK
  <2>6. QED
    BY <2>3, <2>4, <2>5 DEF Scales!tareUnderWay, Asked
<1>2. ASSUME NEW c \in Callers, Scales!Returns(c, TRUE) \/ Scales!Returns(c,
             FALSE) \/ Scales!GivesUp(c) PROVE Served'
  <2> SUFFICES ASSUME NEW d \in Callers, call'[d].alone
               PROVE  (call[d].since <= tares[call[d].ch] /\ (Asked(d) \/ Tared(d) \/ Told(d)))'
    BY DEF Served
  <2>1. call'[d] = call[d]
        /\ UNCHANGED <<request, done, result, at, out, back, doubt, cached, tares, zero>>
    <3>1. call \in [Callers -> [pc : {"idle", "waiting"}, ch : Channels, since : Nat,
        alone : BOOLEAN]]
      BY DEF Scales!TypeOK
    <3>2. /\ call' = [call EXCEPT ![c] = Scales!NoCall]
          /\ UNCHANGED <<request, done, result, at, out, back, doubt, cached, tares, zero>>
      BY <1>2 DEF Scales!Returns, Scales!GivesUp
    <3>3. QED
      BY <3>1, <3>2 DEF Scales!NoCall
  <2>2. QED
    BY <2>1 DEF Served, Asked, Tared, Told, Carried, SinceTared, Newer
<1>4. CASE Scales!Enqueue
  BY <1>4 DEF Scales!Enqueue, Served, Asked, Tared, Told, Carried, SinceTared, Newer
<1>5. CASE Scales!SendLamp
  <2>1. back' = <<>> /\ at'.pc \notin {"tare", "tell"}
    BY <1>5 DEF Scales!SendLamp, Scales!Send, Scales!Drained, Scales!TypeOK
  <2>2. QED
    <3>1. /\ at.pc \notin {"tare", "tell"}
          /\ UNCHANGED <<request, done, result, call, doubt, tares, zero, cached>>
      BY <1>5 DEF Scales!SendLamp
    <3>2. QED
      BY <2>1, <3>1, ServedKept
<1>6. CASE Scales!TakeRequest
  <2> SUFFICES ASSUME NEW c \in Callers, call[c].alone
               PROVE  (call[c].since <= tares[call[c].ch] /\ Tared(c))'
    BY <1>6 DEF Served, Scales!TakeRequest
  <2>1. request = call[c].ch /\ ~done /\ call[c].since <= tares[call[c].ch]
        /\ call[c].ch \in Channels
    BY <1>6 DEF Served, Asked, Tared, Told, Scales!TakeRequest, Scales!TypeOK
  <2>2. back' = <<>> /\ out' = Append(out, [kind |-> "tare", ch |-> request])
    BY <1>6 DEF Scales!TakeRequest, Scales!Send, Scales!Drained
  <2>3. doubt' \/ out' = <<[kind |-> "tare", ch |-> request]>>
    <3>1. doubt' = (out # <<>>)
      BY <1>6 DEF Scales!TakeRequest
    <3>2. CASE out = <<>>
      BY <2>2, <3>2
    <3>3. CASE out # <<>>
      BY <3>1, <3>3, Zenon
    <3>4. QED
      BY <3>2, <3>3
  <2>4. QED
    BY <1>6, <2>1, <2>2, <2>3 DEF Scales!TakeRequest, Tared, Carried
<1>7. CASE Scales!BeginCycle
  BY <1>7, ServedKept DEF Scales!BeginCycle, Scales!Cycle
<1>8. ASSUME NEW ch \in Channels, Scales!SendRead(ch) PROVE Served'
  <2>1. back' = <<>>
    BY <1>8 DEF Scales!SendRead, Scales!Send, Scales!Drained
  <2>2. QED
    BY <1>8, <2>1, ServedKept DEF Scales!SendRead
<1>9. CASE Scales!EndCycle
  BY <1>9, ServedKept DEF Scales!EndCycle
<1>10. CASE Scales!Skip
  BY <1>10, Shorter, ServedKept DEF Scales!Skip
<1>11. CASE Scales!RecvLamp
  <2>1. at'.pc \notin {"tare", "tell"}
    BY <1>11 DEF Scales!RecvLamp, Scales!AfterLamp, Scales!TypeOK
  <2>2. QED
    BY <1>11, <2>1, Shorter, ServedKept DEF Scales!RecvLamp
<1>12. CASE Scales!RecvRead
  <2>1. \A ch \in Channels : cached'[ch] = cached[ch]
           \/ \E j \in 1 .. Len(back) : cached'[ch] = back[j].zero[ch]
    BY <1>12, Shorter DEF Scales!RecvRead, Scales!TypeOK
  <2>2. QED
    BY <1>12, <2>1, Shorter, ServedKept DEF Scales!RecvRead
<1>13. CASE Scales!RecvTare
  <2> SUFFICES ASSUME NEW c \in Callers, call[c].alone
               PROVE  (call[c].since <= tares[call[c].ch] /\ Told(c))'
    BY <1>13 DEF Served, Scales!RecvTare
  <2>1. /\ request = NoChannel /\ ~done /\ at.ch = call[c].ch /\ call[c].since <= tares[call[c].ch]
        /\ doubt \/ Carried(c)
        /\ call[c].ch \in Channels
    BY <1>13 DEF Served, Asked, Tared, Told, Scales!RecvTare, Scales!TypeOK
  <2>2. ~doubt /\ result' => SinceTared(c)'
    <3> SUFFICES ASSUME ~doubt, result' PROVE SinceTared(c)'
      OBVIOUS
    <3>1. Len(back) = 1 /\ Newer(c) /\ back[1].kind = "tare"
      BY <1>13, <2>1, Shorter DEF Carried, Scales!RecvTare
    <3>2. Len(back') = 0
      BY <1>13, <3>1, Shorter DEF Scales!RecvTare
    <3>3. cached'[call[c].ch] = Unread
      BY <1>13, <2>1 DEF Scales!RecvTare, Scales!Popped, Scales!TypeOK
    <3>4. UNCHANGED <<call, tares, zero>>
      BY <1>13 DEF Scales!RecvTare
    <3>5. Newer(c)'
      BY <3>1, <3>2, <3>4 DEF Newer
    <3>6. QED
      BY <3>3, <3>4, <3>5 DEF SinceTared
  <2>3. QED
    <3>1. at'.pc = "tell" /\ UNCHANGED <<request, done, call, doubt, tares>>
      BY <1>13 DEF Scales!RecvTare
    <3>2. QED
      <4>1. (doubt \/ ~result \/ SinceTared(c))'
        BY <2>2, <3>1, Zenon
      <4>2. QED
        BY <2>1, <3>1, <4>1 DEF Told
<1>14. CASE Scales!TellDone
  <2> SUFFICES ASSUME NEW c \in Callers, call[c].alone
               PROVE  (call[c].since <= tares[call[c].ch] /\ Told(c))'
    BY <1>14 DEF Served, Scales!TellDone
  <2>1. Told(c) /\ call[c].since <= tares[call[c].ch]
    BY <1>14 DEF Served, Asked, Tared, Scales!TellDone
  <2>2. SinceTared(c) => SinceTared(c)'
    BY <1>14 DEF Scales!TellDone, SinceTared, Newer
  <2>3. QED
    BY <1>14, <2>1, <2>2 DEF Scales!TellDone, Scales!Cycle, Told
<1>15. CASE Scales!RecvNothing
  <2>1. CASE at.pc = "tare"
    <3> SUFFICES ASSUME NEW c \in Callers, call[c].alone
                 PROVE  (call[c].since <= tares[call[c].ch] /\ Told(c))'
      BY <1>15 DEF Served, Scales!RecvNothing
    <3>1. request = NoChannel /\ ~done /\ call[c].since <= tares[call[c].ch]
      BY <1>15, <2>1 DEF Served, Asked, Tared, Told
    <3>2. QED
      <4>1. /\ result' = FALSE /\ at'.pc = "tell"
            /\ UNCHANGED <<request, done, call, doubt, tares>>
        BY <1>15, <2>1 DEF Scales!RecvNothing
      <4>2. QED
        <5>1. (doubt \/ ~result \/ SinceTared(c))'
          BY <4>1, Zenon
        <5>2. QED
          BY <3>1, <4>1, <5>1 DEF Told
  <2>2. CASE at.pc # "tare"
    <3>1. at'.pc \notin {"tare", "tell"} /\ UNCHANGED result
      <4>1. at \in [pc : {"top", "lamp", "lamp in cycle", "tare", "tell", "cycle", "read"},
          ch : Channels]
        BY DEF Scales!TypeOK
      <4>2. UNCHANGED result /\ (at' = [pc |-> "cycle", ch |-> Mix] \/ Scales!AfterLamp)
        BY <1>15, <2>2 DEF Scales!RecvNothing
      <4>3. QED
        <5>1. UNCHANGED result
          BY <4>2
        <5>2. at'.pc \in {"cycle", "top"}
          <6>1. CASE at' = [pc |-> "cycle", ch |-> Mix]
            BY <6>1
          <6>2. CASE Scales!AfterLamp
            BY <4>1, <6>2 DEF Scales!AfterLamp
          <6>3. QED
            BY <4>2, <6>1, <6>2
        <5>3. QED
          BY <5>1, <5>2, Zenon
    <3>2. /\ at.pc # "tell"
          /\ UNCHANGED <<request, done, result, call, doubt, tares, zero, cached, back>>
      BY <1>15, <2>2, <3>1 DEF Scales!RecvNothing
    <3>3. QED
      BY <2>2, <3>1, <3>2, ServedKept
  <2>3. QED
    BY <2>1, <2>2
<1>16. CASE Scales!ArduinoStep
  <2> SUFFICES ASSUME NEW c \in Callers, call[c].alone
               PROVE  (call[c].since <= tares[call[c].ch] /\ (Asked(c) \/ Tared(c) \/ Told(c)))'
    BY <1>16 DEF Served, Scales!ArduinoStep
  <2> DEFINE ch == call[c].ch
             start == call[c].since
  <2>0. /\ start <= tares[ch] /\ (Asked(c) \/ Tared(c) \/ Told(c)) /\ ch \in Channels
        /\ start \in Nat
        /\ Head(out) \in Scales!Commands /\ out \in Seq(Scales!Commands)
            /\ back \in Seq(Scales!Answers)
        /\ UNCHANGED <<request, done, result, call, at, doubt, cached>>
    BY <1>16, Messages DEF Served, Scales!TypeOK, Scales!ArduinoStep
  <2>1. /\ Head(out).ch \in Channels /\ Head(out).kind \in {"lamp", "tare", "read"}
        /\ tares \in [Channels -> Nat] /\ zero \in [Channels -> Nat]
        /\ tares' \in [Channels -> Nat] /\ zero' \in [Channels -> Nat]
    BY <2>0 DEF Scales!Commands, Scales!TypeOK
  <2>2. /\ tares'[ch] >= tares[ch]
        /\ zero'[ch] = zero[ch] \/ zero'[ch] > start
        /\ \E m \in Scales!Answers : back' = Append(back, m) /\ m.zero = zero' /\
             (Head(out).kind = "tare" => m.kind = "error" \/
               (m.kind = "tare" /\ tares'[Head(out).ch] = tares[Head(out).ch] + 1
                                /\ zero'[Head(out).ch] = tares[Head(out).ch] + 1))
    <3>1. CASE /\ Head(out).kind = "tare"
               /\ tares' = [tares EXCEPT ![Head(out).ch] = @ + 1]
               /\ zero' = [zero EXCEPT ![Head(out).ch] = tares'[Head(out).ch]]
               /\ back' = Append(back, [kind |-> "tare", ch |-> Head(out).ch, zero |-> zero'])
      <4>1. [kind |-> "tare", ch |-> Head(out).ch, zero |-> zero'] \in Scales!Answers
        BY <2>1 DEF Scales!Answers
      <4>2. /\ tares'[Head(out).ch] = tares[Head(out).ch] + 1
            /\ zero'[Head(out).ch] = tares[Head(out).ch] + 1
        BY <2>1, <3>1
      <4>3. tares'[ch] >= tares[ch] /\ (zero'[ch] = zero[ch] \/ zero'[ch] > start)
        <5>1. tares[ch] \in Nat /\ tares[ch] >= start
          BY <2>0, <2>1
        <5>2. CASE ch = Head(out).ch
          BY <2>0, <4>2, <5>1, <5>2
        <5>3. CASE ch # Head(out).ch
          <6>1. tares'[ch] = tares[ch]
            BY <2>0, <2>1, <3>1, <5>3
          <6>2. zero'[ch] = zero[ch]
            BY <2>0, <2>1, <3>1, <5>3
          <6>3. QED
            BY <5>1, <6>1, <6>2
        <5>4. QED
          BY <5>2, <5>3
      <4>4. QED
        BY <4>1, <4>2, <4>3, <3>1
    <3>2. CASE /\ UNCHANGED <<tares, zero>>
               /\ back' = Append(back,
                   [kind |-> IF Head(out).kind = "tare" THEN "error" ELSE Head(out).kind,
                                        ch |-> Head(out).ch, zero |-> zero])
      <4>1. [kind |-> IF Head(out).kind = "tare" THEN "error" ELSE Head(out).kind,
             ch |-> Head(out).ch, zero |-> zero] \in Scales!Answers
        BY <2>1 DEF Scales!Answers
      <4>2. tares'[ch] >= tares[ch]
        BY <2>0, <2>1, <3>2
      <4>3. QED
        BY <4>1, <4>2, <3>2
    <3>3. QED
      BY <1>16, <3>1, <3>2 DEF Scales!ArduinoStep, Scales!Arduino
  <2>3. PICK m \in Scales!Answers : back' = Append(back, m) /\ m.zero = zero' /\
             (Head(out).kind = "tare" => m.kind = "error" \/
               (m.kind = "tare" /\ tares'[Head(out).ch] = tares[Head(out).ch] + 1
                                /\ zero'[Head(out).ch] = tares[Head(out).ch] + 1))
    BY <2>2
  <2>4. /\ Len(back') = Len(back) + 1
        /\ \A i \in 1 .. Len(back') : back'[i] = IF i <= Len(back) THEN back[i] ELSE m
    BY <2>0, <2>3
  <2> HIDE DEF ch, start
  <2>n. tares[ch] \in Nat /\ tares'[ch] \in Nat /\ zero[ch] \in Nat /\ zero'[ch] \in Nat
    BY <2>0, <2>1
  <2>5. start <= tares'[ch]
    BY <2>0, <2>2, <2>n
  <2>6. Newer(c) => Newer(c)'
    <3> SUFFICES ASSUME Newer(c) PROVE Newer(c)'
      OBVIOUS
    <3>1. tares'[ch] > start /\ zero'[ch] > start
      BY <2>0, <2>2, <2>n DEF Newer, ch, start
    <3>2. \A i \in 1 .. Len(back') : back'[i].zero[ch] > start
      BY <2>0, <2>3, <2>4, <3>1 DEF Newer, ch, start
    <3>3. QED
      BY <2>0, <3>1, <3>2 DEF Newer, ch, start
  <2>7. Told(c) => Told(c)'
    BY <2>0, <2>6 DEF Told, SinceTared, ch, start
  <2>8. Carried(c) => Carried(c)'
    <3> SUFFICES ASSUME Carried(c) PROVE Carried(c)'
      OBVIOUS
    <3>1. out = <<[kind |-> "tare", ch |-> ch]>> /\ back = <<>> /\ out' = Tail(out)
      BY <1>16 DEF Carried, Scales!ArduinoStep, ch
    <3>2. Head(out).ch = ch /\ Head(out).kind = "tare" /\ out' = <<>>
      BY <3>1
    <3>3. Len(back') = 1 /\ back'[1] = m
      BY <2>4, <3>1
    <3>4. m.kind = "error" \/ (m.kind = "tare" /\ tares'[ch] > start /\ zero'[ch] > start)
      <4>1. (tares'[ch] = tares[ch] + 1 /\ zero'[ch] = tares[ch] + 1) \/ m.kind = "error"
        BY <2>3, <3>2
      <4>2. QED
        BY <2>0, <2>3, <2>n, <3>2, <4>1
    <3>5. m.kind = "error" \/ (m.kind = "tare" /\ Newer(c)')
      BY <2>0, <2>3, <3>3, <3>4 DEF Newer, ch, start
    <3>6. QED
      BY <3>2, <3>3, <3>5 DEF Carried
  <2>9. QED
    BY <2>0, <2>5, <2>7, <2>8 DEF Asked, Tared, Told, ch, start
<1>17. CASE Scales!Restart
  BY <1>17 DEF Scales!Restart, Scales!NoCall, Served
<1>18. CASE UNCHANGED Scales!vars
  BY <1>18 DEF Served, Asked, Tared, Told, Carried, SinceTared, Newer
<1>19. QED
  <2>1. ASSUME NEW c \in Callers, NEW ok \in BOOLEAN, Scales!Returns(c, ok) PROVE Served'
    BY <1>2, <2>1
  <2>2. QED
    BY <1>1, <1>2, <2>1, <1>4, <1>5, <1>6, <1>7, <1>8, <1>9, <1>10, <1>11, <1>12, <1>13, <1>14,
       <1>15, <1>16, <1>17, <1>18 DEF Scales!Next, Scales!ReaderStep

(* A zero and its copy.  A scale whose tares the driver has all heard of   *)
(* has no other on its way, and what is on its way to the driver tells of  *)
(* its last zero; a tare under way comes back from an empty line.          *)
UnderWay(ch) == at.pc = "tare" /\ at.ch = ch
Stored(ch) == backup[ch] = tares[ch]
Quiet(ch) == \A i \in 1 .. Len(out) : out[i].kind = "tare" => out[i].ch # ch
Telling(ch) == \A i \in 1 .. Len(back) : back[i].zero[ch] = tares[ch]
Known(ch) == zero[ch] = tares[ch] /\ (UnderWay(ch) \/ (Stored(ch) /\ Quiet(ch) /\ Telling(ch)))

InLine(ch) ==
  \/ out = <<[kind |-> "tare", ch |-> ch]>> /\ back = <<>> /\ (ch \in missed \/ Stored(ch))
  \/ /\ out = <<>> /\ Len(back) = 1
     /\ \/ back[1].kind = "error" /\ (ch \in missed \/ Stored(ch))
        \/ back[1].kind = "tare" /\ zero[ch] = tares[ch] /\ back[1].zero[ch] = tares[ch]

ZeroInv == /\ \A ch \in Channels \ missed : Known(ch)
           /\ \A ch \in Channels : UnderWay(ch) /\ ~doubt => InLine(ch)

LEMMA ZeroInit == Scales!Init => ZeroInv
<1> SUFFICES ASSUME Scales!Init PROVE ZeroInv
  OBVIOUS
<1>1. /\ at.pc = "top" /\ out = <<>> /\ back = <<>>
      /\ \A ch \in Channels : tares[ch] = 0 /\ zero[ch] = 0 /\ backup[ch] = 0
  BY DEF Scales!Init, Scales!OwnZero
<1>2. QED
  BY <1>1 DEF ZeroInv, Known, UnderWay, Stored, Quiet, Telling

(* The steps that tare nothing and store nothing.                          *)
LEMMA ZeroKept ==
  ASSUME ZeroInv, UNCHANGED <<tares, zero, backup, missed>>,
         at'.pc # "tare", at.pc # "tare",
         \A i \in 1 .. Len(back') : \E j \in 1 .. Len(back) : back'[i] = back[j],
         \A i \in 1 .. Len(out') : out'[i].kind = "tare"
             => \E j \in 1 .. Len(out) : out'[i] = out[j]
  PROVE  ZeroInv'
<1> SUFFICES ASSUME NEW ch \in Channels \ missed PROVE Known(ch)'
  BY DEF ZeroInv, UnderWay
<1>1. zero[ch] = tares[ch] /\ Stored(ch) /\ Quiet(ch) /\ Telling(ch)
  BY DEF ZeroInv, Known, UnderWay
<1>2. Stored(ch)' /\ Quiet(ch)' /\ Telling(ch)'
  BY <1>1 DEF Stored, Quiet, Telling
<1>3. QED
  BY <1>1, <1>2 DEF Known

(* What a command that is sent adds to the line.                           *)
LEMMA Sent ==
  ASSUME out \in Seq(Scales!Commands), NEW m \in Scales!Commands, out' = Append(out, m),
         back' = <<>>
  PROVE  /\ \A i \in 1 .. Len(out') : out'[i] = m \/ \E j \in 1 .. Len(out) : out'[i] = out[j]
         /\ \A i \in 1 .. Len(back') : \E j \in 1 .. Len(back) : back'[i] = back[j]
         /\ Len(back') = 0
<1>1. /\ Len(out') = Len(out) + 1 /\ Len(out) \in Nat
      /\ \A i \in 1 .. Len(out') : out'[i] = IF i <= Len(out) THEN out[i] ELSE m
  OBVIOUS
<1>2. QED
  BY <1>1

LEMMA ZeroTakes == ASSUME Scales!TypeOK, ZeroInv, Scales!TakeRequest PROVE ZeroInv'
<1>1. /\ at.pc = "top" /\ request # NoChannel /\ doubt' = (out # <<>>)
      /\ out' = Append(out, [kind |-> "tare", ch |-> request]) /\ back' = <<>>
      /\ at' = [pc |-> "tare", ch |-> request]
      /\ UNCHANGED <<tares, zero, backup, missed>>
  BY DEF Scales!TakeRequest, Scales!Send, Scales!Drained, Scales!At, Scales!zeroVars
<1>2. out \in Seq(Scales!Commands) /\ request \in Channels
  BY <1>1 DEF Scales!TypeOK
<1>3. [kind |-> "tare", ch |-> request] \in Scales!Commands
  BY <1>2 DEF Scales!Commands
<1>4. ASSUME NEW ch \in Channels \ missed PROVE Known(ch)'
  <2>1. zero[ch] = tares[ch] /\ Stored(ch) /\ Quiet(ch)
    BY <1>1 DEF ZeroInv, Known, UnderWay
  <2>2. CASE ch = request
    BY <1>1, <2>1, <2>2 DEF Known, UnderWay
  <2>3. CASE ch # request
    <3>1. Quiet(ch)'
      BY <1>1, <1>2, <1>3, <2>1, <2>3, Sent DEF Quiet
    <3>2. Stored(ch)' /\ Telling(ch)'
      BY <1>1, <2>1 DEF Stored, Telling
    <3>3. QED
      BY <1>1, <2>1, <3>1, <3>2 DEF Known
  <2>4. QED
    BY <2>2, <2>3
<1>5. ASSUME NEW ch \in Channels, UnderWay(ch)', ~doubt' PROVE InLine(ch)'
  <2>1. ch = request
    BY <1>1, <1>5 DEF UnderWay
  <2>2. out = <<>>
    BY <1>1, <1>5, Zenon
  <2>3. out' = <<[kind |-> "tare", ch |-> ch]>>
    BY <1>1, <2>1, <2>2
  <2>4. (ch \in missed \/ Stored(ch))'
    BY <1>1 DEF ZeroInv, Known, UnderWay, Stored
  <2>5. QED
    BY <1>1, <2>3, <2>4 DEF InLine
<1>6. QED
  BY <1>1, <1>4, <1>5 DEF ZeroInv

LEMMA ZeroTold == ASSUME Scales!TypeOK, ZeroInv, Scales!RecvTare PROVE ZeroInv'
<1> DEFINE m == Head(back)
<1>1. /\ at.pc = "tare" /\ back # <<>> /\ back' = Tail(back) /\ at'.pc = "tell"
      /\ \A ch \in Channels : backup'[ch] = backup[ch] \/ backup'[ch] = m.zero[ch]
      /\ m.kind = "error" => \A ch \in Channels : backup'[ch] = backup[ch]
      /\ missed' = CASE m.kind = "tare" /\ ~doubt /\ backup'[at.ch] = m.zero[at.ch]
                                                            -> missed \ {at.ch}
                     [] m.kind = "error" /\ ~doubt -> missed
                     [] OTHER -> missed \cup {at.ch}
      /\ UNCHANGED <<tares, zero, out>>
  BY DEF Scales!RecvTare, Scales!Saved, Scales!At
<1>2. at.ch \in Channels
  BY DEF Scales!TypeOK
<1>3. ASSUME NEW ch \in Channels \ missed', ch # at.ch PROVE Known(ch)'
  <2>1. ch \notin missed
    BY <1>1, <1>3
  <2>2. zero[ch] = tares[ch] /\ Stored(ch) /\ Quiet(ch) /\ Telling(ch)
    BY <1>3, <2>1 DEF ZeroInv, Known, UnderWay
  <2>3. m.zero[ch] = tares[ch]
    BY <1>1, <2>2, Shorter DEF Telling
  <2>4. Stored(ch)'
    BY <1>1, <2>2, <2>3 DEF Stored
  <2>5. Quiet(ch)' /\ Telling(ch)'
    BY <1>1, <2>2, Shorter DEF Quiet, Telling
  <2>6. QED
    BY <1>1, <2>2, <2>4, <2>5 DEF Known
<1>4. ASSUME NEW ch \in Channels \ missed', ch = at.ch PROVE Known(ch)'
  <2>1. ~doubt
    <3> SUFFICES ASSUME doubt PROVE FALSE
      OBVIOUS
    <3>1. missed' = missed \cup {at.ch}
      BY <1>1
    <3>2. QED
      BY <1>4, <3>1
  <2>2. InLine(ch) /\ Len(back) = 1 /\ out = <<>> /\ back[1] = m /\ Len(back') = 0
    BY <1>1, <1>4, <2>1, Shorter DEF ZeroInv, UnderWay, InLine
  <2>3. CASE m.kind = "tare"
    <3>1. backup'[ch] = m.zero[ch]
      <4> SUFFICES ASSUME backup'[ch] # m.zero[ch] PROVE FALSE
        OBVIOUS
      <4>1. missed' = missed \cup {at.ch}
        BY <1>1, <1>4, <2>3
      <4>2. QED
        BY <1>4, <4>1
    <3>2. zero[ch] = tares[ch] /\ m.zero[ch] = tares[ch]
      BY <1>1, <2>2, <2>3 DEF InLine
    <3>3. Stored(ch)' /\ Quiet(ch)' /\ Telling(ch)'
      <4>1. backup'[ch] = tares[ch] /\ tares' = tares
        BY <1>1, <3>1, <3>2 DEF Stored
      <4>2. Len(out') = 0
        BY <1>1, <2>2
      <4>3. QED
        BY <2>2, <4>1, <4>2 DEF Stored, Quiet, Telling
    <3>4. QED
      BY <1>1, <3>2, <3>3 DEF Known
  <2>4. CASE m.kind = "error"
    <3>1. missed' = missed /\ backup'[ch] = backup[ch]
      BY <1>1, <2>1, <2>4
    <3>2. zero[ch] = tares[ch] /\ Stored(ch)
      BY <1>1, <1>4, <2>2, <2>4, <3>1 DEF InLine, ZeroInv, Known
    <3>3. Stored(ch)' /\ Quiet(ch)' /\ Telling(ch)'
      <4>1. backup'[ch] = tares[ch] /\ tares' = tares
        BY <1>1, <3>1, <3>2 DEF Stored
      <4>2. Len(out') = 0
        BY <1>1, <2>2
      <4>3. QED
        BY <2>2, <4>1, <4>2 DEF Stored, Quiet, Telling
    <3>4. QED
      BY <1>1, <3>2, <3>3 DEF Known
  <2>5. QED
    BY <1>1, <2>2, <2>3, <2>4 DEF InLine
<1>5. QED
  BY <1>1, <1>3, <1>4 DEF ZeroInv, UnderWay

LEMMA ZeroTared == ASSUME Scales!TypeOK, Scales!TypeOK', ZeroInv, Scales!ArduinoStep PROVE ZeroInv'
<1> DEFINE m == Head(out)
           x == m.ch
<1>0. /\ out # <<>> /\ out' = Tail(out) /\ Scales!Arduino(m)
      /\ UNCHANGED <<at, doubt, backup, missed>>
  BY DEF Scales!ArduinoStep, Scales!lineVars
<1>1. /\ out \in Seq(Scales!Commands) /\ back \in Seq(Scales!Answers)
      /\ tares \in [Channels -> Nat] /\ zero \in [Channels -> Nat]
  BY DEF Scales!TypeOK
<1>2. /\ m \in Scales!Commands /\ m = out[1] /\ x \in Channels
      /\ Len(out') = Len(out) - 1 /\ Len(out) \in Nat /\ Len(out) > 0
      /\ \A i \in 1 .. Len(out') : out'[i] = out[i + 1] /\ i + 1 \in 1 .. Len(out)
  <2>1. /\ Len(out') = Len(out) - 1 /\ Len(out) \in Nat /\ Len(out) > 0 /\ m = out[1]
        /\ m \in Scales!Commands
    BY <1>0, <1>1
  <2>2. \A i \in 1 .. Len(out') : out'[i] = out[i + 1] /\ i + 1 \in 1 .. Len(out)
    BY <1>0, <1>1, <2>1
  <2>3. x \in Channels
    BY <2>1 DEF Scales!Commands
  <2>4. QED
    BY <2>1, <2>2, <2>3
<1>3. PICK a : /\ back' = Append(back, a) /\ a.zero = zero' /\ a \in Scales!Answers
               /\ \A ch \in Channels : (ch = x /\ m.kind = "tare") \/ (tares'[ch] = tares[ch]
                   /\ zero'[ch] = zero[ch])
               /\ m.kind = "tare" => \/ a.kind = "tare" /\ zero'[x] = tares'[x]
                                     \/ a.kind = "error" /\ UNCHANGED <<tares, zero>>
  <2>1. CASE /\ m.kind = "tare"
             /\ tares' = [tares EXCEPT ![x] = @ + 1]
             /\ zero' = [zero EXCEPT ![x] = tares'[x]]
             /\ back' = Append(back, [kind |-> "tare", ch |-> x, zero |-> zero'])
    <3>0. zero' \in [Channels -> Nat]
      BY DEF Scales!TypeOK
    <3>1. [kind |-> "tare", ch |-> x, zero |-> zero'] \in Scales!Answers
      BY <1>2, <3>0 DEF Scales!Answers
    <3>2. /\ zero'[x] = tares'[x]
          /\ \A ch \in Channels : ch = x \/ (tares'[ch] = tares[ch] /\ zero'[ch] = zero[ch])
      BY <1>1, <1>2, <2>1
    <3> DEFINE a == [kind |-> "tare", ch |-> x, zero |-> zero']
    <3>3. a.zero = zero' /\ a.kind = "tare" /\ back' = Append(back, a) /\ a \in Scales!Answers
      BY <2>1, <3>1
    <3> HIDE DEF a
    <3>4. QED
      BY <2>1, <3>2, <3>3
  <2>2. CASE /\ UNCHANGED <<tares, zero>>
             /\ back' = Append(back, [kind |-> IF m.kind = "tare" THEN "error" ELSE m.kind,
                                      ch |-> x, zero |-> zero])
    <3>1. [kind |-> IF m.kind = "tare" THEN "error" ELSE m.kind, ch |-> x,
        zero |-> zero] \in Scales!Answers
      BY <1>1, <1>2 DEF Scales!Answers, Scales!Commands
    <3>2. QED
      BY <2>2, <3>1
  <2>3. QED
    BY <1>0, <2>1, <2>2 DEF Scales!Arduino
<1>4. /\ Len(back') = Len(back) + 1 /\ Len(back) \in Nat
      /\ \A i \in 1 .. Len(back') : back'[i] = IF i <= Len(back) THEN back[i] ELSE a
  BY <1>1, <1>3
<1> HIDE DEF m
<1>5. ASSUME NEW ch \in Channels \ missed PROVE Known(ch)'
  <2>1. Known(ch)
    BY <1>5 DEF ZeroInv
  <2>2. CASE UnderWay(ch)
    <3>1. zero'[ch] = tares'[ch]
      BY <1>3, <2>1 DEF Known
    <3>2. QED
      BY <1>0, <2>2, <3>1 DEF Known, UnderWay
  <2>3. CASE ~UnderWay(ch)
    <3>1. zero[ch] = tares[ch] /\ Stored(ch) /\ Quiet(ch) /\ Telling(ch)
      BY <2>1, <2>3 DEF Known
    <3>2. tares'[ch] = tares[ch] /\ zero'[ch] = zero[ch]
      BY <1>2, <1>3, <3>1 DEF Quiet
    <3>3. Quiet(ch)'
      BY <1>2, <3>1 DEF Quiet
    <3>4. Telling(ch)'
      BY <1>3, <1>4, <3>1, <3>2 DEF Telling
    <3>5. Stored(ch)'
      BY <1>0, <3>1, <3>2 DEF Stored
    <3>6. QED
      BY <3>1, <3>2, <3>3, <3>4, <3>5 DEF Known
  <2>4. QED
    BY <2>2, <2>3
<1>6. ASSUME NEW ch \in Channels, UnderWay(ch)', ~doubt' PROVE InLine(ch)'
  <2>1. InLine(ch)
    BY <1>0, <1>6 DEF ZeroInv, UnderWay
  <2>2. /\ out = <<[kind |-> "tare", ch |-> ch]>> /\ back = <<>> /\ (ch \in missed \/ Stored(ch))
    BY <1>0, <2>1 DEF InLine
  <2>3. m.kind = "tare" /\ x = ch /\ out' = <<>>
    BY <1>0, <1>2, <2>2
  <2>4. Len(back') = 1 /\ back'[1] = a
    BY <1>4, <2>2
  <2>5. CASE a.kind = "tare" /\ zero'[ch] = tares'[ch]
    BY <1>3, <2>3, <2>4, <2>5 DEF InLine
  <2>6. CASE a.kind = "error" /\ UNCHANGED <<tares, zero>>
    BY <1>0, <2>2, <2>3, <2>4, <2>6 DEF InLine, Stored
  <2>7. QED
    BY <1>3, <2>3, <2>5, <2>6
<1>7. QED
  BY <1>0, <1>5, <1>6 DEF ZeroInv

LEMMA ZeroStep == Scales!TypeOK /\ Scales!TypeOK' /\ ZeroInv /\ [Scales!Next]_(Scales!vars)
    => ZeroInv'
<1> SUFFICES ASSUME Scales!TypeOK, Scales!TypeOK', ZeroInv, [Scales!Next]_(Scales!vars)
             PROVE ZeroInv'
  OBVIOUS
<1> USE DEF Scales!callVars, Scales!lineVars, Scales!zeroVars, Scales!At
<1>o. /\ out \in Seq(Scales!Commands) /\ back \in Seq(Scales!Answers)
      /\ at \in [pc : {"top", "lamp", "lamp in cycle", "tare", "tell", "cycle", "read"},
                 ch : Channels]
  BY DEF Scales!TypeOK
<1>1. CASE UNCHANGED <<at, out, back, doubt, tares, zero, backup, missed>>
  BY <1>1 DEF ZeroInv, Known, UnderWay, InLine, Stored, Quiet, Telling
<1>2. ASSUME NEW m \in Scales!Commands, m.kind # "tare", Scales!Send(m.kind, m.ch), at.pc # "tare",
             at'.pc # "tare",
             UNCHANGED <<tares, zero, backup, missed>>
      PROVE  ZeroInv'
  <2>1. [kind |-> m.kind, ch |-> m.ch] \in Scales!Commands
    BY DEF Scales!Commands
  <2>2. out' = Append(out, [kind |-> m.kind, ch |-> m.ch]) /\ back' = <<>>
    BY <1>2 DEF Scales!Send, Scales!Drained
  <2> DEFINE n == [kind |-> m.kind, ch |-> m.ch]
  <2>3. n.kind # "tare"
    BY <1>2
  <2> HIDE DEF n
  <2>4. /\ \A i \in 1 .. Len(out') : out'[i] = n \/ \E j \in 1 .. Len(out) : out'[i] = out[j]
        /\ \A i \in 1 .. Len(back') : \E j \in 1 .. Len(back) : back'[i] = back[j]
    BY <1>o, <2>1, <2>2, Sent DEF n
  <2>5. QED
    BY <1>2, <2>3, <2>4, ZeroKept
<1>3. ASSUME Scales!SendLamp PROVE ZeroInv'
  <2>1. /\ Scales!Send("lamp", at.ch) /\ at.pc # "tare"
        /\ UNCHANGED <<tares, zero, backup, missed>>
        /\ at' = [at EXCEPT !.pc = IF at.pc = "top" THEN "lamp" ELSE "lamp in cycle"]
    BY <1>3 DEF Scales!SendLamp
  <2>2. [kind |-> "lamp", ch |-> at.ch] \in Scales!Commands /\ at'.pc # "tare"
    BY <1>o, <2>1 DEF Scales!Commands
  <2>3. QED
    BY <1>2, <2>1, <2>2
<1>4. ASSUME NEW ch \in Channels, Scales!SendRead(ch) PROVE ZeroInv'
  <2>1. /\ Scales!Send("read", ch) /\ at.pc # "tare" /\ UNCHANGED <<tares, zero, backup, missed>>
        /\ at'.pc # "tare"
    BY <1>4 DEF Scales!SendRead
  <2>2. [kind |-> "read", ch |-> ch] \in Scales!Commands
    BY DEF Scales!Commands
  <2>3. QED
    BY <1>2, <2>1, <2>2
<1>5. ASSUME back # <<>>, back' = Tail(back), at.pc # "tare", at'.pc # "tare",
             UNCHANGED <<out, tares, zero, backup, missed>>
      PROVE  ZeroInv'
  BY <1>5, Shorter, ZeroKept
<1>6. ASSUME at.pc # "tare", at'.pc # "tare", UNCHANGED <<out, back, tares, zero, backup, missed>>
      PROVE  ZeroInv'
  BY <1>6, ZeroKept
<1>7. CASE Scales!RecvNothing
  <2>1. CASE at.pc = "tare"
    <3>1. /\ missed' = missed \cup {at.ch} /\ at'.pc = "tell"
          /\ UNCHANGED <<out, back, tares, zero, backup>>
      BY <1>7, <2>1 DEF Scales!RecvNothing
    <3>2. QED
      BY <3>1 DEF ZeroInv, Known, UnderWay, Stored, Quiet, Telling
  <2>2. CASE at.pc # "tare"
    <3>1. at' = [pc |-> "cycle", ch |-> Mix] \/ Scales!AfterLamp
      BY <1>7, <2>2 DEF Scales!RecvNothing
    <3>2. at'.pc # "tare"
      <4>1. CASE Scales!AfterLamp
        BY <1>o, <4>1 DEF Scales!AfterLamp
      <4>2. QED
        BY <3>1, <4>1
    <3>3. UNCHANGED <<out, back, tares, zero, backup, missed>>
      BY <1>7, <2>2 DEF Scales!RecvNothing
    <3>4. QED
      BY <1>6, <2>2, <3>2, <3>3
  <2>3. QED
    BY <2>1, <2>2
<1>8. CASE Scales!Restart
  <2>1. /\ UNCHANGED <<tares, backup>>
        /\ \A ch \in Channels \ missed' :
             /\ ch \notin missed /\ ~UnderWay(ch)
             /\ zero'[ch] = zero[ch] \/ zero'[ch] = backup[ch]
        /\ at'.pc = "top" /\ out' = <<>> /\ back' = <<>>
    BY <1>8 DEF Scales!Restart, Scales!Zeros, Scales!Restored, UnderWay
  <2> SUFFICES ASSUME NEW ch \in Channels \ missed' PROVE Known(ch)'
    BY <2>1 DEF ZeroInv, UnderWay
  <2>2. zero[ch] = tares[ch] /\ Stored(ch)
    BY <2>1 DEF ZeroInv, Known, UnderWay
  <2>3. QED
    BY <2>1, <2>2 DEF Known, Stored, Quiet, Telling
<1>9. CASE Scales!RecvLamp
  <2>1. at'.pc # "tare"
    BY <1>o, <1>9 DEF Scales!RecvLamp, Scales!AfterLamp
  <2>2. QED
    BY <1>5, <1>9, <2>1 DEF Scales!RecvLamp
<1>10. CASE Scales!Skip
  BY <1>5, <1>10 DEF Scales!Skip
<1>11. CASE Scales!RecvRead
  BY <1>5, <1>11 DEF Scales!RecvRead
<1>12. CASE Scales!BeginCycle \/ Scales!TellDone
  BY <1>6, <1>12 DEF Scales!BeginCycle, Scales!TellDone, Scales!Cycle
<1>13. CASE Scales!EndCycle
  BY <1>6, <1>13 DEF Scales!EndCycle
<1>14. ASSUME NEW c \in Callers, Scales!GivesUp(c) \/ (\E ch \in Channels : Scales!AskTare(c,
              ch)) \/ \E ok \in BOOLEAN : Scales!Returns(c, ok)
       PROVE  ZeroInv'
  BY <1>1, <1>14 DEF Scales!GivesUp, Scales!AskTare, Scales!Returns
<1>15. CASE Scales!Enqueue \/ UNCHANGED Scales!vars
  BY <1>1, <1>15 DEF Scales!Enqueue, Scales!vars
<1>16. QED
  BY <1>3, <1>4, <1>7, <1>8, <1>9, <1>10, <1>11, <1>12, <1>13, <1>14, <1>15, ZeroTakes, ZeroTold,
     ZeroTared
     DEF Scales!Next, Scales!ReaderStep

(* No copy of a zero is of a later tare than the scale's own zero, unless  *)
(* that is one the Arduino took by itself.                                 *)
Ahead == /\ \A ch \in Channels :
              /\ zero[ch] = Scales!OwnZero \/ backup[ch] <= zero[ch]
              /\ backup[ch] <= tares[ch] /\ zero[ch] <= tares[ch]
         /\ \A i \in 1 .. Len(back) : \A ch \in Channels : back[i].zero[ch] <= zero[ch]

LEMMA AheadInit == Scales!Init => Ahead
<1> SUFFICES ASSUME Scales!Init PROVE Ahead
  OBVIOUS
<1>1. back = <<>> /\ \A ch \in Channels : tares[ch] = 0 /\ zero[ch] = 0 /\ backup[ch] = 0
  BY DEF Scales!Init, Scales!OwnZero
<1>2. QED
  BY <1>1 DEF Ahead

LEMMA AheadStep ==
  Scales!TypeOK /\ Scales!TypeOK' /\ Ahead /\ [Scales!Next]_(Scales!vars) => Ahead'
<1> SUFFICES ASSUME Scales!TypeOK, Scales!TypeOK', Ahead, [Scales!Next]_(Scales!vars)
             PROVE Ahead'
  OBVIOUS
<1> USE DEF Scales!callVars, Scales!lineVars, Scales!zeroVars
<1>t. /\ back \in Seq(Scales!Answers) /\ out \in Seq(Scales!Commands)
      /\ zero \in [Channels -> Nat] /\ backup \in [Channels -> Nat]
      /\ tares \in [Channels -> Nat]
  BY DEF Scales!TypeOK
<1>1. ASSUME UNCHANGED <<tares, zero, backup>>,
             \A i \in 1 .. Len(back') : \E j \in 1 .. Len(back) : back'[i] = back[j]
      PROVE  Ahead'
  BY <1>1 DEF Ahead
<1>2. CASE UNCHANGED <<tares, zero, backup, back>>
  BY <1>1, <1>2
<1>3. CASE back' = <<>> /\ UNCHANGED <<tares, zero, backup>>
  BY <1>1, <1>3
<1>4. CASE back # <<>> /\ back' = Tail(back) /\ UNCHANGED <<tares, zero, backup>>
  BY <1>1, <1>4, Shorter, <1>t
<1>5. CASE Scales!RecvTare
  <2> DEFINE m == Head(back)
  <2>1. /\ back # <<>> /\ back' = Tail(back) /\ UNCHANGED <<tares, zero>>
        /\ \A ch \in Channels : backup'[ch] = backup[ch] \/ backup'[ch] = m.zero[ch]
    BY <1>5 DEF Scales!RecvTare, Scales!Saved
  <2>2. \A ch \in Channels : m.zero[ch] <= zero[ch]
    BY <1>t, <2>1, Shorter DEF Ahead
  <2>3. \A i \in 1 .. Len(back') : \A ch \in Channels : back'[i].zero[ch] <= zero[ch]
    BY <1>t, <2>1, Shorter DEF Ahead
  <2> HIDE DEF m
  <2>4. m.zero \in [Channels -> Nat]
    BY <1>t, <2>1, Messages DEF Scales!Answers, m
  <2>5. ASSUME NEW ch \in Channels
        PROVE  /\ zero'[ch] = Scales!OwnZero \/ backup'[ch] <= zero'[ch]
               /\ backup'[ch] <= tares'[ch] /\ zero'[ch] <= tares'[ch]
    <3>1. /\ zero[ch] \in Nat /\ tares[ch] \in Nat /\ backup[ch] \in Nat
          /\ m.zero[ch] \in Nat /\ m.zero[ch] <= zero[ch]
      BY <1>t, <2>2, <2>4
    <3>2. QED
      BY <2>1, <3>1 DEF Ahead
  <2>6. QED
    BY <2>1, <2>3, <2>5 DEF Ahead
<1>6. CASE Scales!ArduinoStep
  <2> DEFINE m == Head(out)
  <2>1. m \in Scales!Commands /\ m.ch \in Channels /\ UNCHANGED backup
    BY <1>6, <1>t, Messages DEF Scales!ArduinoStep, Scales!Commands
  <2>0. Scales!Arduino(m) /\ zero' \in [Channels -> Nat]
    BY <1>6 DEF Scales!ArduinoStep, Scales!TypeOK
  <2> HIDE DEF m
  <2>2. PICK a : /\ back' = Append(back, a) /\ a.zero = zero' /\ a \in Scales!Answers
                 /\ \A ch \in Channels :
                      \/ zero'[ch] = zero[ch] /\ tares'[ch] = tares[ch]
                      \/ zero'[ch] = tares'[ch] /\ tares'[ch] = tares[ch] + 1
    <3>1. CASE /\ m.kind = "tare"
               /\ tares' = [tares EXCEPT ![m.ch] = @ + 1]
               /\ zero' = [zero EXCEPT ![m.ch] = tares'[m.ch]]
               /\ back' = Append(back, [kind |-> "tare", ch |-> m.ch, zero |-> zero'])
      <4> DEFINE a == [kind |-> "tare", ch |-> m.ch, zero |-> zero']
      <4>1. a \in Scales!Answers /\ a.zero = zero' /\ back' = Append(back, a)
        BY <2>0, <2>1, <3>1 DEF Scales!Answers
      <4>2. \A ch \in Channels : \/ zero'[ch] = zero[ch] /\ tares'[ch] = tares[ch]
                                 \/ zero'[ch] = tares'[ch] /\ tares'[ch] = tares[ch] + 1
        BY <1>t, <2>1, <3>1
      <4> HIDE DEF a
      <4>3. QED
        BY <4>1, <4>2
    <3>2. CASE /\ UNCHANGED <<tares, zero>>
               /\ back' = Append(back, [kind |-> IF m.kind = "tare" THEN "error" ELSE m.kind,
                                        ch |-> m.ch, zero |-> zero])
      <4> DEFINE a == [kind |-> IF m.kind = "tare" THEN "error" ELSE m.kind,
                       ch |-> m.ch, zero |-> zero]
      <4>1. a \in Scales!Answers /\ a.zero = zero' /\ back' = Append(back, a)
        BY <1>t, <2>1, <3>2 DEF Scales!Answers, Scales!Commands
      <4> HIDE DEF a
      <4>2. QED
        BY <3>2, <4>1
    <3>3. QED
      BY <2>0, <3>1, <3>2 DEF Scales!Arduino
  <2>4. ASSUME NEW ch \in Channels
        PROVE  /\ zero[ch] <= zero'[ch] /\ zero'[ch] <= tares'[ch] /\ zero'[ch] \in Nat
               /\ zero'[ch] = Scales!OwnZero \/ backup[ch] <= zero'[ch]
               /\ backup[ch] <= tares'[ch]
    <3>1. /\ zero[ch] \in Nat /\ tares[ch] \in Nat /\ backup[ch] \in Nat
          /\ zero[ch] = Scales!OwnZero \/ backup[ch] <= zero[ch]
          /\ backup[ch] <= tares[ch] /\ zero[ch] <= tares[ch]
      BY <1>t DEF Ahead
    <3>2. \/ zero'[ch] = zero[ch] /\ tares'[ch] = tares[ch]
          \/ zero'[ch] = tares'[ch] /\ tares'[ch] = tares[ch] + 1
      BY <2>2, Zenon
    <3>3. QED
      BY <3>1, <3>2
  <2>5. /\ Len(back') = Len(back) + 1 /\ Len(back) \in Nat
        /\ \A i \in 1 .. Len(back') : back'[i] = IF i <= Len(back) THEN back[i] ELSE a
    BY <1>t, <2>2
  <2>6. ASSUME NEW i \in 1 .. Len(back'), NEW ch \in Channels
        PROVE  back'[i].zero[ch] <= zero'[ch]
    <3>1. CASE i <= Len(back)
      <4>1. back'[i] = back[i] /\ back[i].zero[ch] <= zero[ch] /\ back[i] \in Scales!Answers
        BY <1>t, <2>5, <3>1 DEF Ahead
      <4>2. back[i].zero[ch] \in Nat /\ zero[ch] \in Nat
        BY <1>t, <4>1 DEF Scales!Answers
      <4>3. QED
        BY <2>4, <4>1, <4>2
    <3>2. CASE ~(i <= Len(back))
      BY <2>2, <2>4, <2>5, <3>2
    <3>3. QED
      BY <3>1, <3>2
  <2>7. QED
    BY <2>1, <2>4, <2>6 DEF Ahead
<1>7. CASE Scales!Restart
  <2>1. /\ back' = <<>> /\ UNCHANGED <<tares, backup>>
        /\ \A ch \in Channels : zero'[ch] \in {zero[ch], backup[ch], Scales!OwnZero}
    BY <1>7 DEF Scales!Restart, Scales!Zeros, Scales!Restored
  <2>2. ASSUME NEW ch \in Channels
        PROVE  /\ zero'[ch] = Scales!OwnZero \/ backup'[ch] <= zero'[ch]
               /\ backup'[ch] <= tares'[ch] /\ zero'[ch] <= tares'[ch]
    <3>1. zero[ch] \in Nat /\ tares[ch] \in Nat /\ backup[ch] \in Nat
      BY <1>t
    <3>2. QED
      BY <2>1, <3>1 DEF Ahead, Scales!OwnZero
  <2>3. QED
    BY <2>1, <2>2 DEF Ahead
<1>8. CASE Scales!ReaderStep /\ ~Scales!RecvTare
  BY <1>2, <1>3, <1>4, <1>8
  DEF Scales!ReaderStep, Scales!SendLamp, Scales!TakeRequest, Scales!BeginCycle, Scales!SendRead,
      Scales!EndCycle, Scales!Skip, Scales!RecvLamp, Scales!RecvRead, Scales!TellDone,
      Scales!RecvNothing, Scales!Send, Scales!Drained
<1>9. ASSUME NEW c \in Callers, Scales!GivesUp(c) \/ (\E ch \in Channels : Scales!AskTare(c,
             ch)) \/ \E ok \in BOOLEAN : Scales!Returns(c, ok)
      PROVE  Ahead'
  BY <1>2, <1>9 DEF Scales!GivesUp, Scales!AskTare, Scales!Returns
<1>10. CASE Scales!Enqueue \/ UNCHANGED Scales!vars
  BY <1>2, <1>10 DEF Scales!Enqueue, Scales!vars
<1>11. QED
  BY <1>5, <1>6, <1>7, <1>8, <1>9, <1>10 DEF Scales!Next

LEMMA ScalesPart == MCSpec => Scales!Spec
<1>1. MCInit => Scales!Init
  BY DEF MCInit
<1>2. [MCNext]_allVars => [Scales!Next]_(Scales!vars)
  BY DEF MCNext, allVars, scalesVars, Scales!vars, Scales!callVars, Scales!lineVars,
     Scales!zeroVars
<1>3. QED
  BY <1>1, <1>2, PTL DEF MCSpec, Scales!Spec

LEMMA ScalesHold == MCSpec => [](ScaleInv /\ ZeroInv /\ Ahead)
<1>1. ScaleInv /\ ZeroInv /\ Ahead /\ [Scales!Next]_(Scales!vars)
        => ScaleInv' /\ ZeroInv' /\ Ahead'
  BY ScaleTypes, ServedStep, ZeroStep, AheadStep DEF ScaleInv
<1>2. QED
  BY ScalesPart, ScaleInit, ZeroInit, AheadInit, <1>1, PTL DEF Scales!Spec

(* A tare that is reported to its only caller was done after the call and  *)
(* no older reading is handed out.  A zero outlives the program as long as *)
(* the driver heard of it, saved it and could send it back; if it could    *)
(* not, the scale has the Arduino's own zero, and never an older one.      *)
THEOREM TareIsReal == MCSpec => TareIsTrue
<1>1. ScaleInv => [\A c \in Callers :
        Scales!Returns(c, TRUE) /\ call[c].alone /\ ~doubt =>
          LET ch == call[c].ch IN
            tares[ch] > call[c].since
                  /\ (cached[ch] = Unread \/ cached[ch] > call[c].since)]_(Scales!vars)
  <2> SUFFICES ASSUME ScaleInv, NEW c \in Callers, Scales!Returns(c, TRUE), call[c].alone, ~doubt
               PROVE  LET ch == call[c].ch IN
                        /\ tares[ch] > call[c].since
                        /\ (cached[ch] = Unread \/ cached[ch] > call[c].since)
    OBVIOUS
  <2>1. SinceTared(c)
    BY DEF ScaleInv, Served, Scales!Returns, Asked, Tared, Told
  <2>2. QED
    BY <2>1 DEF SinceTared, Newer
<1>2. ScaleInv /\ ZeroInv /\ Ahead => Scales!ZeroSurvives
  BY DEF ScaleInv, Scales!TypeOK, ZeroInv, Known, Ahead, Scales!ZeroSurvives
<1>3. QED
  BY <1>1, <1>2, ScalesHold, PTL DEF TareIsTrue, Scales!TareIsTrue

-----------------------------------------------------------------------------
(* The types of all of them.                                               *)
LEMMA PaintPart == MCSpec => Paint!Spec
<1>1. MCInit => Paint!Init
  BY DEF MCInit
<1>2. [MCNext]_allVars => [Paint!Next]_(Paint!vars)
  BY DEF MCNext, allVars, mixingVars, Paint!vars, Paint!engineVars, Paint!startVars,
     Paint!screenVars, Paint!guideVars, Paint!shelfVars, Paint!scaleVars
<1>3. QED
  BY <1>1, <1>2, PTL DEF MCSpec, Paint!Spec

(* Every variable of every service keeps its type.                         *)
THEOREM ServicesTypeCorrect == MCSpec => []ServicesTypeOK
<1>1. MCSpec => []TypeOK
  BY AlarmPart, AlarmTypeCorrect, PTL
<1>2. MCSpec => []Stock!TypeOK
  <2>1. Stock!Spec => []Stock!TypeOK
    BY StockConstants, Stock!StockTypeCorrect
  <2>2. QED
    BY <2>1, StockPart, PTL
<1>3. MCSpec => []Scales!TypeOK
  <2>1. ScaleInv => Scales!TypeOK
    BY DEF ScaleInv
  <2>2. QED
    BY <2>1, ScalesHold, PTL
<1>4. MCSpec => []Alarms!TypeOK
  <2>1. Alarms!Spec => []Alarms!TypeOK
    BY AlarmsTypeCorrect
  <2>2. QED
    BY <2>1, AlarmsPart, PTL
<1>5. MCSpec => []Update!TypeOK
  <2>1. UpdateInv => Update!TypeOK
    BY DEF UpdateInv
  <2>2. QED
    BY <2>1, UpdateHolds, PTL
<1>6. MCSpec => []Upload!TypeOK
  <2>1. UploadInv => Upload!TypeOK
    BY DEF UploadInv
  <2>2. QED
    BY <2>1, UploadHolds, PTL
<1>7. MCSpec => []Paint!TypeOK
  <2>1. Paint!Spec => []Paint!TypeOK
    BY MixingConstants, Paint!MixingTypeCorrect
  <2>2. QED
    BY <2>1, PaintPart, PTL
<1>8. QED
  BY <1>1, <1>2, <1>3, <1>4, <1>5, <1>6, <1>7, PTL DEF ServicesTypeOK
=============================================================================
