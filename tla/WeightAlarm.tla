----------------------------- MODULE WeightAlarm -----------------------------
(***************************************************************************)
(* The fallback of core/inventory_engine.py while RFID is down: a change   *)
(* of the shelf weight that persists raises an alarm, and the crew has     *)
(* thirty seconds to scan the can's barcode before the change is logged as *)
(* unauthorized.  The hardware thread raises the alarm and lets it expire, *)
(* the UI thread resolves it; they share the alarm's fields without a      *)
(* lock.  The build has one shelf, so there is one weight.                 *)
(*                                                                         *)
(* The hardware thread takes one step per statement that the UI thread can *)
(* come between, and so does the UI thread.  Every handler ends before the *)
(* next tick of the clock, which is several seconds long.                  *)
(***************************************************************************)
EXTENDS Integers

CONSTANTS
  MaxWeight,      \* the weights of the shelf are 0 .. MaxWeight
  Threshold,      \* _weight_drop_threshold_g, = _weight_rise_threshold_g
  NoWeight,       \* the baseline before the first reading
  Sustain,        \* WEIGHT_SUSTAIN_S, in ticks
  ScanTimeout,    \* BARCODE_SCAN_TIMEOUT_S, in ticks
  StockLoading    \* does the crew open the stock-loading screen?

Weights == 0 .. MaxWeight

ASSUME ThresholdAssumption == MaxWeight \in Nat /\ Threshold \in Nat
ASSUME NoWeightAssumption == NoWeight \notin Weights
ASSUME TimeAssumption == Sustain \in Nat \ {0} /\ ScanTimeout \in Nat \ {0}
ASSUME ScreenAssumption == StockLoading \in BOOLEAN

VARIABLES
  weight,       \* the weight on the shelf
  rfidHealthy,  \* _rfid_healthy
  loading,      \* stock_loading_mode
  baseline,     \* _last_shelf_weights
  detected,     \* is the shelf in _weight_change_detected_at?
  since,        \* ticks since that detection
  pending,      \* _pending_weight_alarm
  elapsed,      \* ticks since _weight_alarm_time, up to ScanTimeout
  buzzer,       \* what the buzzer plays
  popup,        \* is the alarm popup open?
  hw,           \* the hardware thread's place in poll
  ui,           \* the UI thread's place in the barcode handler
  told,         \* the events published since the alarm was raised
  raised,       \* has an alarm been raised and not yet cleared?
  off           \* ticks since the weight was near the baseline, unless loading

crewVars  == <<weight, rfidHealthy, loading>>
watchVars == <<baseline, detected, since>>
alarmVars == <<pending, elapsed, buzzer, told, raised>>
vars == <<crewVars, watchVars, alarmVars, popup, hw, ui, off>>

TypeOK ==
  /\ weight \in Weights /\ rfidHealthy \in BOOLEAN /\ loading \in BOOLEAN
  /\ baseline \in Weights \cup {NoWeight}
  /\ detected \in BOOLEAN /\ since \in 0 .. Sustain
  /\ pending \in BOOLEAN /\ elapsed \in 0 .. ScanTimeout
  /\ buzzer \in {"quiet", "alarm", "confirm"}
  /\ popup \in BOOLEAN
  /\ hw \in {"poll", "check", "expired", "clear", "silence", "weigh", "ring"}
  /\ ui \in {"idle", "resolve", "publish", "clear", "silence", "confirm"}
  /\ told \subseteq {"resolved", "unauthorized"}
  /\ raised \in BOOLEAN
  /\ off \in 0 .. Sustain

Init ==
  /\ weight \in Weights /\ rfidHealthy = TRUE /\ loading = FALSE
  /\ baseline = NoWeight /\ detected = FALSE /\ since = 0
  /\ pending = FALSE /\ elapsed = ScanTimeout
  /\ buzzer = "quiet" /\ popup = FALSE
  /\ hw = "poll" /\ ui = "idle"
  /\ told = {} /\ raised = FALSE /\ off = 0

(* The changes the monitor looks for, up and down alike.                   *)
Significant(w, b) == b # NoWeight /\ (w - b > Threshold \/ b - w > Threshold)

-----------------------------------------------------------------------------
(* The hardware thread: poll asks the RFID driver for its health, and      *)
(* _check_weight_alarm_timeout reads the flag and then the alarm's time.   *)
CheckPending ==
  /\ hw = "poll"
  /\ rfidHealthy' \in BOOLEAN
  /\ hw' = IF pending THEN "check" ELSE "weigh"
  /\ UNCHANGED <<weight, loading, watchVars, alarmVars, popup, ui, off>>

CheckElapsed_NoEvent ==
  /\ hw = "check"
  /\ hw' = IF elapsed < ScanTimeout THEN "weigh" ELSE "clear"
  /\ UNCHANGED <<crewVars, watchVars, alarmVars, popup, ui, off>>
CheckElapsed_Late ==
  /\ hw = "check"
  /\ hw' = IF elapsed <= ScanTimeout THEN "weigh" ELSE "expired"
  /\ UNCHANGED <<crewVars, watchVars, alarmVars, popup, ui, off>>
CheckElapsed ==
  /\ hw = "check"
  /\ hw' = IF elapsed < ScanTimeout THEN "weigh" ELSE "expired"
  /\ UNCHANGED <<crewVars, watchVars, alarmVars, popup, ui, off>>

PublishUnauthorized ==
  /\ hw = "expired" /\ hw' = "clear"
  /\ told' = told \cup {"unauthorized"}
  /\ UNCHANGED <<crewVars, watchVars, pending, elapsed, buzzer, raised, popup, ui, off>>

(* _clear_weight_alarm, called by either thread.  The time 0.0 it stores   *)
(* makes any alarm look expired.                                           *)
Clear == /\ pending' = FALSE /\ elapsed' = ScanTimeout /\ raised' = FALSE
         /\ UNCHANGED <<buzzer, told>>
Silence_Not == UNCHANGED alarmVars
Silence == buzzer' = "quiet" /\ UNCHANGED <<pending, elapsed, told, raised>>

ExpireClear ==
  /\ hw = "clear" /\ hw' = "silence" /\ Clear
  /\ UNCHANGED <<crewVars, watchVars, popup, ui, off>>

ExpireSilence ==
  /\ hw = "silence" /\ hw' = "weigh" /\ Silence
  /\ UNCHANGED <<crewVars, watchVars, popup, ui, off>>

(* _process_weight_reading.                                                *)
FirstReading ==
  /\ hw = "weigh" /\ baseline = NoWeight
  /\ baseline' = weight
  /\ off' = 0
  /\ hw' = "poll"
  /\ UNCHANGED <<crewVars, detected, since, alarmVars, popup, ui>>

watching == ~rfidHealthy /\ ~pending /\ ~loading

Detect ==
  /\ hw = "weigh" /\ watching
  /\ Significant(weight, baseline) /\ ~detected
  /\ detected' = TRUE /\ since' = 0
  /\ hw' = "poll"
  /\ UNCHANGED <<crewVars, baseline, alarmVars, popup, ui, off>>

KeepWaiting_Restarts ==
  /\ hw = "weigh" /\ watching
  /\ Significant(weight, baseline) /\ detected /\ since < Sustain
  /\ since' = 0
  /\ hw' = "poll"
  /\ UNCHANGED <<crewVars, baseline, detected, alarmVars, popup, ui, off>>
KeepWaiting ==
  /\ hw = "weigh" /\ watching
  /\ Significant(weight, baseline) /\ detected /\ since < Sustain
  /\ hw' = "poll"
  /\ UNCHANGED <<crewVars, watchVars, alarmVars, popup, ui, off>>

(* The flag and the time are set before the buzzer starts.                 *)
Trigger ==
  /\ hw = "weigh" /\ watching
  /\ Significant(weight, baseline) /\ detected /\ since >= Sustain
  /\ pending' = TRUE /\ elapsed' = 0 /\ raised' = TRUE /\ told' = {}
  /\ baseline' = weight /\ detected' = FALSE /\ since' = 0 /\ off' = 0
  /\ hw' = "ring"
  /\ UNCHANGED <<crewVars, buzzer, popup, ui>>

Ring ==
  /\ hw = "ring" /\ hw' = "poll"
  /\ buzzer' = "alarm" /\ popup' = TRUE
  /\ UNCHANGED <<crewVars, watchVars, pending, elapsed, told, raised, ui, off>>

Revert_KeepsDetection == UNCHANGED <<detected, since>>
Revert == detected' = FALSE /\ since' = 0

Settle ==
  /\ hw = "weigh" /\ watching /\ baseline # NoWeight
  /\ ~Significant(weight, baseline)
  /\ Revert
  /\ hw' = "poll"
  /\ UNCHANGED <<crewVars, baseline, alarmVars, popup, ui, off>>

(* While RFID works the baseline follows the weight; an unstable reading   *)
(* that is close to it leaves it alone.                                    *)
Followed_Difference == {weight - baseline}
Followed == {weight} \cup (IF Significant(weight, baseline) THEN {} ELSE {baseline})

Follow ==
  /\ hw = "weigh" /\ rfidHealthy /\ ~pending /\ baseline # NoWeight
  /\ baseline' \in Followed
  /\ off' = 0
  /\ Revert
  /\ hw' = "poll"
  /\ UNCHANGED <<crewVars, alarmVars, popup, ui>>

(* Neither branch applies: an alarm is pending, or cans are being loaded   *)
(* while RFID is down.  A detection that has begun is left as it is.       *)
LookAway ==
  /\ hw = "weigh" /\ baseline # NoWeight
  /\ ~watching /\ ~(rfidHealthy /\ ~pending)
  /\ hw' = "poll"
  /\ UNCHANGED <<crewVars, watchVars, alarmVars, popup, ui, off>>

HwStep == \/ CheckPending \/ CheckElapsed \/ PublishUnauthorized \/ ExpireClear
          \/ ExpireSilence \/ FirstReading \/ Detect \/ KeepWaiting \/ Trigger
          \/ Ring \/ Settle \/ Follow \/ LookAway

-----------------------------------------------------------------------------
(* The UI thread: a barcode resolves the alarm if its popup is open and    *)
(* the flag is set; resolve_weight_alarm looks at the flag once more.      *)
Scan ==
  /\ ui = "idle" /\ popup /\ pending
  /\ ui' = "resolve"
  /\ UNCHANGED <<crewVars, watchVars, alarmVars, popup, hw, off>>

Resolve ==
  /\ ui = "resolve"
  /\ ui' = IF pending THEN "publish" ELSE "idle"
  /\ popup' = (popup /\ pending)
  /\ UNCHANGED <<crewVars, watchVars, alarmVars, hw, off>>

(* The event and the change of the vessel's stock.                         *)
PublishResolved ==
  /\ ui = "publish" /\ ui' = "clear"
  /\ told' = told \cup {"resolved"}
  /\ UNCHANGED <<crewVars, watchVars, pending, elapsed, buzzer, raised, popup, hw, off>>

ResolveClear ==
  /\ ui = "clear" /\ ui' = "silence" /\ Clear
  /\ UNCHANGED <<crewVars, watchVars, popup, hw, off>>

ResolveSilence ==
  /\ ui = "silence" /\ ui' = "confirm" /\ Silence
  /\ UNCHANGED <<crewVars, watchVars, popup, hw, off>>

(* The confirming beep; the popup closes two seconds later.                *)
Confirm ==
  /\ ui = "confirm" /\ ui' = "idle"
  /\ buzzer' = "confirm" /\ popup' = FALSE
  /\ UNCHANGED <<crewVars, watchVars, pending, elapsed, told, raised, hw, off>>

(* The crew skips the popup, or its own countdown ends.                    *)
ClosePopup ==
  /\ ui = "idle" /\ popup
  /\ popup' = FALSE
  /\ UNCHANGED <<crewVars, watchVars, alarmVars, hw, ui, off>>

UiStep == Resolve \/ PublishResolved \/ ResolveClear \/ ResolveSilence \/ Confirm

-----------------------------------------------------------------------------
(* A poll has seen the weight as it is, where the monitor looks at it.     *)
Seen == watching => (detected <=> Significant(weight, baseline))
Sampled == hw = "poll" /\ Seen

(* The crew leaves time for a poll between two changes.                    *)
Handle(w) ==
  /\ Sampled
  /\ weight' = w
  /\ off' = IF loading \/ Significant(w, baseline) THEN off ELSE 0
  /\ UNCHANGED <<rfidHealthy, loading, watchVars, alarmVars, popup, hw, ui>>

(* Opening the screen takes the crew longer than a poll.                   *)
SwitchLoading ==
  /\ StockLoading /\ ui = "idle" /\ Seen
  /\ loading' = ~loading
  /\ off' = IF loading /\ ~Significant(weight, baseline) THEN 0 ELSE off
  /\ UNCHANGED <<weight, rfidHealthy, watchVars, alarmVars, popup, hw, ui>>

Later(n, max) == IF n < max THEN n + 1 ELSE n

(* Several seconds pass: polls have run, the threads have finished what    *)
(* they were doing, and the popup counts the same seconds as the engine.   *)
Tick ==
  /\ Sampled /\ ui = "idle"
  /\ popup => elapsed < ScanTimeout
  /\ since' = IF detected THEN Later(since, Sustain) ELSE 0
  /\ elapsed' = Later(elapsed, ScanTimeout)
  /\ off' = IF loading \/ Significant(weight, baseline) THEN Later(off, Sustain) ELSE 0
  /\ UNCHANGED <<crewVars, baseline, detected, pending, buzzer, told, raised, popup, hw, ui>>

Crew == \/ \E w \in Weights : Handle(w)
        \/ SwitchLoading \/ Scan \/ ClosePopup

Next == HwStep \/ UiStep \/ Crew \/ Tick

Spec == Init /\ [][Next]_vars

(* The worker loops, a UI handler and the popup's countdown run to their   *)
(* end, and time passes.                                                   *)
FairSpec == /\ Spec
            /\ WF_vars(HwStep) /\ WF_vars(UiStep) /\ SF_vars(Tick)
            /\ WF_vars(elapsed = ScanTimeout /\ ClosePopup)

-----------------------------------------------------------------------------
threadsIdle == hw = "poll" /\ ui = "idle"

(* An alarm never ends untold: whichever thread clears it has published    *)
(* what became of it.                                                      *)
NoAlarmUntold == [][raised /\ ~raised' => told # {}]_vars

(* The buzzer sounds the alarm exactly while one is pending.               *)
BuzzerMatchesAlarm == threadsIdle => (pending <=> buzzer = "alarm")

(* An alarm is raised only by a change that has lasted WEIGHT_SUSTAIN_S:   *)
(* outside stock loading, the weight has not been near the baseline since. *)
(* (A detection survives stock loading; what the weight does meanwhile is  *)
(* not looked at.)                                                         *)
OnlySustainedChanges == [][raised' /\ ~raised => off >= Sustain]_vars

(* A change that lasts, while RFID is down and nobody loads stock, is told *)
(* to the crew.                                                            *)
LastingChangeAlarms ==
  []<>(raised \/ rfidHealthy \/ loading \/ ~Significant(weight, baseline))

(* Every alarm ends, by a barcode or by the thirty seconds.                *)
AlarmEnds == []<>~pending
=============================================================================
