--------------------------- MODULE AlarmLifecycle ---------------------------
(***************************************************************************)
(* The alarms of the system (core/alarm_manager.py), which a monitor       *)
(* thread raises and resolves every minute (core/system_monitor.py) and    *)
(* the crew acknowledges and resolves on the alarm screen                  *)
(* (ui_qt/screens/alarm.py).  Nothing locks the list of active alarms that *)
(* both threads work on.                                                   *)
(*                                                                         *)
(* The monitor's conditions are alike; this is one of them.  Alarms are    *)
(* numbered, and a number is used again when its alarm is over and         *)
(* forgotten.                                                              *)
(***************************************************************************)
EXTENDS Naturals, FiniteSets

CONSTANT MaxAlarms   \* how many alarms are there at a time

Ids     == 1 .. MaxAlarms
Threads == {"monitor", "ui"}
NoId    == 0
Events  == {"raised", "acknowledged", "resolved"}

VARIABLES
  bad,        \* does the monitor measure a value that calls for the alarm?
  active,     \* _active_alarms
  status,     \* Alarm.status
  row,        \* its row in alarm_log
  published,  \* how often is each event published for it, up to two
  recent,     \* was it raised less than COOLDOWN_S ago, by _last_raised?
  checked,    \* has a check come to its end?
  job         \* what each thread is doing

listVars == <<active, status>>
toldVars == <<row, published>>
vars == <<bad, listVars, toldVars, recent, checked, job>>

Resting == [pc |-> "idle", todo |-> {}, id |-> NoId]
Places == {"idle", "check", "save", "raised", "look", "take", "update", "resolved",
           "ack", "ack row", "acked"}
NotTold == [e \in Events |-> 0]

TypeOK ==
  /\ bad \in BOOLEAN /\ active \subseteq Ids
  /\ status \in [Ids -> {"active", "acknowledged", "resolved"}]
  /\ row \in [Ids -> {"none", "active", "acknowledged", "resolved"}]
  /\ published \in [Ids -> [Events -> 0 .. 2]]
  /\ recent \in BOOLEAN /\ checked \in BOOLEAN
  /\ job \in [Threads -> [pc : Places, todo : SUBSET Ids, id : Ids \cup {NoId}]]

Init ==
  /\ bad = FALSE /\ active = {}
  /\ status = [i \in Ids |-> "resolved"]
  /\ row = [i \in Ids |-> "none"] /\ published = [i \in Ids |-> NotTold]
  /\ recent = FALSE /\ checked = FALSE
  /\ job = [t \in Threads |-> Resting]

Go(t, new) == job' = [job EXCEPT ![t] = new]
GoOn(t, pc) == job' = [job EXCEPT ![t].pc = pc]
Tell(i, event) == published' = [published EXCEPT ![i][event] = IF @ < 2 THEN @ + 1 ELSE @]

(* The measured value changes.                                             *)
Change ==
  /\ bad' = ~bad
  /\ UNCHANGED <<listVars, toldVars, recent, checked, job>>

-----------------------------------------------------------------------------
(* check_all: the monitor's thread runs it once a minute, so that its own  *)
(* last alarm has cooled down; the health screen runs it on the UI thread  *)
(* if there has been no check yet.                                         *)
Begin(t) ==
  /\ job[t] = Resting
  /\ t = "ui" => ~checked
  /\ recent' = (recent /\ t # "monitor")
  /\ GoOn(t, "check")
  /\ UNCHANGED <<bad, listVars, toldVars, checked>>

(* raise_alarm, first part: an alarm for the same code is not raised again *)
(* before it has cooled down.  (An alarm that would be one too many for    *)
(* MaxAlarms is left out.)                                                 *)
Used == active \cup UNION {job[t].todo \cup {job[t].id} : t \in Threads}
Free == Ids \ Used

RaiseAlarm(t) ==
  /\ job[t].pc = "check" /\ bad /\ ~recent /\ Free # {}
  /\ recent' = TRUE
  /\ LET i == CHOOSE i \in Free : \A j \in Free : i <= j
     IN /\ active' = active \cup {i}
        /\ status' = [status EXCEPT ![i] = "active"]
        /\ row' = [row EXCEPT ![i] = "none"] /\ published' = [published EXCEPT ![i] = NotTold]
        /\ Go(t, [pc |-> "save", todo |-> {}, id |-> i])
  /\ UNCHANGED <<bad, checked>>

TooSoon(t) ==
  /\ job[t].pc = "check" /\ bad /\ (recent \/ Free = {})
  /\ Go(t, Resting) /\ checked' = TRUE
  /\ UNCHANGED <<bad, listVars, toldVars, recent>>

SaveAlarm(t) ==
  /\ job[t].pc = "save"
  /\ row' = [row EXCEPT ![job[t].id] = status[job[t].id]]
  /\ GoOn(t, "raised")
  /\ UNCHANGED <<bad, listVars, published, recent, checked>>

TellRaised(t) ==
  /\ job[t].pc = "raised"
  /\ Tell(job[t].id, "raised")
  /\ Go(t, Resting) /\ checked' = TRUE
  /\ UNCHANGED <<bad, listVars, row, recent>>

(* When the value is well again all alarms of its code are resolved.       *)
ResolveByCode(t) ==
  /\ job[t].pc = "check" /\ ~bad
  /\ Go(t, [pc |-> "look", todo |-> active, id |-> NoId])
  /\ UNCHANGED <<bad, listVars, toldVars, recent, checked>>

-----------------------------------------------------------------------------
(* resolve_alarm, for each of the alarms a thread has to do: the alarm is  *)
(* looked up in a copy of the list, and removed from the list.             *)
Look(t) ==
  /\ job[t].pc = "look"
  /\ IF job[t].todo = {}
       THEN Go(t, Resting) /\ checked' = TRUE
       ELSE /\ \E i \in job[t].todo :
                 Go(t, [pc |-> IF i \in active THEN "take" ELSE "look",
                        todo |-> job[t].todo \ {i}, id |-> i])
            /\ UNCHANGED checked
  /\ UNCHANGED <<bad, listVars, toldVars, recent>>

Removed_ActiveOnly(i) == IF status[i] = "active" THEN active \ {i} ELSE active
Removed(i) == active \ {i}

(* Removing what the other thread has removed raises an exception, which   *)
(* ends the check or the click.                                            *)
Take_IfThere(t) ==
  /\ job[t].pc = "take"
  /\ LET i == job[t].id IN
       /\ status' = [status EXCEPT ![i] = "resolved"]
       /\ active' = active \ {i} /\ GoOn(t, "update")
  /\ UNCHANGED <<bad, toldVars, recent, checked>>
Take(t) ==
  /\ job[t].pc = "take"
  /\ LET i == job[t].id IN
       /\ status' = [status EXCEPT ![i] = "resolved"]
       /\ IF i \in active
            THEN active' = Removed(i) /\ GoOn(t, "update")
            ELSE UNCHANGED active /\ Go(t, Resting)
  /\ UNCHANGED <<bad, toldVars, recent, checked>>

UpdateRow(t) ==
  /\ job[t].pc = "update"
  /\ LET i == job[t].id IN row' = [row EXCEPT ![i] = IF @ = "none" THEN @ ELSE "resolved"]
  /\ GoOn(t, "resolved")
  /\ UNCHANGED <<bad, listVars, published, recent, checked>>

TellResolved(t) ==
  /\ job[t].pc = "resolved"
  /\ Tell(job[t].id, "resolved")
  /\ GoOn(t, "look")
  /\ UNCHANGED <<bad, listVars, row, recent, checked>>

-----------------------------------------------------------------------------
(* The alarm screen.  The crew resolves one alarm, or all there are.       *)
Click(S) ==
  /\ job["ui"] = Resting /\ S # {}
  /\ Go("ui", [pc |-> "look", todo |-> S, id |-> NoId])
  /\ UNCHANGED <<bad, listVars, toldVars, recent, checked>>

(* acknowledge_alarm: the card of an acknowledged alarm has no button.     *)
Acknowledge(i) ==
  /\ job["ui"] = Resting /\ i \in active /\ status[i] = "active"
  /\ Go("ui", [pc |-> "ack", todo |-> {}, id |-> i])
  /\ UNCHANGED <<bad, listVars, toldVars, recent, checked>>

SetAcknowledged ==
  /\ job["ui"].pc = "ack" /\ GoOn("ui", "ack row")
  /\ status' = [status EXCEPT ![job["ui"].id] = "acknowledged"]
  /\ UNCHANGED <<bad, active, toldVars, recent, checked>>

AcknowledgeRow ==
  /\ job["ui"].pc = "ack row" /\ GoOn("ui", "acked")
  /\ row' = [row EXCEPT ![job["ui"].id] = IF @ = "none" THEN @ ELSE "acknowledged"]
  /\ UNCHANGED <<bad, listVars, published, recent, checked>>

TellAcknowledged ==
  /\ job["ui"].pc = "acked" /\ Go("ui", Resting)
  /\ Tell(job["ui"].id, "acknowledged")
  /\ UNCHANGED <<bad, listVars, row, recent, checked>>

AckStep == SetAcknowledged \/ AcknowledgeRow \/ TellAcknowledged

JobStep(t) == \/ RaiseAlarm(t) \/ TooSoon(t) \/ SaveAlarm(t) \/ TellRaised(t) \/ ResolveByCode(t)
              \/ Look(t) \/ Take(t) \/ UpdateRow(t) \/ TellResolved(t)

Next == \/ Change
        \/ \E t \in Threads : Begin(t) \/ JobStep(t)
        \/ AckStep
        \/ Click(active) \/ \E i \in active : Click({i}) \/ Acknowledge(i)

Spec == Init /\ [][Next]_vars

(* The monitor comes back every minute, and a check or a click ends.       *)
FairSpec == Spec /\ WF_vars(Begin("monitor") \/ JobStep("monitor"))
                 /\ WF_vars(JobStep("ui") \/ AckStep)

-----------------------------------------------------------------------------
(* Although both threads resolve alarms, perhaps the same one, the cloud   *)
(* is told once that an alarm is over.                                     *)
ResolvedOnce == \A i \in Ids : published[i]["resolved"] <= 1

(* When the value is well for good, the alarms go, acknowledged or not,    *)
(* and as long as it is not, there is an alarm time and again, whatever    *)
(* the crew resolves.                                                      *)
AlarmsFollow == /\ <>[]~bad => <>[](active = {})
                /\ <>[]bad => []<>(active # {})
=============================================================================
