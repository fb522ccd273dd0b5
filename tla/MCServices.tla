----------------------------- MODULE MCServices -----------------------------
(***************************************************************************)
(* The services around the cabinet's core, for TLC: the weight alarm, the  *)
(* stock table, the scales' driver, the alarm manager, the updates, the    *)
(* uploads and mixing without RFID.  They share no variable, so            *)
(* nothing one of them does depends on how far another has come: each      *)
(* behaviour here is about one of them, its focus, and the others rest.    *)
(***************************************************************************)
EXTENDS WeightAlarm

CONSTANTS
  Paints, MaxChanges, AdminRemoves,
  Channels, Mix, Callers, NoChannel, Unread, MaxCalls, MaxLate, MaxQueue, MaxDrain, MaxStarts,
  MaxAlarms,
  Releases, Broken, NoRelease, Unit,
  MaxSessions, SessionLimit, MaxLogs, LogLimit,
  MaxPour, RatioBase, RatioHardener, Tolerance, Health, MaxMixes

VARIABLES
  focus,
  (* VesselStock *)
  stock, catalog, cloudCatalog, cloudList, edit, task, changes, owed, upset,
  (* ScaleDriver *)
  queued, request, done, result, call, calls, at, todo, drained, out, back, late, doubt,
  cached, tares, zero, backup, stored, missed, starts,
  (* AlarmLifecycle *)
  bad, active, status, row, published, recent, checked, job,
  (* OtaUpdate *)
  branch, wish, fetched, disk, whole, previousCommit, updating, step, alive, up, running,
  serial, reported, tried, remains,
  (* Uploads *)
  saved, acked, logged, marked, deleted, old, place, batch, net, wire, acks, cloudHas,
  cloudLogs,
  (* Mixing *)
  state, baseActual, hardenerActual, inSpec, lit, mixPage, phase, button, retry,
  guide, target, verified, tareThreads, mail, rfid, taken, removed, tracked, inside, offset,
  sessions, origin, loaded, stale

stockVars == <<stock, catalog, cloudCatalog, cloudList, edit, task, changes, owed, upset>>
scalesVars == <<queued, request, done, result, call, calls, at, todo, drained, out, back, late,
                doubt, cached, tares, zero, backup, stored, missed, starts>>
alarmsVars == <<bad, active, status, row, published, recent, checked, job>>
updateVars == <<branch, wish, fetched, disk, whole, previousCommit, updating, step, alive, up,
                running, serial, reported, tried, remains>>
uploadVars == <<saved, acked, logged, marked, deleted, old, place, batch, net, wire, acks,
                cloudHas, cloudLogs>>
mixingVars == <<state, baseActual, hardenerActual, inSpec, lit, mixPage, phase, button, retry,
                guide, target, verified, tareThreads, mail, rfid, taken, removed, tracked, inside, offset,
                sessions, origin, loaded, stale>>

(* Of two of them it is the theorems that are needed, too.                 *)
Stock   == INSTANCE VesselStock_proofs
Scales  == INSTANCE ScaleDriver
Alarms  == INSTANCE AlarmLifecycle
Update  == INSTANCE OtaUpdate
Upload  == INSTANCE Uploads
Paint   == INSTANCE Mixing_proofs WITH page <- mixPage, tares <- tareThreads, out <- taken,
                                MaxSessions <- MaxMixes

ASSUME StockConstants  == Stock!StockAssumption
ASSUME ScaleConstants  == Scales!ScaleAssumption
ASSUME MixingConstants == Paint!MixingAssumption
ASSUME UploadConstants == Upload!UploadAssumption
ASSUME UpdateConstants == Update!UpdateAssumption

Services == {"alarm", "stock", "scales", "alarms", "update", "uploads", "manual"}

MCInit ==
  /\ focus \in Services
  /\ Init /\ (focus # "alarm" => weight = 0)
  /\ Stock!Init /\ Scales!Init /\ Alarms!Init /\ Update!Init /\ Upload!Init
  /\ Paint!Init /\ offset = 0 /\ (rfid <=> focus # "manual")

(* The focus takes a step; everything but its own variables stays.  The    *)
(* focus "manual" is mixing with RFID down all the time.                   *)
MCNext ==
  \/ /\ focus = "alarm" /\ Next
     /\ UNCHANGED <<focus, stockVars, scalesVars, alarmsVars, updateVars, uploadVars,
                   mixingVars>>
  \/ /\ focus = "stock" /\ Stock!Next
     /\ UNCHANGED <<focus, vars, scalesVars, alarmsVars, updateVars, uploadVars,
                   mixingVars>>
  \/ /\ focus = "scales" /\ Scales!Next
     /\ UNCHANGED <<focus, vars, stockVars, alarmsVars, updateVars, uploadVars,
                   mixingVars>>
  \/ /\ focus = "alarms" /\ Alarms!Next
     /\ UNCHANGED <<focus, vars, stockVars, scalesVars, updateVars, uploadVars,
                   mixingVars>>
  \/ /\ focus = "update" /\ Update!Next
     /\ UNCHANGED <<focus, vars, stockVars, scalesVars, alarmsVars, uploadVars,
                   mixingVars>>
  \/ /\ focus = "uploads" /\ Upload!Next
     /\ UNCHANGED <<focus, vars, stockVars, scalesVars, alarmsVars, updateVars,
                   mixingVars>>
  \/ /\ focus = "manual" /\ Paint!Next /\ ~rfid'
     /\ UNCHANGED <<focus, vars, stockVars, scalesVars, alarmsVars, updateVars,
                   uploadVars>>

allVars == <<focus, vars, stockVars, scalesVars, alarmsVars, updateVars, uploadVars,
                   mixingVars>>

(* Each service is as fair as its own module says, while it is the focus.  *)
MCFairness ==
  /\ WF_vars(focus = "alarm" /\ HwStep) /\ WF_vars(focus = "alarm" /\ UiStep)
  /\ SF_vars(focus = "alarm" /\ Tick)
  /\ WF_vars(focus = "alarm" /\ elapsed = ScanTimeout /\ ClosePopup)
  /\ WF_stockVars(focus = "stock" /\ (Stock!Fetch("sync") \/ Stock!ConfigStep("sync")))
  /\ WF_stockVars(focus = "stock" /\ Stock!ConfigStep("ws"))
  /\ WF_scalesVars(focus = "scales" /\ Scales!ReaderStep)
  /\ WF_scalesVars(focus = "scales" /\ Scales!ArduinoStep)
  /\ WF_alarmsVars(focus = "alarms" /\ (Alarms!Begin("monitor") \/ Alarms!JobStep("monitor")))
  /\ WF_alarmsVars(focus = "alarms" /\ (Alarms!JobStep("ui") \/ Alarms!AckStep))
  /\ \A t \in Update!Threads : WF_updateVars(focus = "update" /\ Update!UpdateStep(t))
  /\ WF_uploadVars(focus = "uploads" /\ Upload!SyncStep)
  /\ WF_uploadVars(focus = "uploads" /\ Upload!CloudTakes)
  /\ WF_uploadVars(focus = "uploads" /\ Upload!HandleWsAck)
  /\ WF_mixingVars(focus = "manual" /\ (Paint!ScreenGoesOn \/ Paint!CrewFollows))
  /\ SF_mixingVars(focus = "manual" /\ Paint!TareSucceeds)

MCSpec == MCInit /\ [][MCNext]_allVars /\ MCFairness

-----------------------------------------------------------------------------
ServicesTypeOK == /\ TypeOK /\ Stock!TypeOK /\ Scales!TypeOK 
                  /\ Alarms!TypeOK /\ Update!TypeOK /\ Upload!TypeOK /\ Paint!TypeOK

(* The properties of VesselStock, ScaleDriver, AlarmLifecycle, *)
(* OtaUpdate, Uploads and Mixing, as they are stated there.                *)
StockAddsUp      == Stock!StockAddsUp
TareIsTrue       == Scales!TareIsTrue /\ []Scales!ZeroSurvives
ResolvedOnce     == Alarms!ResolvedOnce
TriedCodeStays   == Update!TriedCodeStays
NothingForgotten == Upload!NothingForgotten

(* Bound: what comes of a mix-up is not explored.                          *)
NotStale == Paint!NotStale

(* With RFID down all the time, every step of a session can be confirmed   *)
(* by hand, tares that fail included: it gets through the pouring, unless  *)
(* the crew aborts it or leaves the screen.                                *)
ManualSessionProceeds ==
  []<>(focus = "manual" => state \notin Paint!Pours \/ mixPage # "pour")

(* What a service has taken on it brings to its end: a tare that was asked *)
(* for is carried out, a stock row under a mere code becomes a product's   *)
(* or goes, an update reported as complete is what runs, alarms follow     *)
(* what is measured and what was stored for the cloud arrives there.       *)
ServicesProgress == /\ Scales!TareIsServed /\ Stock!CodesGo /\ Update!CompletedRuns
                    /\ Alarms!AlarmsFollow /\ Upload!UploadsArrive

(* The weight alarm: every alarm is told of, and only for a change that    *)
(* has lasted.                                                             *)
AlarmsAreTrue == NoAlarmUntold /\ OnlySustainedChanges

(* The weight alarm: a change that lasts raises one, and every alarm ends. *)
AlarmsComeAndGo == LastingChangeAlarms /\ AlarmEnds
=============================================================================
