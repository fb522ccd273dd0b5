------------------------------ MODULE OtaUpdate ------------------------------
(***************************************************************************)
(* Updates over the air (sync/update_manager.py), and the commands by      *)
(* which the cloud restarts the program (sync_engine.py).  An update is    *)
(* begun by whichever thread reads the cloud's configuration: the sync     *)
(* thread every few minutes, the WebSocket's thread on a config_update.    *)
(* It replaces the program's own files with git, tries whether they can    *)
(* be imported, flashes the Arduino and restarts the program.              *)
(*                                                                         *)
(* Releases are numbered and each has its own version.  That an update is  *)
(* in progress is looked up and noted in one step.                         *)
(***************************************************************************)
EXTENDS Naturals

CONSTANTS
  Releases,   \* the releases there are; 0 is installed
  Broken,     \* those that cannot be imported
  NoRelease,  \* no wish; no rollback point
  Unit        \* Restart= of the systemd unit: "always" or "on-failure", or "none"

UpdateAssumption ==
  0 \in Releases /\ Releases \subseteq Nat /\ NoRelease \notin Releases

Threads == {"sync", "ws"}

VARIABLES
  branch,          \* the release at the head of the remote branch
  wish,            \* the version the cloud's configuration asks for
  fetched,         \* origin/<branch>
  disk,            \* the release at HEAD
  whole,           \* do the files agree with HEAD?
  previousCommit,  \* _previous_commit
  updating,        \* _update_in_progress
  step,            \* a thread's place in apply_update
  alive,           \* the threads that have not ended
  up,              \* does the program run?
  running,         \* the release it was started from
  serial,          \* does it hold the Arduino's serial port?
  reported,        \* what the cloud was told last
  tried,           \* the releases that passed the verification
  remains          \* is what is on the disk the remains of an update that was cut
                   \* short, or that could not be rolled back?

cloudVars == <<branch, wish>>
diskVars  == <<fetched, disk, whole, tried, remains>>
procVars  == <<alive, up, running, serial>>
vars == <<cloudVars, diskVars, procVars, previousCommit, updating, step, reported>>

TypeOK ==
  /\ branch \in Releases /\ wish \in Releases \cup {NoRelease}
  /\ fetched \in Releases /\ disk \in Releases /\ whole \in BOOLEAN
  /\ previousCommit \in Releases \cup {NoRelease} /\ updating \in BOOLEAN
  /\ step \in [Threads -> {"idle", "begin", "fetch", "reset", "verify", "rollback",
                           "fail", "flash", "restart"}]
  /\ alive \subseteq Threads /\ up \in BOOLEAN /\ running \in Releases
  /\ serial \in BOOLEAN /\ reported \in {"none", "downloading", "applying", "failed", "completed"}
  /\ tried \subseteq Releases /\ remains \in BOOLEAN

Init ==
  /\ branch = 0 /\ wish = NoRelease
  /\ fetched = 0 /\ disk = 0 /\ whole = TRUE /\ previousCommit = NoRelease
  /\ updating = FALSE /\ step = [t \in Threads |-> "idle"]
  /\ alive = Threads /\ up = TRUE /\ running = 0 /\ serial = TRUE
  /\ reported = "none" /\ tried = {0} /\ remains = FALSE

At(t, place) == t \in alive /\ step[t] = place
Goto(t, place) == step' = [step EXCEPT ![t] = place]

(* A release is pushed, or an administrator asks for one.                  *)
Push(r) ==
  /\ r > branch /\ branch' = r
  /\ UNCHANGED <<wish, diskVars, procVars, previousCommit, updating, step, reported>>

Ask(r) ==
  /\ wish' = r
  /\ UNCHANGED <<branch, diskVars, procVars, previousCommit, updating, step, reported>>

-----------------------------------------------------------------------------
(* check_update: the version is read from the files, which need not be     *)
(* those that run.                                                         *)
CheckUpdate(t) ==
  /\ At(t, "idle") /\ wish # NoRelease
  /\ ~whole \/ wish # disk
  /\ Goto(t, "begin")
  /\ UNCHANGED <<cloudVars, diskVars, procVars, previousCommit, updating, reported>>

(* apply_update.  If git does not tell the commit there is no way back.    *)
Begin(t) ==
  /\ At(t, "begin") /\ ~updating
  /\ updating' = TRUE /\ previousCommit' \in {disk, NoRelease}
  /\ reported' = "downloading" /\ Goto(t, "fetch")
  /\ UNCHANGED <<cloudVars, diskVars, procVars>>

InProgress(t) ==
  /\ At(t, "begin") /\ updating /\ Goto(t, "idle")
  /\ UNCHANGED <<cloudVars, diskVars, procVars, previousCommit, updating, reported>>

GitFetch(t) ==
  /\ At(t, "fetch")
  /\ \/ fetched' = branch /\ Goto(t, "reset")
     \/ UNCHANGED fetched /\ Goto(t, "fail")
  /\ UNCHANGED <<cloudVars, disk, whole, tried, remains, procVars, previousCommit, updating, reported>>

(* A reset that takes more than a minute is killed half-way.               *)
GitReset(t) ==
  /\ At(t, "reset")
  /\ \/ /\ disk' = fetched /\ whole' = TRUE
        /\ reported' = "applying" /\ Goto(t, "verify") /\ UNCHANGED remains
     \/ UNCHANGED <<disk, whole, reported, remains>> /\ Goto(t, "fail")
     \/ whole' = FALSE /\ remains' = TRUE /\ UNCHANGED <<disk, reported>> /\ Goto(t, "fail")
  /\ UNCHANGED <<cloudVars, fetched, tried, procVars, previousCommit, updating>>

Verify_NoRollback(t) ==
  /\ At(t, "verify")
  /\ \/ /\ disk \notin Broken /\ Goto(t, "flash")
        /\ tried' = tried \cup {disk} /\ remains' = FALSE
     \/ Goto(t, "fail") /\ UNCHANGED <<tried, remains>>
  /\ UNCHANGED <<cloudVars, fetched, disk, whole, procVars, previousCommit, updating, reported>>
(* _verify_new_code.  It may also run out of time.                         *)
Verify(t) ==
  /\ At(t, "verify")
  /\ \/ /\ disk \notin Broken /\ Goto(t, "flash")
        /\ tried' = tried \cup {disk} /\ remains' = FALSE
     \/ Goto(t, "rollback") /\ UNCHANGED <<tried, remains>>
  /\ UNCHANGED <<cloudVars, fetched, disk, whole, procVars, previousCommit, updating, reported>>

(* An unexpected exception.                                                *)
Error(t) ==
  /\ \E place \in {"fetch", "reset", "verify", "flash"} : At(t, place)
  /\ Goto(t, "rollback")
  /\ UNCHANGED <<cloudVars, diskVars, procVars, previousCommit, updating, reported>>

(* rollback.                                                               *)
Rollback(t) ==
  /\ At(t, "rollback") /\ Goto(t, "fail")
  /\ \/ /\ previousCommit # NoRelease /\ disk' = previousCommit /\ whole' = TRUE
        /\ remains' = (previousCommit \notin tried)
     \/ /\ UNCHANGED disk /\ remains' = TRUE
        /\ whole' \in {whole, whole /\ previousCommit = NoRelease}
  /\ UNCHANGED <<cloudVars, fetched, tried, procVars, previousCommit, updating, reported>>

Fail(t) ==
  /\ At(t, "fail") /\ Goto(t, "idle")
  /\ reported' = "failed" /\ updating' = FALSE
  /\ UNCHANGED <<cloudVars, diskVars, procVars, previousCommit>>

(* If the firmware has changed the driver of the scales gives up the port; *)
(* whether flashing succeeds makes no difference to the update.            *)
Flash(t) ==
  /\ At(t, "flash") /\ Goto(t, "restart")
  /\ serial' \in {serial, FALSE} /\ reported' = "completed"
  /\ UNCHANGED <<cloudVars, diskVars, alive, up, running, previousCommit, updating>>

-----------------------------------------------------------------------------
(* The process ends, and git with it; the program starts from what is on   *)
(* the disk, if that can be imported.                                      *)
EndOfProcess ==
  /\ step' = [t \in Threads |-> "idle"] /\ updating' = FALSE /\ previousCommit' = NoRelease
  /\ whole' \in {whole, whole /\ \A t \in alive : step[t] \notin {"reset", "rollback"}}
  /\ remains' = (remains \/ whole' # whole \/ \E t \in alive : step[t] \in {"verify", "rollback"})
Start ==
  /\ running' = disk /\ up' = (whole' /\ disk \notin Broken)
  /\ alive' = (IF up' THEN Threads ELSE {}) /\ serial' = up'
Stay == up' = FALSE /\ alive' = {} /\ serial' = FALSE /\ UNCHANGED running

(* _restart_app.  Without systemd the process is replaced; under systemd   *)
(* it is to end, but SystemExit ends no more than the thread that raises   *)
(* it.                                                                     *)
RestartApp(t) ==
  /\ At(t, "restart")
  /\ IF Unit = "none"
       THEN EndOfProcess /\ Start
       ELSE /\ alive' = alive \ {t} /\ Goto(t, "idle") /\ updating' = FALSE
            /\ UNCHANGED <<whole, previousCommit, remains, up, running, serial>>
  /\ UNCHANGED <<cloudVars, fetched, disk, tried, reported>>

(* The command restart_app: _restart_application ends the process with the *)
(* exit status 0, whatever the other thread is doing.                      *)
RestartCommand(t) ==
  /\ At(t, "idle")
  /\ EndOfProcess /\ IF Unit = "always" THEN Start ELSE Stay
  /\ UNCHANGED <<cloudVars, fetched, disk, tried, reported>>

(* The power fails, or the crew starts the program again.                  *)
PowerCycle ==
  /\ EndOfProcess /\ Start
  /\ UNCHANGED <<cloudVars, fetched, disk, tried, reported>>

UpdateStep(t) ==
  \/ Begin(t) \/ InProgress(t) \/ GitFetch(t) \/ GitReset(t) \/ Verify(t) \/ Error(t)
  \/ Rollback(t) \/ Fail(t) \/ Flash(t) \/ RestartApp(t)

Next == \/ \E r \in Releases : Push(r) \/ Ask(r)
        \/ \E t \in Threads : CheckUpdate(t) \/ UpdateStep(t) \/ RestartCommand(t)
        \/ PowerCycle

Spec == Init /\ [][Next]_vars

(* What a thread has begun goes on.                                        *)
FairSpec == Spec /\ \A t \in Threads : WF_vars(UpdateStep(t))

-----------------------------------------------------------------------------
(* However an update ends, by success, failure, exception or a restart     *)
(* that came in between, with two threads that may begin one, it leaves    *)
(* files that were tried, unless it was cut short or could not be rolled   *)
(* back.                                                                   *)
TriedCodeStays == ~updating /\ ~remains => whole /\ disk \in tried

(* It does not stay so that the cloud was told an update is complete while *)
(* the program that runs is another: the sync engine says of the update's  *)
(* restart "If success, app restarts and we never get here".               *)
CompletedRuns == []<>(reported = "completed" /\ up => running = disk)
=============================================================================
