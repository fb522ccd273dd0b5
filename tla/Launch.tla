-------------------------------- MODULE Launch --------------------------------
(***************************************************************************)
(* The processes of a cabinet: a launcher (launcher.py) starts the daemon  *)
(* that has the hardware (hw_daemon.py, main and start) and the UI, which  *)
(* is the daemon's client or, if it cannot connect, runs without hardware  *)
(* (ui_qt/app.py, _init_system).  Launchers may be started twice, and be   *)
(* killed.  What is said on the connection is in DaemonLink.               *)
(*                                                                         *)
(* A process keeps its TCP port until it is gone.  The launcher's other    *)
(* mode, without a daemon, looks for none and is left out, as is a daemon  *)
(* started by hand.                                                        *)
(***************************************************************************)
EXTENDS FiniteSets

CONSTANTS
  Launchers,   \* the launchers that may run
  Daemons,     \* the daemons there may be at a time
  NoDaemon     \* none

LaunchAssumption == NoDaemon \notin Daemons

VARIABLES
  step,        \* where is each launcher?
  own,         \* its daemon_proc
  daemon,      \* how far is each daemon?
  bound,       \* the one that listens on the TCP port
  ui,          \* the UI of each launcher
  conn,        \* the daemon that UI is connected to
  gaveUp,      \* history: the launchers that waited in vain for their daemon
  gone         \* history: those since whose look at the port a listener ended

launcherVars == <<step, own>>
daemonVars == <<daemon, bound>>
uiVars == <<ui, conn>>
historyVars == <<gaveUp, gone>>
vars == <<launcherVars, daemonVars, uiVars, historyVars>>

Someone == Daemons \cup {NoDaemon}

TypeOK ==
  /\ step \in [Launchers -> {"off", "check", "wait", "start", "ui", "stop", "kill"}]
  /\ own \in [Launchers -> Someone]
  /\ daemon \in [Daemons -> {"none", "loading", "init", "serving", "stopping"}]
  /\ bound \in Someone
  /\ ui \in [Launchers -> {"none", "client", "fake", "cut"}]
  /\ conn \in [Launchers -> Someone]
  /\ gaveUp \subseteq Launchers /\ gone \subseteq Launchers

Init ==
  /\ step = [l \in Launchers |-> "off"] /\ own = [l \in Launchers |-> NoDaemon]
  /\ daemon = [d \in Daemons |-> "none"] /\ bound = NoDaemon
  /\ ui = [l \in Launchers |-> "none"] /\ conn = [l \in Launchers |-> NoDaemon]
  /\ gaveUp = {} /\ gone = {}

Goto(l, s) == step' = [step EXCEPT ![l] = s]

-----------------------------------------------------------------------------
(* The launcher looks whether a daemon listens, and starts one if not.     *)
Begin(l) ==
  /\ step[l] = "off" /\ Goto(l, "check")
  /\ gaveUp' = gaveUp \ {l} /\ gone' = gone \ {l}
  /\ UNCHANGED <<own, daemonVars, uiVars>>

UseRunning(l) ==
  /\ step[l] = "check" /\ bound # NoDaemon /\ Goto(l, "start")
  /\ UNCHANGED <<own, daemonVars, uiVars, historyVars>>

StartDaemon(l, d) ==
  /\ step[l] = "check" /\ bound = NoDaemon
  /\ daemon[d] = "none" /\ \A k \in Launchers : own[k] # d
  /\ daemon' = [daemon EXCEPT ![d] = "loading"] /\ own' = [own EXCEPT ![l] = d]
  /\ Goto(l, "wait")
  /\ UNCHANGED <<bound, uiVars, historyVars>>

(* wait_for_daemon: until one listens, or 15 s have passed.                *)
Waited == bound # NoDaemon

DaemonAnswers(l) ==
  /\ step[l] = "wait" /\ Waited /\ Goto(l, "start")
  /\ UNCHANGED <<own, daemonVars, uiVars, historyVars>>

WaitEnds(l) ==
  /\ step[l] = "wait" /\ Goto(l, "start")
  /\ gaveUp' = gaveUp \cup {l}
  /\ UNCHANGED <<own, daemonVars, uiVars, gone>>

(* The UI connects, or takes drivers without hardware.                     *)
Connected == IF bound # NoDaemon THEN "client" ELSE "fake"

StartUi(l) ==
  /\ step[l] = "start" /\ Goto(l, "ui")
  /\ ui' = [ui EXCEPT ![l] = Connected] /\ conn' = [conn EXCEPT ![l] = bound]
  /\ UNCHANGED <<own, daemonVars, historyVars>>

-----------------------------------------------------------------------------
(* The daemon makes its drivers, and listens before it touches any         *)
(* hardware.  One that cannot listen ends.                                 *)
MayListen_Always == TRUE
MayListen == bound = NoDaemon

Listen(d) ==
  /\ daemon[d] = "loading" /\ MayListen
  /\ daemon' = [daemon EXCEPT ![d] = "init"] /\ bound' = d
  /\ UNCHANGED <<launcherVars, uiVars, historyVars>>

CannotListen(d) ==
  /\ daemon[d] = "loading" /\ bound # NoDaemon
  /\ daemon' = [daemon EXCEPT ![d] = "none"]
  /\ UNCHANGED <<launcherVars, bound, uiVars, historyVars>>

InitHardware(d) ==
  /\ daemon[d] = "init" /\ daemon' = [daemon EXCEPT ![d] = "serving"]
  /\ UNCHANGED <<launcherVars, bound, uiVars, historyVars>>

(* A daemon's process is gone, and its clients have lost the hardware.     *)
Cut(d) == [l \in Launchers |-> IF ui[l] = "client" /\ conn[l] = d THEN "cut" ELSE ui[l]]

Gone(d) ==
  /\ daemon' = [daemon EXCEPT ![d] = "none"]
  /\ bound' = IF bound = d THEN NoDaemon ELSE bound
  /\ gone' = IF bound = d THEN gone \cup {l \in Launchers : step[l] # "off"} ELSE gone

(* It ends after a signal, which breaks its event loop off, or by itself.  *)
DaemonEnds(d) ==
  /\ daemon[d] # "none"
  /\ Gone(d) /\ ui' = Cut(d)
  /\ UNCHANGED <<launcherVars, conn, gaveUp>>

-----------------------------------------------------------------------------
(* The crew closes the UI, or interrupts the launcher before there is one. *)
CloseUi(l) ==
  /\ step[l] \in {"check", "wait", "start", "ui"} /\ Goto(l, "stop")
  /\ ui' = [ui EXCEPT ![l] = "none"] /\ conn' = [conn EXCEPT ![l] = NoDaemon]
  /\ UNCHANGED <<own, daemonVars, historyVars>>

(* The launcher stops the daemon it started, if that still runs.  While it *)
(* makes its drivers the daemon knows no signal and ends at once.          *)
Terminate(l) ==
  /\ step[l] = "stop"
  /\ LET d == own[l] IN
       IF d # NoDaemon /\ daemon[d] # "none"
         THEN /\ daemon' = [daemon EXCEPT ![d] = IF @ = "loading" THEN "none" ELSE "stopping"]
              /\ Goto(l, "kill") /\ UNCHANGED own
         ELSE /\ UNCHANGED daemon
              /\ Goto(l, "off") /\ own' = [own EXCEPT ![l] = NoDaemon]
  /\ UNCHANGED <<bound, uiVars, historyVars>>

(* It waits until the daemon is gone, and kills it after 3 s.              *)
StopEnds(l) ==
  /\ step[l] = "kill" /\ Goto(l, "off") /\ own' = [own EXCEPT ![l] = NoDaemon]
  /\ IF daemon[own[l]] = "none"
       THEN UNCHANGED <<daemonVars, ui, gone>>
       ELSE Gone(own[l]) /\ ui' = Cut(own[l])
  /\ UNCHANGED <<conn, gaveUp>>

(* The launcher is killed, and its UI; the daemon stays.                   *)
LauncherDies(l) ==
  /\ step[l] # "off" /\ Goto(l, "off") /\ own' = [own EXCEPT ![l] = NoDaemon]
  /\ ui' = [ui EXCEPT ![l] = "none"] /\ conn' = [conn EXCEPT ![l] = NoDaemon]
  /\ UNCHANGED <<daemonVars, historyVars>>

Next ==
  \/ \E l \in Launchers :
       \/ Begin(l) \/ UseRunning(l) \/ DaemonAnswers(l) \/ WaitEnds(l) \/ StartUi(l)
       \/ CloseUi(l) \/ Terminate(l) \/ StopEnds(l) \/ LauncherDies(l)
       \/ \E d \in Daemons : StartDaemon(l, d)
  \/ \E d \in Daemons : Listen(d) \/ CannotListen(d) \/ InitHardware(d) \/ DaemonEnds(d)

Spec == Init /\ [][Next]_vars

-----------------------------------------------------------------------------
(* No two daemons have the hardware, whoever starts, is killed or starts   *)
(* again.                                                                  *)
Drives(d) == daemon[d] \in {"init", "serving", "stopping"}
OneDaemonDrives == \A d, e \in Daemons : Drives(d) /\ Drives(e) => d = e

(* A UI is without hardware only if its launcher waited in vain for a      *)
(* daemon, or a daemon that listened has ended since the launcher looked.  *)
UiHasHardware ==
  \A l \in Launchers : ui[l] \in {"fake", "cut"} => l \in gaveUp \cup gone

(* A UI that has not noticed otherwise is connected to the daemon that     *)
(* listens, and that one drives the hardware.                              *)
ClientsAreServed ==
  \A l \in Launchers : ui[l] = "client" => conn[l] = bound /\ Drives(bound)
=============================================================================
