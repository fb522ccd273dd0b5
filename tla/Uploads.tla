------------------------------- MODULE Uploads -------------------------------
(***************************************************************************)
(* What the sync thread uploads beside the events: mixing sessions, over   *)
(* the WebSocket or by HTTP, and the sensors' health records, by HTTP,     *)
(* which are deleted a month after they were synced (sync_engine.py).  The *)
(* WebSocket's thread marks the sessions the cloud acknowledges.           *)
(*                                                                         *)
(* Both tables survive a restart.  A session's row is written once, when   *)
(* the session has ended.  The cloud keeps what reaches it.                *)
(***************************************************************************)
EXTENDS Integers, FiniteSets

CONSTANTS
  MaxSessions,   \* how many mixing sessions there are
  SessionLimit,  \* how many are sent at a time
  MaxLogs,       \* how many health records there are
  LogLimit       \* how many are sent at a time

UploadAssumption == {MaxSessions, SessionLimit, MaxLogs, LogLimit} \subseteq Nat

Sessions == 1 .. MaxSessions
Logs     == 1 .. MaxLogs

VARIABLES
  saved,       \* the sessions 1 .. saved are in mixing_session
  acked,       \* those of them with synced = 1
  logged,      \* the records 1 .. logged were written to sensor_health_log
  marked,      \* those of them with synced = 1
  deleted,     \* those that have been deleted
  old,         \* the records 1 .. old are a month old
  place,       \* where the sync thread is
  batch,       \* the sessions or records it has read
  net,         \* "off": no network, "http", or "ws": also a WebSocket
  wire,        \* the batches of sessions on their way over it
  acks,        \* the acknowledgements on their way back
  cloudHas,    \* the sessions the cloud has
  cloudLogs    \* the records it has

sessionVars == <<saved, acked, cloudHas>>
logVars     == <<logged, marked, deleted, old, cloudLogs>>
wireVars    == <<wire, acks>>
vars == <<sessionVars, logVars, place, batch, net, wireVars>>

TypeOK ==
  /\ saved \in 0 .. MaxSessions /\ acked \subseteq 1 .. saved /\ cloudHas \subseteq 1 .. saved
  /\ logged \in 0 .. MaxLogs /\ old \in 0 .. logged
  /\ marked \subseteq 1 .. logged /\ deleted \subseteq 1 .. old /\ cloudLogs \subseteq 1 .. logged
  /\ place \in {"idle", "sessions", "post sessions", "mark sessions",
                "post logs", "mark logs", "clean logs"}
  /\ batch \subseteq IF place \in {"post logs", "mark logs"} THEN Logs ELSE Sessions
  /\ net \in {"off", "http", "ws"}
  /\ wire \subseteq SUBSET Sessions /\ acks \subseteq SUBSET Sessions

Init ==
  /\ saved = 0 /\ acked = {} /\ cloudHas = {}
  /\ logged = 0 /\ marked = {} /\ deleted = {} /\ old = 0 /\ cloudLogs = {}
  /\ place = "idle" /\ batch = {}
  /\ net = "off" /\ wire = {} /\ acks = {}

Go(there, what) == place' = there /\ batch' = what

(* The oldest of S, at most n of them.                                     *)
Oldest(S, n) == {x \in S : Cardinality({y \in S : y < x}) < n}

-----------------------------------------------------------------------------
(* A mixing session ends; a health record is written, with or without a    *)
(* network, and grows old.                                                 *)
SaveSession ==
  /\ saved < MaxSessions /\ saved' = saved + 1
  /\ UNCHANGED <<acked, cloudHas, logVars, place, batch, net, wireVars>>

LogHealth ==
  /\ place = "idle" /\ logged < MaxLogs /\ logged' = logged + 1
  /\ UNCHANGED <<sessionVars, marked, deleted, old, cloudLogs, place, batch, net, wireVars>>

GrowOld ==
  /\ old < logged /\ old' = old + 1
  /\ UNCHANGED <<sessionVars, logged, marked, deleted, cloudLogs, place, batch, net, wireVars>>

-----------------------------------------------------------------------------
(* _do_mixing_session_sync.                                                *)
Unsynced == (1 .. saved) \ acked

BeginSessions_OnlyWs ==
  /\ place = "idle" /\ Unsynced # {} /\ net = "ws"
  /\ Go("sessions", Oldest(Unsynced, SessionLimit))
  /\ UNCHANGED <<sessionVars, logVars, net, wireVars>>
BeginSessions ==
  /\ place = "idle" /\ Unsynced # {}
  /\ Go(IF net = "ws" THEN "sessions" ELSE "post sessions", Oldest(Unsynced, SessionLimit))
  /\ UNCHANGED <<sessionVars, logVars, net, wireVars>>

SendSessions_Marks ==
  /\ place = "sessions"
  /\ IF net = "ws"
       THEN wire' = wire \cup {batch} /\ acked' = acked \cup batch /\ Go("idle", {})
       ELSE UNCHANGED <<wire, acked>> /\ Go("post sessions", batch)
  /\ UNCHANGED <<saved, cloudHas, logVars, net, acks>>
(* What is sent over the WebSocket is marked when its acknowledgement      *)
(* comes; if it cannot be sent it goes by HTTP.                            *)
SendSessions ==
  /\ place = "sessions"
  /\ IF net = "ws"
       THEN wire' = wire \cup {batch} /\ Go("idle", {})
       ELSE UNCHANGED wire /\ Go("post sessions", batch)
  /\ UNCHANGED <<sessionVars, logVars, net, acks>>

(* Without a network a request fails, before or after the cloud got it.    *)
Outcomes == IF net = "off" THEN {[got |-> {}, ok |-> FALSE], [got |-> batch, ok |-> FALSE]}
                           ELSE {[got |-> batch, ok |-> TRUE]}

PostSessions ==
  /\ place = "post sessions"
  /\ \E o \in Outcomes :
       /\ cloudHas' = cloudHas \cup o.got
       /\ IF o.ok THEN Go("mark sessions", batch) ELSE Go("idle", {})
  /\ UNCHANGED <<saved, acked, logVars, net, wireVars>>

MarkSessions ==
  /\ place = "mark sessions" /\ Go("idle", {})
  /\ acked' = acked \cup batch
  /\ UNCHANGED <<saved, cloudHas, logVars, net, wireVars>>

-----------------------------------------------------------------------------
(* _do_health_sync.                                                        *)
BeginLogs ==
  /\ place = "idle" /\ (1 .. logged) \ marked # {}
  /\ Go("post logs", Oldest((1 .. logged) \ marked, LogLimit))
  /\ UNCHANGED <<sessionVars, logVars, net, wireVars>>

PostLogs ==
  /\ place = "post logs"
  /\ \E o \in Outcomes :
       /\ cloudLogs' = cloudLogs \cup o.got
       /\ IF o.ok THEN Go("mark logs", batch) ELSE Go("idle", {})
  /\ UNCHANGED <<sessionVars, logged, marked, deleted, old, net, wireVars>>

MarkLogs ==
  /\ place = "mark logs" /\ Go("clean logs", {})
  /\ marked' = marked \cup batch
  /\ UNCHANGED <<sessionVars, logged, deleted, old, cloudLogs, net, wireVars>>

(* cleanup_old_health_logs.                                                *)
Expired == marked \cap (1 .. old)

CleanLogs ==
  /\ place = "clean logs" /\ Go("idle", {})
  /\ deleted' = deleted \cup Expired
  /\ UNCHANGED <<sessionVars, logged, marked, old, cloudLogs, net, wireVars>>

SyncStep == \/ BeginSessions \/ SendSessions \/ PostSessions \/ MarkSessions
            \/ BeginLogs \/ PostLogs \/ MarkLogs \/ CleanLogs

-----------------------------------------------------------------------------
(* The network changes; what is on its way over the WebSocket is lost with *)
(* it.                                                                     *)
ChangeNet(n) ==
  /\ n # net /\ net' = n
  /\ wire' = {} /\ acks' = {}
  /\ UNCHANGED <<sessionVars, logVars, place, batch>>

CloudTakes ==
  \E m \in wire :
    /\ wire' = wire \ {m} /\ acks' = acks \cup {m}
    /\ cloudHas' = cloudHas \cup m
    /\ UNCHANGED <<saved, acked, logVars, place, batch, net>>

HandleWsAck ==
  \E m \in acks :
    /\ acks' = acks \ {m}
    /\ acked' = acked \cup m
    /\ UNCHANGED <<saved, cloudHas, logVars, place, batch, net, wire>>

(* The process dies and starts again.                                      *)
Restart ==
  /\ Go("idle", {})
  /\ net' = "off" /\ wire' = {} /\ acks' = {}
  /\ UNCHANGED <<sessionVars, logVars>>

Next == \/ SaveSession \/ LogHealth \/ GrowOld \/ SyncStep
        \/ CloudTakes \/ HandleWsAck \/ Restart
        \/ \E n \in {"off", "http", "ws"} : ChangeNet(n)

Spec == Init /\ [][Next]_vars

(* The sync loop, the WebSocket's thread and the cloud go on.              *)
FairSpec == Spec /\ WF_vars(SyncStep) /\ WF_vars(CloudTakes) /\ WF_vars(HandleWsAck)

-----------------------------------------------------------------------------
(* Nothing is taken for synced, and no record is deleted, that the cloud   *)
(* does not have: whatever of the two ways it goes, whoever marks it, and  *)
(* whatever is lost or restarts in between.                                *)
NothingForgotten == acked \subseteq cloudHas /\ marked \cup deleted \subseteq cloudLogs

(* When the network stays as it is for good, be it with a WebSocket or     *)
(* without, every session and every record is uploaded and marked.         *)
UploadsArrive ==
  <>[](net = "http") \/ <>[](net = "ws") => []<>(Unsynced = {} /\ marked = 1 .. logged)
=============================================================================
