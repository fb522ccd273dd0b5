------------------------------ MODULE EventSync ------------------------------
(***************************************************************************)
(* The way of an event from the event bus to the cloud: log_event (app.py) *)
(* writes it to event_log, the sync thread (sync_engine.py) offers the     *)
(* oldest unsynced events over the WebSocket or by HTTP, and the           *)
(* WebSocket's thread marks what the cloud acknowledges.  Events are       *)
(* numbered under the bus's lock and stored outside it, each by the thread *)
(* that publishes it; here they bear the order in which they are numbered. *)
(*                                                                         *)
(* The table is in WAL mode, so what has been committed survives a crash;  *)
(* everything else starts afresh, and an event whose row was not yet       *)
(* written is gone.  No event of the log is malformed: the bus writes      *)
(* every field the conversion reads.                                       *)
(***************************************************************************)
EXTENDS Integers, FiniteSets

CONSTANTS
  MaxEvents,   \* how many events the program publishes
  BatchSize,   \* SYNC_BATCH_SIZE
  MaxRetries,  \* MAX_EVENT_RETRIES
  Poison,      \* the events the cloud refuses, with any batch they are in
  MaxBoots,    \* how often the program starts
  Publishers,  \* how many threads publish at once
  Env          \* what may happen: some of Faults

Events == 1 .. MaxEvents
Faults == {"ws",       \* the WebSocket connects, and drops
           "outage",   \* an HTTP request fails without reaching the cloud
           "lost",     \* an HTTP answer is lost after the cloud has acted
           "unsaved"}  \* the database refuses a row

ASSUME SizeAssumption == /\ MaxEvents \in Nat /\ BatchSize \in Nat \ {0}
                         /\ MaxRetries \in Nat \ {0} /\ MaxBoots \in Nat \ {0}
                         /\ Publishers \in Nat \ {0}
ASSUME EnvAssumption == Poison \subseteq Events /\ Env \subseteq Faults

VARIABLES
  published,   \* events 1 .. published have been numbered
  seqNum,      \* their sequence_num
  counter,     \* EventBus._sequence_counter
  saving,      \* of these, the ones whose publishers have yet to store them
  logged,      \* the rows of event_log
  synced,      \* the events with synced = 1
  retries,     \* sync_retries
  pc,          \* where the sync thread is in _do_event_sync
  batch,       \* its events
  todo,        \* of these, the ones left to offer one by one
  acked,       \* the ids to mark when it is done
  connected,   \* RealtimeClient._connected
  wire,        \* the batches on their way to the cloud
  acks,        \* the acknowledgements on their way back
  cloud,       \* the events the cloud has
  boots        \* how often the program has started

busVars  == <<published, seqNum, counter, saving>>
rowVars  == <<logged, synced, retries>>
jobVars  == <<pc, batch, todo, acked>>
linkVars == <<connected, wire, acks>>
vars == <<busVars, rowVars, jobVars, linkVars, cloud, boots>>

Unsynced == logged \ synced

TypeOK ==
  /\ published \in 0 .. MaxEvents /\ counter \in 0 .. published
  /\ seqNum \in [Events -> 0 .. MaxEvents]
  /\ saving \subseteq 1 .. published /\ logged \subseteq 1 .. published
  /\ saving \cap logged = {}
  /\ synced \subseteq logged /\ cloud \subseteq logged
  /\ retries \in [Events -> 0 .. MaxRetries]
  /\ pc \in {"idle", "ws", "post", "count", "singles", "mark"}
  /\ batch \subseteq logged /\ todo \subseteq batch /\ acked \subseteq batch
  /\ connected \in BOOLEAN
  /\ wire \subseteq SUBSET logged /\ acks \subseteq SUBSET logged
  /\ boots \in 1 .. MaxBoots

Idle == pc' = "idle" /\ batch' = {} /\ todo' = {} /\ acked' = {}

Init ==
  /\ published = 0 /\ counter = 0
  /\ seqNum = [e \in Events |-> 0]
  /\ saving = {} /\ logged = {}
  /\ synced = {} /\ retries = [e \in Events |-> 0]
  /\ pc = "idle" /\ batch = {} /\ todo = {} /\ acked = {}
  /\ connected = FALSE /\ wire = {} /\ acks = {}
  /\ cloud = {} /\ boots = 1

-----------------------------------------------------------------------------
(* EventBus.publish numbers an event under the lock.                       *)
Publish ==
  /\ published < MaxEvents /\ Cardinality(saving) < Publishers
  /\ published' = published + 1
  /\ counter' = counter + 1
  /\ seqNum' = [seqNum EXCEPT ![published + 1] = counter + 1]
  /\ saving' = saving \cup {published + 1}
  /\ UNCHANGED <<rowVars, jobVars, linkVars, cloud, boots>>

(* log_event, called outside it, stores the event; what the database       *)
(* refuses is only logged, and no row is written.                          *)
SaveEvent(e) ==
  /\ e \in saving
  /\ saving' = saving \ {e}
  /\ \/ logged' = logged \cup {e}
     \/ "unsaved" \in Env /\ UNCHANGED logged
  /\ UNCHANGED <<published, seqNum, counter, synced, retries, jobVars, linkVars, cloud, boots>>

-----------------------------------------------------------------------------
(* get_unsynced_events: the first rows by sequence_num; SQLite may return  *)
(* rows of equal number in either order.                                   *)
Batches_AnyOrder(S) == {B \in SUBSET S : B # {} /\ Cardinality(B) <= BatchSize}
Batches(S) ==
  {B \in SUBSET S :
     /\ Cardinality(B) = IF Cardinality(S) < BatchSize THEN Cardinality(S) ELSE BatchSize
     /\ \A e \in B, f \in S \ B : seqNum[e] <= seqNum[f]}

Stuck_Early == {e \in Unsynced : retries[e] >= MaxRetries - 1}
Stuck_Never == {}
Stuck == {e \in Unsynced : retries[e] >= MaxRetries}

(* A cycle begins: stuck events are marked synced, a batch is read.        *)
BeginSync ==
  /\ pc = "idle" /\ Unsynced # {}
  /\ synced' = synced \cup Stuck
  /\ IF Unsynced \ Stuck = {}
       THEN UNCHANGED jobVars
       ELSE /\ batch' \in Batches(Unsynced \ Stuck)
            /\ pc' = IF connected THEN "ws" ELSE "post"
            /\ UNCHANGED <<todo, acked>>
  /\ UNCHANGED <<busVars, logged, retries, linkVars, cloud, boots>>

(* send_events.  Over a broken connection it fails and the cycle goes on   *)
(* by HTTP; that it succeeds says nothing about the cloud.                 *)
SendWs ==
  /\ pc = "ws"
  /\ IF connected
       THEN wire' = wire \cup {batch} /\ Idle
       ELSE pc' = "post" /\ UNCHANGED <<wire, batch, todo, acked>>
  /\ UNCHANGED <<busVars, rowVars, connected, acks, cloud, boots>>

(* One HTTP request for the events S and its outcomes: does the cloud get  *)
(* them, and does the device learn of it?  A refusal is one of the failures. *)
Answers(S) ==
  (IF S \cap Poison = {} THEN {[got |-> S, ok |-> TRUE]} ELSE {[got |-> {}, ok |-> FALSE]})
  \cup (IF "outage" \in Env THEN {[got |-> {}, ok |-> FALSE]} ELSE {})
  \cup (IF "lost" \in Env /\ S \cap Poison = {} THEN {[got |-> S, ok |-> FALSE]} ELSE {})

PostBatch ==
  /\ pc = "post"
  /\ \E a \in Answers(batch) :
       /\ cloud' = cloud \cup a.got
       /\ pc' = IF a.ok THEN "mark" ELSE "count"
       /\ acked' = IF a.ok THEN batch ELSE {}
  /\ UNCHANGED <<busVars, rowVars, batch, todo, linkVars, boots>>

CountFailure_NotForSingles ==
  /\ pc = "count"
  /\ IF Cardinality(batch) > 1
       THEN pc' = "singles" /\ todo' = batch /\ UNCHANGED <<batch, acked, retries>>
       ELSE /\ retries' = [e \in Events |-> IF e \in batch THEN retries[e] + 1 ELSE retries[e]]
            /\ Idle
  /\ UNCHANGED <<busVars, logged, synced, linkVars, cloud, boots>>
CountFailure_NoSingles ==
  /\ pc = "count"
  /\ retries' = [e \in Events |-> IF e \in batch THEN retries[e] + 1 ELSE retries[e]]
  /\ Idle
  /\ UNCHANGED <<busVars, logged, synced, linkVars, cloud, boots>>
(* The batch has failed: every event of it is charged, and a batch of      *)
(* several is offered again one by one.                                    *)
CountFailure ==
  /\ pc = "count"
  /\ retries' = [e \in Events |-> IF e \in batch THEN retries[e] + 1 ELSE retries[e]]
  /\ IF Cardinality(batch) > 1
       THEN pc' = "singles" /\ todo' = batch /\ UNCHANGED <<batch, acked>>
       ELSE Idle
  /\ UNCHANGED <<busVars, logged, synced, linkVars, cloud, boots>>

PostOne(e) ==
  /\ pc = "singles" /\ e \in todo
  /\ \E a \in Answers({e}) :
       /\ cloud' = cloud \cup a.got
       /\ acked' = IF a.ok THEN acked \cup {e} ELSE acked
  /\ todo' = todo \ {e}
  /\ pc' = IF todo = {e} THEN "mark" ELSE "singles"
  /\ UNCHANGED <<busVars, rowVars, batch, linkVars, boots>>

Marked_All == batch
Marked == acked

MarkSynced ==
  /\ pc = "mark"
  /\ synced' = synced \cup Marked
  /\ Idle
  /\ UNCHANGED <<busVars, logged, retries, linkVars, cloud, boots>>

SyncStep == \/ BeginSync \/ SendWs \/ PostBatch \/ CountFailure \/ MarkSynced
            \/ \E e \in todo : PostOne(e)

-----------------------------------------------------------------------------
(* The RealtimeClient's thread, and the cloud at the other end of it.  The *)
(* cloud treats a batch as it does over HTTP, and acknowledges it only if  *)
(* it keeps it.                                                            *)
Connect ==
  /\ "ws" \in Env /\ ~connected
  /\ connected' = TRUE
  /\ UNCHANGED <<busVars, rowVars, jobVars, wire, acks, cloud, boots>>

(* What is under way is lost.                                              *)
Disconnect ==
  /\ connected
  /\ connected' = FALSE /\ wire' = {} /\ acks' = {}
  /\ UNCHANGED <<busVars, rowVars, jobVars, cloud, boots>>

CloudTakes ==
  \E m \in wire :
    /\ wire' = wire \ {m}
    /\ IF m \cap Poison = {}
         THEN cloud' = cloud \cup m /\ acks' = acks \cup {m}
         ELSE UNCHANGED <<cloud, acks>>
    /\ UNCHANGED <<busVars, rowVars, jobVars, connected, boots>>

(* _handle_ws_ack.                                                         *)
HandleWsAck ==
  \E m \in acks :
    /\ acks' = acks \ {m}
    /\ synced' = synced \cup m
    /\ UNCHANGED <<busVars, logged, retries, jobVars, connected, wire, cloud, boots>>

(* The process dies and starts again: the bus counts from zero, and what   *)
(* was being published is lost.                                            *)
Restart ==
  /\ boots < MaxBoots
  /\ boots' = boots + 1
  /\ counter' = 0 /\ saving' = {}
  /\ connected' = FALSE /\ wire' = {} /\ acks' = {}
  /\ Idle
  /\ UNCHANGED <<published, seqNum, rowVars, cloud>>

Next == \/ Publish \/ (\E e \in saving : SaveEvent(e)) \/ SyncStep \/ Connect \/ Disconnect \/ CloudTakes
        \/ HandleWsAck \/ Restart

Spec == Init /\ [][Next]_vars

(* The sync loop goes on.  The WebSocket may break at any time, but not    *)
(* before every batch or before every acknowledgement.                     *)
FairSpec == Spec /\ WF_vars(SyncStep) /\ SF_vars(CloudTakes) /\ SF_vars(HandleWsAck)

-----------------------------------------------------------------------------
(* Nothing is dropped on one failure: an event is marked synced without    *)
(* the cloud having it only after MAX_EVENT_RETRIES failed batches.        *)
OnlyStuckAreDropped == \A e \in synced \ cloud : retries[e] >= MaxRetries

(* An event the cloud refuses takes nobody with it: while the network      *)
(* works, every other event of its batches reaches the cloud.              *)
PoisonIsAlone == synced \ cloud \subseteq Poison

(* Every event leaves the queue, and none holds up those behind it, unless *)
(* batches the cloud refuses go out over the WebSocket again and again:    *)
(* there nobody learns of the refusal.                                     *)
refusedUnseen == \E m \in wire : m \cap Poison # {}
QueueMoves ==
  ~[]<>refusedUnseen => \A e \in Events : (e \in Unsynced) ~> (e \in synced)

(* The sync engine calls its operations offline-tolerant: no event is      *)
(* taken for synced that the cloud does not have.                          *)
NoEventLost == synced \subseteq cloud

Delivery == INSTANCE EventDelivery WITH
  Tries <- MaxRetries, recorded <- logged, received <- cloud,
  released <- synced, failures <- retries

(* Crashes, outages, lost answers, broken connections and the two threads  *)
(* that mark events notwithstanding, the log keeps what EventDelivery      *)
(* promises.                                                               *)
Delivers == Delivery!Spec
=============================================================================
