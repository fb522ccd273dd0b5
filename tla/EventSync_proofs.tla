--------------------------- MODULE EventSync_proofs ---------------------------
(***************************************************************************)
(* Proofs about the event queue, for every number of events, batch size,   *)
(* retry limit and fault: an event is dropped only when it is stuck, the   *)
(* queue implements EventDelivery, a refused event takes nobody with it,   *)
(* and the cloud learns of the events in order, but for named exceptions.  *)
(***************************************************************************)
EXTENDS MCEventSync, FiniteSetTheorems, TLAPS

(* An event can be charged with one more failure: BeginSync has taken the  *)
(* stuck ones out of the queue before it read the batch.                   *)
ChargeRoom == pc \in {"ws", "post", "count"} => \A e \in batch : retries[e] < MaxRetries

(* What is about to be marked is in the cloud, on either path.             *)
AcksAreTrue == acked \subseteq cloud /\ \A m \in acks : m \subseteq cloud

(* A cycle starts from nothing.                                            *)
JobShape == /\ pc = "idle" => batch = {}
            /\ pc # "singles" => todo = {}
            /\ pc \notin {"singles", "mark"} => acked = {}

IInv == TypeOK /\ ChargeRoom /\ AcksAreTrue /\ JobShape /\ OnlyStuckAreDropped

(* The initial state satisfies the inductive invariant.                    *)
LEMMA InitIInv == Init => IInv
<1> SUFFICES ASSUME Init PROVE IInv
  OBVIOUS
<1>1. /\ published \in 0 .. MaxEvents /\ counter \in 0 .. published
      /\ boots \in 1 .. MaxBoots
  BY SizeAssumption DEF Init
<1>2. seqNum \in [Events -> 0 .. MaxEvents] /\ retries \in [Events -> 0 .. MaxRetries]
  BY SizeAssumption DEF Init
<1>3. TypeOK
  BY <1>1, <1>2 DEF Init, TypeOK
<1>4. ChargeRoom /\ AcksAreTrue /\ JobShape /\ OnlyStuckAreDropped
  BY DEF Init, ChargeRoom, AcksAreTrue, JobShape, OnlyStuckAreDropped
<1> QED
  BY <1>3, <1>4 DEF IInv

(* A request that succeeds has reached the cloud, and the cloud is given   *)
(* nothing but what was sent.                                              *)
LEMMA AnswersSound ==
  ASSUME NEW S, NEW a \in Answers(S)
  PROVE  a.got \subseteq S /\ a.ok \in BOOLEAN /\ (a.ok => a.got = S)
<1>1. \/ a = [got |-> S, ok |-> TRUE]
      \/ a = [got |-> {}, ok |-> FALSE]
      \/ a = [got |-> S, ok |-> FALSE]
  BY DEF Answers
<1>2. CASE a = [got |-> S, ok |-> TRUE]
  <2>1. a.got = S /\ a.ok = TRUE
    BY <1>2
  <2> QED
    BY <2>1
<1>3. CASE a = [got |-> {}, ok |-> FALSE]
  <2>1. a.got = {} /\ a.ok = FALSE
    BY <1>3
  <2> QED
    BY <2>1
<1>4. CASE a = [got |-> S, ok |-> FALSE]
  <2>1. a.got = S /\ a.ok = FALSE
    BY <1>4
  <2> QED
    BY <2>1
<1> QED
  BY <1>1, <1>2, <1>3, <1>4

(* A batch is a set of the rows it is read from.                           *)
LEMMA BatchIsSubset == ASSUME NEW S, NEW B \in Batches(S) PROVE B \subseteq S
  BY DEF Batches

(* Every row of the log is one of the events.                              *)
LEMMA LogIsEvents == ASSUME TypeOK PROVE logged \subseteq Events
  BY SizeAssumption DEF TypeOK, Events

-----------------------------------------------------------------------------
(* The steps that touch the log or the cloud, one lemma each.              *)
LEMMA PublishKeeps == ASSUME IInv, Publish PROVE IInv'
<1> USE DEF IInv
<1>1. /\ published \in Nat /\ published' = published + 1 /\ counter' = counter + 1
      /\ saving' = saving \cup {published + 1}
      /\ UNCHANGED <<rowVars, jobVars, linkVars, cloud, boots>>
  BY SizeAssumption DEF TypeOK, Publish
<1>2. /\ published' \in 0 .. MaxEvents /\ counter' \in 0 .. published'
      /\ saving' \subseteq 1 .. published' /\ logged' \subseteq 1 .. published'
  BY <1>1, SizeAssumption DEF TypeOK, Publish, rowVars
<1>3. saving' \cap logged' = {}
  BY <1>1 DEF TypeOK, rowVars
<1>4. seqNum' \in [Events -> 0 .. MaxEvents]
  <2>1. counter + 1 \in 0 .. MaxEvents
    BY SizeAssumption DEF TypeOK, Publish
  <2> QED
    BY <2>1 DEF TypeOK, Publish
<1>5. TypeOK'
  BY <1>1, <1>2, <1>3, <1>4 DEF TypeOK, rowVars, jobVars, linkVars
<1>6. ChargeRoom' /\ AcksAreTrue' /\ JobShape' /\ OnlyStuckAreDropped'
  BY <1>1 DEF ChargeRoom, AcksAreTrue, JobShape, OnlyStuckAreDropped, rowVars, jobVars, linkVars
<1> QED
  BY <1>5, <1>6

LEMMA SaveEventKeeps == ASSUME IInv, NEW e \in saving, SaveEvent(e) PROVE IInv'
<1> USE DEF IInv
<1>1. /\ saving' = saving \ {e}
      /\ logged' = logged \cup {e} \/ logged' = logged
      /\ UNCHANGED <<published, seqNum, counter, synced, retries, jobVars, linkVars, cloud, boots>>
  BY DEF SaveEvent
<1>2. saving' \cap logged' = {} /\ logged \subseteq logged'
  BY <1>1 DEF TypeOK
<1>3. TypeOK'
  BY <1>1, <1>2 DEF TypeOK, jobVars, linkVars
<1>4. ChargeRoom' /\ AcksAreTrue' /\ JobShape' /\ OnlyStuckAreDropped'
  BY <1>1 DEF ChargeRoom, AcksAreTrue, JobShape, OnlyStuckAreDropped, jobVars, linkVars
<1> QED
  BY <1>3, <1>4

LEMMA BeginSyncKeeps == ASSUME IInv, BeginSync PROVE IInv'
<1> USE DEF IInv
<1>1. Stuck \subseteq logged /\ \A e \in Stuck : retries[e] >= MaxRetries
  BY DEF Stuck, Unsynced
<1>2. /\ UNCHANGED <<busVars, logged, retries, linkVars, cloud, boots>>
      /\ synced' = synced \cup Stuck
      /\ pc = "idle" /\ batch = {} /\ todo = {} /\ acked = {}
  BY DEF BeginSync, JobShape
<1>3. OnlyStuckAreDropped'
  BY <1>1, <1>2 DEF OnlyStuckAreDropped
<1>4. /\ batch' \subseteq logged /\ todo' = {} /\ acked' = {}
      /\ pc' \in {"idle", "ws", "post"}
      /\ pc' = "idle" => batch' = {}
      /\ \A e \in batch' : retries[e] < MaxRetries
  <2>1. CASE Unsynced \ Stuck = {}
    BY <2>1, <1>2 DEF BeginSync, jobVars
  <2>2. CASE Unsynced \ Stuck # {}
    <3>1. /\ batch' \in Batches(Unsynced \ Stuck)
          /\ pc' = IF connected THEN "ws" ELSE "post"
          /\ UNCHANGED <<todo, acked>>
      BY <2>2 DEF BeginSync
    <3>2. batch' \subseteq Unsynced \ Stuck
      BY <3>1, BatchIsSubset
    <3>3. \A e \in batch' : retries[e] \in 0 .. MaxRetries /\ ~(retries[e] >= MaxRetries)
      BY <3>2, LogIsEvents DEF Unsynced, Stuck, TypeOK
    <3> QED
      BY <3>1, <3>2, <3>3, <1>2, SizeAssumption DEF Unsynced
  <2> QED
    BY <2>1, <2>2
<1>5. TypeOK'
  BY <1>1, <1>2, <1>4 DEF TypeOK, busVars, linkVars
<1>6. ChargeRoom' /\ AcksAreTrue' /\ JobShape'
  BY <1>2, <1>4 DEF ChargeRoom, AcksAreTrue, JobShape, linkVars
<1> QED
  BY <1>3, <1>5, <1>6

LEMMA PostBatchKeeps == ASSUME IInv, PostBatch PROVE IInv'
<1> USE DEF IInv
<1>1. PICK a \in Answers(batch) : /\ cloud' = cloud \cup a.got
                                  /\ pc' = IF a.ok THEN "mark" ELSE "count"
                                  /\ acked' = IF a.ok THEN batch ELSE {}
  BY DEF PostBatch
<1>2. UNCHANGED <<busVars, rowVars, batch, todo, linkVars, boots>> /\ pc = "post"
  BY DEF PostBatch
<1>3. a.got \subseteq batch /\ (a.ok => a.got = batch) /\ a.ok \in BOOLEAN
  BY AnswersSound
<1>4. acked' \subseteq batch /\ acked' \subseteq cloud' /\ cloud \subseteq cloud'
  BY <1>1, <1>3
<1>5. TypeOK'
  BY <1>1, <1>2, <1>3, <1>4 DEF TypeOK, busVars, rowVars, linkVars
<1>6. ChargeRoom' /\ AcksAreTrue' /\ JobShape' /\ OnlyStuckAreDropped'
  BY <1>1, <1>2, <1>4 DEF ChargeRoom, AcksAreTrue, JobShape, OnlyStuckAreDropped, rowVars, linkVars
<1> QED
  BY <1>5, <1>6

LEMMA CountFailureKeeps == ASSUME IInv, CountFailure PROVE IInv'
<1> USE DEF IInv
<1>1. /\ pc = "count" /\ todo = {} /\ acked = {}
      /\ UNCHANGED <<busVars, logged, synced, linkVars, cloud, boots>>
      /\ retries' = [e \in Events |-> IF e \in batch THEN retries[e] + 1 ELSE retries[e]]
  BY DEF CountFailure, JobShape
<1>2. /\ retries' \in [Events -> 0 .. MaxRetries]
      /\ \A e \in Events : retries[e] >= MaxRetries => retries'[e] >= MaxRetries
  <2>1. /\ retries \in [Events -> 0 .. MaxRetries] /\ MaxRetries \in Nat
        /\ \A e \in batch : retries[e] < MaxRetries
    BY <1>1, SizeAssumption DEF TypeOK, ChargeRoom
  <2> QED
    BY <1>1, <2>1
<1>3. /\ pc' \in {"singles", "idle"} /\ acked' = {}
      /\ batch' \in {batch, {}} /\ todo' \subseteq batch'
      /\ pc' = "idle" => batch' = {} /\ todo' = {}
  BY <1>1 DEF CountFailure, Idle
<1>4. TypeOK'
  BY <1>1, <1>2, <1>3 DEF TypeOK, busVars, linkVars
<1>5. OnlyStuckAreDropped'
  BY <1>1, <1>2, LogIsEvents DEF OnlyStuckAreDropped, TypeOK
<1>6. ChargeRoom' /\ AcksAreTrue' /\ JobShape'
  BY <1>1, <1>3 DEF ChargeRoom, AcksAreTrue, JobShape, linkVars
<1> QED
  BY <1>4, <1>5, <1>6

LEMMA PostOneKeeps == ASSUME IInv, NEW e \in todo, PostOne(e) PROVE IInv'
<1> USE DEF IInv
<1>1. PICK a \in Answers({e}) : /\ cloud' = cloud \cup a.got
                                /\ acked' = IF a.ok THEN acked \cup {e} ELSE acked
  BY DEF PostOne
<1>2. /\ UNCHANGED <<busVars, rowVars, batch, linkVars, boots>>
      /\ pc = "singles" /\ todo' = todo \ {e}
      /\ pc' = IF todo = {e} THEN "mark" ELSE "singles"
  BY DEF PostOne
<1>3. a.got \subseteq {e} /\ (a.ok => a.got = {e}) /\ a.ok \in BOOLEAN
  BY AnswersSound
<1>4. /\ acked' \subseteq batch /\ acked' \subseteq cloud' /\ cloud \subseteq cloud'
      /\ cloud' \subseteq logged
  <2>1. /\ acked \subseteq batch /\ acked \subseteq cloud
        /\ e \in batch /\ e \in logged /\ cloud \subseteq logged
    BY DEF TypeOK, AcksAreTrue
  <2>2. cloud' \subseteq logged /\ cloud \subseteq cloud'
    BY <1>1, <1>3, <2>1
  <2>3. acked' \subseteq batch
    BY <1>1, <2>1
  <2>4. acked' \subseteq cloud'
    BY <1>1, <1>3, <2>1
  <2> QED
    BY <2>2, <2>3, <2>4
<1>5. TypeOK'
  BY <1>2, <1>4 DEF TypeOK, busVars, rowVars, linkVars
<1>6. ChargeRoom' /\ AcksAreTrue' /\ JobShape' /\ OnlyStuckAreDropped'
  BY <1>2, <1>4 DEF ChargeRoom, AcksAreTrue, JobShape, OnlyStuckAreDropped, rowVars, linkVars
<1> QED
  BY <1>5, <1>6

LEMMA MarkSyncedKeeps == ASSUME IInv, MarkSynced PROVE IInv'
<1> USE DEF IInv
<1>1. /\ synced' = synced \cup acked /\ Idle
      /\ UNCHANGED <<busVars, logged, retries, linkVars, cloud, boots>>
  BY DEF MarkSynced, Marked
<1>2. TypeOK'
  BY <1>1 DEF TypeOK, Idle, busVars, linkVars
<1>3. ChargeRoom' /\ AcksAreTrue' /\ JobShape' /\ OnlyStuckAreDropped'
  BY <1>1 DEF ChargeRoom, AcksAreTrue, JobShape, OnlyStuckAreDropped, Idle, linkVars
<1> QED
  BY <1>2, <1>3

LEMMA LinkKeeps ==
  ASSUME IInv, SendWs \/ Connect \/ Disconnect \/ CloudTakes \/ HandleWsAck PROVE IInv'
<1> USE DEF IInv, TypeOK, ChargeRoom, AcksAreTrue, JobShape, OnlyStuckAreDropped,
            busVars, rowVars, jobVars, linkVars
<1>1. CASE SendWs
  <2>1. CASE connected
    <3>1. /\ wire' = wire \cup {batch} /\ Idle
          /\ UNCHANGED <<busVars, rowVars, connected, acks, cloud, boots>>
      BY <1>1, <2>1 DEF SendWs
    <3>2. wire' \subseteq SUBSET logged
      BY <3>1
    <3>3. TypeOK'
      BY <3>1, <3>2 DEF Idle
    <3>4. ChargeRoom' /\ AcksAreTrue' /\ JobShape' /\ OnlyStuckAreDropped'
      BY <3>1 DEF Idle
    <3> QED
      BY <3>3, <3>4
  <2>2. CASE ~connected
    BY <1>1, <2>2 DEF SendWs
  <2> QED
    BY <2>1, <2>2
<1>2. CASE Connect
  BY <1>2 DEF Connect
<1>3. CASE Disconnect
  BY <1>3 DEF Disconnect
<1>4. CASE CloudTakes
  <2>1. PICK m \in wire : /\ wire' = wire \ {m}
                          /\ UNCHANGED <<busVars, rowVars, jobVars, connected, boots>>
                          /\ \/ cloud' = cloud \cup m /\ acks' = acks \cup {m}
                             \/ UNCHANGED <<cloud, acks>>
    BY <1>4 DEF CloudTakes
  <2>2. m \subseteq logged
    BY DEF TypeOK
  <2> QED
    BY <2>1, <2>2
<1>5. CASE HandleWsAck
  <2>1. PICK m \in acks : /\ acks' = acks \ {m} /\ synced' = synced \cup m
                          /\ UNCHANGED <<busVars, logged, retries, jobVars, connected, wire, cloud, boots>>
    BY <1>5 DEF HandleWsAck
  <2> QED
    BY <2>1
<1> QED
  BY <1>1, <1>2, <1>3, <1>4, <1>5

LEMMA RestartKeeps == ASSUME IInv, Restart PROVE IInv'
<1> USE DEF IInv
<1>1. /\ boots' \in 1 .. MaxBoots /\ counter' \in 0 .. published
      /\ saving' = {}
  BY SizeAssumption DEF Restart, TypeOK
<1>2. TypeOK'
  BY <1>1 DEF Restart, Idle, TypeOK, rowVars
<1>3. ChargeRoom' /\ AcksAreTrue' /\ JobShape' /\ OnlyStuckAreDropped'
  BY DEF Restart, Idle, ChargeRoom, AcksAreTrue, JobShape, OnlyStuckAreDropped, rowVars
<1> QED
  BY <1>2, <1>3

(* Every step of the program keeps the inductive invariant.                *)
LEMMA StepIInv == IInv /\ [Next]_vars => IInv'
<1> SUFFICES ASSUME IInv, [Next]_vars PROVE IInv'
  OBVIOUS
<1>1. CASE Publish
  BY <1>1, PublishKeeps
<1>6. CASE \E e \in saving : SaveEvent(e)
  BY <1>6, SaveEventKeeps
<1>2. CASE SyncStep
  BY <1>2, BeginSyncKeeps, PostBatchKeeps, CountFailureKeeps, PostOneKeeps, MarkSyncedKeeps,
     LinkKeeps DEF SyncStep
<1>3. CASE Connect \/ Disconnect \/ CloudTakes \/ HandleWsAck
  BY <1>3, LinkKeeps
<1>4. CASE Restart
  BY <1>4, RestartKeeps
<1>5. CASE UNCHANGED vars
  BY <1>5 DEF vars, IInv, TypeOK, ChargeRoom, AcksAreTrue, JobShape, OnlyStuckAreDropped,
     busVars, rowVars, jobVars, linkVars
<1> QED
  BY <1>1, <1>2, <1>3, <1>4, <1>5, <1>6 DEF Next

LEMMA Invariance == Spec => []IInv
  BY InitIInv, StepIInv, PTL DEF Spec

-----------------------------------------------------------------------------
(* The rows and sets of the queue keep their types; in particular no event *)
(* is ever charged with more than MAX_EVENT_RETRIES failures.              *)
THEOREM QueueTypeCorrect == Spec => []TypeOK
<1>1. IInv => TypeOK
  BY DEF IInv
<1> QED
  BY <1>1, Invariance, PTL

(* force_mark_stuck_synced is the only way by which an event the cloud     *)
(* does not have can be marked synced.                                     *)
THEOREM OnlyStuckDropped == Spec => []OnlyStuckAreDropped
<1>1. IInv => OnlyStuckAreDropped
  BY DEF IInv
<1> QED
  BY <1>1, Invariance, PTL

-----------------------------------------------------------------------------
(* A step that only lets the cloud take logged events, only marks what may *)
(* be marked, or only charges a batch, is a step of EventDelivery.         *)
LEMMA StepDelivers == IInv /\ [Next]_vars => [Delivery!Next]_(Delivery!vars)
<1> SUFFICES ASSUME IInv, [Next]_vars PROVE [Delivery!Next]_(Delivery!vars)
  OBVIOUS
<1> USE DEF Delivery!Next, Delivery!vars
<1> DEFINE Receives == /\ UNCHANGED <<logged, synced, retries>>
                       /\ \E S \in SUBSET Events : S \subseteq logged /\ cloud' = cloud \cup S
           Releases == /\ UNCHANGED <<logged, cloud, retries>>
                       /\ \E S \in SUBSET Events :
                            /\ \A e \in S : e \in cloud \/ retries[e] >= MaxRetries
                            /\ synced' = synced \cup S
           Stutters == UNCHANGED <<logged, synced, cloud, retries>>
<1>a. CASE Receives
  BY <1>a DEF Delivery!Receive
<1>b. CASE Releases
  BY <1>b DEF Delivery!Release
<1>c. CASE Stutters
  BY <1>c
<1>0. logged \subseteq Events
  BY LogIsEvents DEF IInv
<1>1. CASE Publish
  BY <1>1, <1>c DEF Publish, rowVars
<1>12. CASE \E e \in saving : SaveEvent(e)
  <2>1. PICK e \in saving : SaveEvent(e)
    BY <1>12
  <2>2. e \in Events /\ e \notin logged
    BY SizeAssumption DEF IInv, TypeOK, Events
  <2>3. logged' = logged \cup {e} \/ logged' = logged
    BY <2>1 DEF SaveEvent
  <2>4. UNCHANGED <<synced, cloud, retries>>
    BY <2>1 DEF SaveEvent
  <2> QED
    BY <2>2, <2>3, <2>4, <1>c DEF Delivery!Record
<1>2. CASE BeginSync
  <2>1. Stuck \subseteq Events /\ \A e \in Stuck : retries[e] >= MaxRetries
    BY <1>0 DEF Stuck, Unsynced
  <2>2. Releases
    BY <1>2, <2>1 DEF BeginSync, busVars
  <2> QED
    BY <2>2, <1>b
<1>3. CASE PostBatch
  <2>1. PICK a \in Answers(batch) : cloud' = cloud \cup a.got
    BY <1>3 DEF PostBatch
  <2>2. a.got \subseteq logged
    BY <2>1, AnswersSound DEF IInv, TypeOK
  <2>3. Receives
    BY <1>3, <2>1, <2>2, <1>0 DEF PostBatch, busVars, rowVars
  <2> QED
    BY <2>3, <1>a
<1>4. ASSUME NEW e \in todo, PostOne(e) PROVE [Delivery!Next]_(Delivery!vars)
  <2>1. PICK a \in Answers({e}) : cloud' = cloud \cup a.got
    BY <1>4 DEF PostOne
  <2>2. a.got \subseteq logged
    BY <2>1, AnswersSound DEF IInv, TypeOK
  <2>3. Receives
    BY <1>4, <2>1, <2>2, <1>0 DEF PostOne, busVars, rowVars
  <2> QED
    BY <2>3, <1>a
<1>5. CASE CountFailure
  <2>1. batch \in SUBSET Events /\ batch \subseteq logged
    BY <1>0 DEF IInv, TypeOK
  <2>2. Delivery!Fail(batch)
    BY <1>5, <2>1 DEF CountFailure, busVars, Delivery!Fail
  <2> QED
    BY <2>1, <2>2
<1>6. CASE MarkSynced
  <2>1. acked \subseteq cloud /\ acked \subseteq Events
    BY <1>0 DEF IInv, TypeOK, AcksAreTrue
  <2>2. Releases
    BY <1>6, <2>1 DEF MarkSynced, Marked, busVars
  <2> QED
    BY <2>2, <1>b
<1>7. CASE CloudTakes
  <2>1. PICK m \in wire : cloud' = cloud \cup m \/ cloud' = cloud
    BY <1>7 DEF CloudTakes
  <2>2. m \subseteq logged
    BY DEF IInv, TypeOK
  <2>3. UNCHANGED <<logged, synced, retries>>
    BY <1>7 DEF CloudTakes, busVars, rowVars
  <2>4. Receives \/ Stutters
    BY <2>1, <2>2, <2>3, <1>0
  <2> QED
    BY <2>4, <1>a, <1>c
<1>8. CASE HandleWsAck
  <2>1. PICK m \in acks : synced' = synced \cup m
    BY <1>8 DEF HandleWsAck
  <2>2. m \subseteq cloud /\ m \subseteq Events
    BY <1>0 DEF IInv, TypeOK, AcksAreTrue
  <2>3. UNCHANGED <<logged, cloud, retries>>
    BY <1>8 DEF HandleWsAck, busVars
  <2>4. Releases
    BY <2>1, <2>2, <2>3
  <2> QED
    BY <2>4, <1>b
<1>9. CASE SendWs \/ Connect \/ Disconnect \/ Restart
  <2>1. Stutters
    BY <1>9 DEF SendWs, Connect, Disconnect, Restart, busVars, rowVars
  <2> QED
    BY <2>1, <1>c
<1>10. CASE UNCHANGED vars
  <2>1. Stutters
    BY <1>10 DEF vars, busVars, rowVars
  <2> QED
    BY <2>1, <1>c
<1> QED
  BY <1>1, <1>12, <1>2, <1>3, <1>4, <1>5, <1>6, <1>7, <1>8, <1>9, <1>10 DEF Next, SyncStep

(* The queue implements EventDelivery, whatever crashes, outages, lost     *)
(* answers and broken connections happen.                                  *)
THEOREM QueueDelivers == Spec => Delivers
<1>1. Init => Delivery!Init
  BY DEF Init, Delivery!Init
<1> QED
  BY <1>1, StepDelivers, Invariance, PTL DEF Spec, Delivers, Delivery!Spec
-----------------------------------------------------------------------------
(* Refused events, with the note MCEventSync takes of lost requests.       *)

(* An event that the cloud would take is charged once each time its batch  *)
(* fails, and reaches the cloud before the cycle ends, unless the program  *)
(* dies: so it is not charged more often than the program has died.        *)
Offered(e) == IF pc = "singles" /\ e \in todo THEN 1 ELSE 0

ChargedOnce ==
  /\ boots <= MaxRetries => PoisonIsAlone
  /\ \A e \in Events \ (Poison \cup cloud) : retries[e] <= boots - 1 + Offered(e)
  /\ pc = "count" => batch \cap Poison # {} \/ batch \subseteq cloud

PoisonInv == outage \/ ChargedOnce

LEMMA InitPoison == MCInit => PoisonInv
<1> SUFFICES ASSUME Init PROVE ChargedOnce
  BY DEF MCInit, PoisonInv
<1>1. \A e \in Events : retries[e] = 0
  BY DEF Init
<1>2. boots = 1 /\ pc = "idle" /\ synced = {}
  BY DEF Init
<1> QED
  BY <1>1, <1>2 DEF ChargedOnce, PoisonIsAlone, Offered

(* What the steps that charge nobody leave as it was.                      *)
LEMMA NobodyCharged ==
  ASSUME IInv, ChargedOnce, UNCHANGED <<retries, boots>>, cloud \subseteq cloud',
         pc' # "count" \/ UNCHANGED <<pc, batch>>,
         pc # "singles" \/ UNCHANGED <<pc, todo>>,
         boots <= MaxRetries => synced' \ cloud' \subseteq (synced \ cloud) \cup Poison
  PROVE  ChargedOnce'
<1>1. (boots <= MaxRetries => PoisonIsAlone)'
  BY DEF ChargedOnce, PoisonIsAlone
<1>2. ASSUME NEW e \in Events \ (Poison \cup cloud')
      PROVE  retries'[e] <= boots' - 1 + Offered(e)'
  <2>0. retries \in [Events -> 0 .. MaxRetries] /\ boots \in 1 .. MaxBoots
    BY DEF IInv, TypeOK
  <2>1. retries[e] <= boots - 1 + Offered(e) /\ retries[e] \in Nat /\ boots \in Nat
    BY <1>2, <2>0, SizeAssumption DEF ChargedOnce
  <2>2. Offered(e)' = Offered(e) \/ (Offered(e) = 0 /\ Offered(e)' \in {0, 1})
    BY DEF Offered
  <2> QED
    BY <2>1, <2>2 DEF Offered
<1>3. (pc = "count" => batch \cap Poison # {} \/ batch \subseteq cloud)'
  BY DEF ChargedOnce
<1> QED
  BY <1>1, <1>2, <1>3 DEF ChargedOnce

(* A cycle begins.  The events it gives up have failed too often, and      *)
(* nobody but refused ones can have, while the program has died too        *)
(* seldom.                                                                 *)
LEMMA BeginSyncPoison == ASSUME IInv, ChargedOnce, BeginSync PROVE ChargedOnce'
<1>1. /\ UNCHANGED <<retries, boots, cloud>> /\ synced' = synced \cup Stuck
      /\ pc = "idle" /\ pc' # "count"
  BY DEF BeginSync, jobVars
<1>2. ASSUME boots <= MaxRetries, NEW e \in Stuck PROVE e \in Poison \cup cloud
  <2>1. e \in Events /\ retries[e] >= MaxRetries
    BY LogIsEvents DEF Stuck, Unsynced, IInv
  <2>2. retries[e] \in Nat /\ boots \in Nat /\ Offered(e) = 0
    BY <1>1, <2>1, SizeAssumption DEF IInv, TypeOK, Offered
  <2> QED
    BY <1>2, <2>1, <2>2, SizeAssumption DEF ChargedOnce
<1> QED
  BY <1>1, <1>2, NobodyCharged

LEMMA PostBatchPoison ==
  ASSUME IInv, ChargedOnce, PostBatch, ~requestLost
  PROVE  ChargedOnce'
<1>1. PICK a \in Answers(batch) : /\ cloud' = cloud \cup a.got
                                  /\ pc' = IF a.ok THEN "mark" ELSE "count"
  BY DEF PostBatch
<1>2. UNCHANGED <<retries, boots, synced, batch, todo>> /\ pc = "post"
  BY DEF PostBatch, busVars, rowVars
<1>3. pc' = "count" => batch \cap Poison # {} \/ batch \subseteq cloud'
  BY <1>2 DEF requestLost
<1>4. (boots <= MaxRetries => PoisonIsAlone)'
  BY <1>1, <1>2 DEF ChargedOnce, PoisonIsAlone
<1>5. ASSUME NEW e \in Events \ (Poison \cup cloud')
      PROVE  retries'[e] <= boots' - 1 + Offered(e)'
  <2>1. pc' # "singles"
    BY <1>1
  <2> QED
    BY <1>1, <1>2, <1>5, <2>1 DEF ChargedOnce, Offered
<1> QED
  BY <1>2, <1>3, <1>4, <1>5 DEF ChargedOnce

(* A batch of one event that is not refused has reached the cloud.         *)
LEMMA CountFailurePoison == ASSUME IInv, ChargedOnce, CountFailure PROVE ChargedOnce'
<1>1. /\ retries' = [e \in Events |-> IF e \in batch THEN retries[e] + 1 ELSE retries[e]]
      /\ UNCHANGED <<boots, cloud, synced>> /\ pc = "count" /\ pc' # "count"
      /\ pc' = "singles" => todo' = batch
      /\ pc' = "singles" \/ ~(Cardinality(batch) > 1)
  BY DEF CountFailure, Idle
<1>2. (boots <= MaxRetries => PoisonIsAlone)'
  BY <1>1 DEF ChargedOnce, PoisonIsAlone
<1>3. ASSUME NEW e \in Events \ (Poison \cup cloud), e \in batch PROVE pc' = "singles"
  <2>1. IsFiniteSet(batch)
    <3>1. batch \subseteq 1 .. published /\ published \in Nat
      BY SizeAssumption DEF IInv, TypeOK
    <3>2. IsFiniteSet(1 .. published)
      BY <3>1, FS_Interval
    <3> QED
      BY <3>1, <3>2, FS_Subset
  <2>2. PICK f \in batch : f # e
    BY <1>1, <1>3 DEF ChargedOnce
  <2>3. Cardinality({e, f}) = 2
    <3>1. IsFiniteSet({e}) /\ Cardinality({e}) = 1
      BY FS_Singleton
    <3>2. f \notin {e} /\ {e} \cup {f} = {e, f}
      BY <2>2
    <3>3. Cardinality({e} \cup {f}) = Cardinality({e}) + 1
      BY <3>1, <3>2, FS_AddElement
    <3> QED
      BY <3>1, <3>2, <3>3
  <2>4. Cardinality({e, f}) <= Cardinality(batch)
    BY <1>3, <2>1, <2>2, FS_Subset
  <2>5. Cardinality(batch) \in Nat
    BY <2>1, FS_CardinalityType
  <2> QED
    BY <1>1, <2>3, <2>4, <2>5
<1>4. ASSUME NEW e \in Events \ (Poison \cup cloud')
      PROVE  retries'[e] <= boots' - 1 + Offered(e)'
  <2>1. retries[e] <= boots - 1 /\ retries[e] \in Nat /\ boots \in Nat
    BY <1>1, <1>4, SizeAssumption DEF ChargedOnce, Offered, IInv, TypeOK
  <2>2. CASE e \in batch
    BY <1>1, <1>3, <1>4, <2>1, <2>2 DEF Offered
  <2>3. CASE e \notin batch
    <3>1. Offered(e)' \in {0, 1}
      BY DEF Offered
    <3> QED
      BY <1>1, <1>4, <2>1, <2>3, <3>1
  <2> QED
    BY <2>2, <2>3
<1> QED
  BY <1>1, <1>2, <1>4 DEF ChargedOnce

(* An event that is offered alone and not refused reaches the cloud.       *)
LEMMA PostOnePoison ==
  ASSUME IInv, ChargedOnce, NEW d \in todo, PostOne(d), ~requestLost
  PROVE  ChargedOnce'
<1>1. /\ UNCHANGED <<retries, boots, synced>> /\ pc = "singles"
      /\ todo' = todo \ {d} /\ pc' = IF todo = {d} THEN "mark" ELSE "singles"
      /\ cloud \subseteq cloud'
  BY DEF PostOne, busVars, rowVars
<1>2. (boots <= MaxRetries => PoisonIsAlone)'
  BY <1>1 DEF ChargedOnce, PoisonIsAlone
<1>3. d \in Poison \cup cloud'
  BY <1>1 DEF requestLost
<1>4. ASSUME NEW e \in Events \ (Poison \cup cloud')
      PROVE  retries'[e] <= boots' - 1 + Offered(e)'
  BY <1>1, <1>3, <1>4 DEF ChargedOnce, Offered
<1> QED
  BY <1>1, <1>2, <1>4 DEF ChargedOnce

LEMMA RestartPoison == ASSUME IInv, ChargedOnce, Restart PROVE ChargedOnce'
<1>1. boots' = boots + 1 /\ UNCHANGED <<retries, cloud, synced>> /\ pc' = "idle"
  BY DEF Restart, Idle, rowVars
<1>2. boots \in Nat /\ MaxRetries \in Nat
  BY SizeAssumption DEF IInv, TypeOK
<1>3. (boots <= MaxRetries => PoisonIsAlone)'
  BY <1>1, <1>2 DEF ChargedOnce, PoisonIsAlone
<1>4. ASSUME NEW e \in Events \ (Poison \cup cloud')
      PROVE  retries'[e] <= boots' - 1 + Offered(e)'
  <2>1. retries[e] <= boots - 1 + Offered(e) /\ retries[e] \in Nat
    BY <1>1, <1>4, SizeAssumption DEF ChargedOnce, IInv, TypeOK
  <2>2. Offered(e) \in {0, 1} /\ Offered(e)' = 0
    BY <1>1 DEF Offered
  <2> QED
    BY <1>1, <1>2, <2>1, <2>2
<1> QED
  BY <1>1, <1>3, <1>4 DEF ChargedOnce

LEMMA NextPoison == IInv /\ PoisonInv /\ [MCNext]_mcVars => PoisonInv'
<1> SUFFICES ASSUME IInv, PoisonInv, [MCNext]_mcVars PROVE PoisonInv'
  OBVIOUS
<1>1. CASE UNCHANGED mcVars
  BY <1>1 DEF PoisonInv, ChargedOnce, PoisonIsAlone, Offered, mcVars, vars, rowVars, jobVars
<1>2. CASE MCNext /\ outage'
  BY <1>2 DEF PoisonInv
<1>3. CASE MCNext /\ ~outage'
  <2> SUFFICES ChargedOnce'
    BY DEF PoisonInv
  <2>1. Next /\ ~requestLost /\ ChargedOnce
    BY <1>3 DEF MCNext, PoisonInv
  <2>2. CASE Publish
    BY <2>1, <2>2, NobodyCharged DEF Publish, rowVars, jobVars
  <2>12. CASE \E e \in saving : SaveEvent(e)
    BY <2>1, <2>12, NobodyCharged DEF SaveEvent, jobVars
  <2>3. CASE BeginSync
    BY <2>1, <2>3, BeginSyncPoison
  <2>4. CASE SendWs
    BY <2>1, <2>4, NobodyCharged DEF SendWs, Idle, rowVars
  <2>5. CASE PostBatch
    BY <2>1, <2>5, PostBatchPoison
  <2>6. CASE CountFailure
    BY <2>1, <2>6, CountFailurePoison
  <2>7. CASE MarkSynced
    <3>1. synced' \ cloud' \subseteq synced \ cloud
      BY <2>7 DEF MarkSynced, Marked, IInv, AcksAreTrue
    <3> QED
      BY <2>1, <2>7, <3>1, NobodyCharged DEF MarkSynced, Idle
  <2>8. CASE \E e \in todo : PostOne(e)
    BY <2>1, <2>8, PostOnePoison
  <2>9. CASE Connect \/ Disconnect \/ CloudTakes
    BY <2>1, <2>9, NobodyCharged
       DEF Connect, Disconnect, CloudTakes, rowVars, jobVars
  <2>10. CASE HandleWsAck
    <3>1. synced' \ cloud' \subseteq synced \ cloud
      BY <2>10 DEF HandleWsAck, IInv, AcksAreTrue
    <3> QED
      BY <2>1, <2>10, <3>1, NobodyCharged DEF HandleWsAck, jobVars
  <2>11. CASE Restart
    BY <2>1, <2>11, RestartPoison
  <2> QED
    BY <2>1, <2>2, <2>3, <2>4, <2>5, <2>6, <2>7, <2>8, <2>9, <2>10, <2>11,
       <2>12 DEF Next, SyncStep
<1> QED
  BY <1>1, <1>2, <1>3

(* An event the cloud refuses takes nobody with it, for any events, batch  *)
(* size and faults, as long as no request is lost and the program dies     *)
(* less than MAX_EVENT_RETRIES times.                                      *)
THEOREM RefusedAlone == MCSpec => []PoisonTakesNobody
<1>1. MCInit => IInv /\ PoisonInv
  BY InitIInv, InitPoison DEF MCInit
<1>2. [MCNext]_mcVars => [Next]_vars
  BY DEF MCNext, mcVars
<1>3. IInv /\ PoisonInv /\ [MCNext]_mcVars => (IInv /\ PoisonInv)'
  BY <1>2, StepIInv, NextPoison
<1>4. PoisonInv => PoisonTakesNobody
  BY DEF PoisonInv, ChargedOnce, PoisonTakesNobody
<1> QED
  BY <1>1, <1>3, <1>4, PTL DEF MCSpec

-----------------------------------------------------------------------------
(* The order of events.                                                    *)

(* The lock of the bus numbers the events of one run in their order.       *)
Numbered ==
  /\ run \in [Events -> 0 .. MaxBoots]
  /\ \A e \in 1 .. published : run[e] <= boots /\ (run[e] = boots => seqNum[e] <= counter)
  /\ \A e, f \in 1 .. published :
       f < e => run[f] < run[e] \/ (run[f] = run[e] /\ seqNum[f] < seqNum[e])

(* Whoever learns of the events of S, and has those of the cloud, learns   *)
(* in order.                                                               *)
InOrder(S) == \A e \in S, f \in logged \ (cloud \cup S) : f < e => MayOvertake(f, e)

OrderInv ==
  /\ Numbered
  /\ InOrder(batch) /\ \A m \in wire : InOrder(m)
  /\ CloudLearnsInOrder
  /\ pc = "singles" => \A e \in batch : retries[e] > 0

LEMMA PublishedAreEvents == ASSUME IInv PROVE 1 .. published \subseteq Events /\ published \in Nat
  BY SizeAssumption DEF IInv, TypeOK, Events

(* What no step takes back.                                                *)
LEMMA StepGrows ==
  ASSUME IInv, Numbered, [MCNext]_mcVars
  PROVE  /\ passed \subseteq passed' /\ logged \subseteq logged' /\ cloud \subseteq cloud'
         /\ overtakes \subseteq passed'
         /\ \A e \in Events : retries[e] <= retries'[e]
         /\ \A e \in 1 .. published : seqNum'[e] = seqNum[e] /\ run'[e] = run[e]
<1>0. /\ retries \in [Events -> 0 .. MaxRetries] /\ seqNum \in [Events -> 0 .. MaxEvents]
      /\ run \in [Events -> 0 .. MaxBoots]
  BY DEF IInv, TypeOK, Numbered
<1>1. CASE UNCHANGED mcVars
  <2>1. overtakes = {}
    BY <1>1 DEF overtakes, mcVars, vars, rowVars
  <2> QED
    BY <1>0, <1>1, <2>1, SizeAssumption DEF mcVars, vars, busVars, rowVars
<1>2. CASE MCNext
  <2>1. passed \subseteq passed' /\ overtakes \subseteq passed'
    BY <1>2 DEF MCNext
  <2>2. logged \subseteq logged' /\ cloud \subseteq cloud'
    BY <1>2 DEF MCNext, Next, SyncStep, Publish, SaveEvent, BeginSync, SendWs, PostBatch,
       CountFailure, MarkSynced, PostOne, Connect, Disconnect, CloudTakes, HandleWsAck, Restart,
       rowVars
  <2>3. \A e \in Events : retries[e] <= retries'[e]
    <3>1. CASE CountFailure
      BY <1>0, <3>1, SizeAssumption DEF CountFailure
    <3>2. CASE ~CountFailure
      <4>1. retries' = retries
        BY <1>2, <3>2 DEF MCNext, Next, SyncStep, Publish, SaveEvent, BeginSync, SendWs,
           PostBatch, MarkSynced, PostOne, Connect, Disconnect, CloudTakes, HandleWsAck, Restart,
           rowVars
      <4> QED
        BY <1>0, <4>1, SizeAssumption
    <3> QED
      BY <3>1, <3>2
  <2>4. ASSUME NEW e \in 1 .. published
        PROVE  seqNum'[e] = seqNum[e] /\ run'[e] = run[e]
    <3>1. e \in Events /\ published \in Nat /\ e # published + 1
      BY PublishedAreEvents
    <3>2. CASE Publish
      <4>1. saving' = saving \cup {published + 1}
            /\ seqNum' = [seqNum EXCEPT ![published + 1] = counter + 1]
        BY <3>2 DEF Publish
      <4> QED
        BY <1>0, <1>2, <3>1, <4>1 DEF MCNext
    <3>3. CASE ~Publish
      <4>1. saving' \subseteq saving /\ seqNum' = seqNum
        BY <1>2, <3>3 DEF MCNext, Next, SyncStep, SaveEvent, BeginSync, SendWs, PostBatch,
           CountFailure, MarkSynced, PostOne, Connect, Disconnect, CloudTakes, HandleWsAck,
           Restart, busVars
      <4> QED
        BY <1>2, <3>1, <4>1 DEF MCNext
    <3> QED
      BY <3>2, <3>3
  <2> QED
    BY <2>1, <2>2, <2>3, <2>4
<1> QED
  BY <1>1, <1>2

(* So who has learnt in order goes on having done so: a row that is new    *)
(* was passed by every younger one that was there before.                  *)
LEMMA OrderKept ==
  ASSUME IInv, Numbered, [MCNext]_mcVars, NEW S \in SUBSET logged, InOrder(S)
  PROVE  InOrder(S)'
<1> SUFFICES ASSUME NEW e \in S, NEW f \in logged' \ (cloud' \cup S), f < e
             PROVE  MayOvertake(f, e)'
  BY DEF InOrder
<1>1. CASE f \in logged
  <2>1. f \notin cloud \cup S /\ MayOvertake(f, e)
    BY <1>1, StepGrows DEF InOrder
  <2>2. e \in 1 .. published /\ f \in 1 .. published
    BY <1>1 DEF IInv, TypeOK
  <2>3. e \in Events /\ f \in Events
    BY <2>2, PublishedAreEvents
  <2>4. /\ retries[f] <= retries'[f] /\ retries[f] \in Nat
        /\ retries' \in [Events -> Nat]
    <3>1. IInv'
      BY StepIInv DEF MCNext, mcVars
    <3> QED
      BY <2>3, <3>1, StepGrows, SizeAssumption DEF IInv, TypeOK
  <2>5. retries'[f] \in Nat
    BY <2>3, <2>4
  <2>6. /\ seqNum'[e] = seqNum[e] /\ run'[e] = run[e]
        /\ seqNum'[f] = seqNum[f] /\ run'[f] = run[f]
        /\ passed \subseteq passed'
    BY <2>2, StepGrows
  <2> QED
    BY <2>1, <2>4, <2>5, <2>6 DEF MayOvertake
<1>2. CASE f \notin logged
  <2>1. <<f, e>> \in overtakes
    BY <1>2 DEF overtakes
  <2> QED
    BY <2>1, StepGrows DEF MayOvertake
<1> QED
  BY <1>1, <1>2

LEMMA NumberedKept == ASSUME IInv, Numbered, [MCNext]_mcVars PROVE Numbered'
<1>0. /\ published \in Nat /\ counter \in Nat /\ boots \in 1 .. MaxBoots /\ MaxBoots \in Nat
      /\ seqNum \in [Events -> 0 .. MaxEvents] /\ run \in [Events -> 0 .. MaxBoots]
      /\ 1 .. published \subseteq Events
  BY PublishedAreEvents, SizeAssumption DEF IInv, TypeOK, Numbered
<1>1. \A e \in 1 .. published : seqNum'[e] = seqNum[e] /\ run'[e] = run[e]
  BY StepGrows
<1>2. CASE UNCHANGED mcVars
  BY <1>2 DEF mcVars, vars, busVars, Numbered
<1>3. CASE MCNext /\ Publish
  <2>1. /\ published' = published + 1 /\ counter' = counter + 1 /\ UNCHANGED boots
        /\ seqNum' = [seqNum EXCEPT ![published + 1] = counter + 1]
        /\ saving' = saving \cup {published + 1} /\ published + 1 \in Events
    BY <1>0, <1>3, SizeAssumption DEF Publish, Events
  <2>2. published + 1 \notin saving
    BY <1>0 DEF IInv, TypeOK
  <2>3. run' = [e \in Events |-> IF e \in saving' \ saving THEN boots ELSE run[e]]
    BY <1>3 DEF MCNext
  <2>4. run'[published + 1] = boots /\ seqNum'[published + 1] = counter + 1
    BY <1>0, <2>1, <2>2, <2>3
  <2>5. run' \in [Events -> 0 .. MaxBoots]
    BY <1>0, <2>3
  <2>6. \A e \in 1 .. published' : e \in 1 .. published \/ e = published + 1
    BY <1>0, <2>1
  <2>7. ASSUME NEW e \in 1 .. published'
        PROVE  run'[e] <= boots' /\ (run'[e] = boots' => seqNum'[e] <= counter')
    <3>1. CASE e = published + 1
      BY <1>0, <2>1, <2>4, <3>1
    <3>2. CASE e \in 1 .. published
      <4>1. /\ run'[e] = run[e] /\ seqNum'[e] = seqNum[e] /\ run[e] <= boots
            /\ (run[e] = boots => seqNum[e] <= counter)
            /\ seqNum[e] \in 0 .. MaxEvents
        BY <1>0, <1>1, <3>2 DEF Numbered
      <4> QED
        BY <1>0, <2>1, <4>1, SizeAssumption
    <3> QED
      BY <2>6, <3>1, <3>2
  <2>8. ASSUME NEW e \in 1 .. published', NEW f \in 1 .. published', f < e
        PROVE  run'[f] < run'[e] \/ (run'[f] = run'[e] /\ seqNum'[f] < seqNum'[e])
    <3>1. f \in 1 .. published
      BY <1>0, <2>1, <2>8
    <3>2. CASE e \in 1 .. published
      BY <1>1, <2>8, <3>1, <3>2 DEF Numbered
    <3>3. CASE e = published + 1
      <4>1. /\ run'[f] = run[f] /\ seqNum'[f] = seqNum[f] /\ run[f] <= boots
            /\ (run[f] = boots => seqNum[f] <= counter)
            /\ seqNum[f] \in 0 .. MaxEvents /\ run[f] \in 0 .. MaxBoots
        BY <1>0, <1>1, <3>1 DEF Numbered
      <4>2. run'[e] = boots /\ seqNum'[e] = counter + 1 /\ MaxEvents \in Nat
        BY <2>4, <3>3, SizeAssumption
      <4> QED
        BY <1>0, <4>1, <4>2
    <3> QED
      BY <2>6, <3>2, <3>3
  <2> QED
    BY <2>5, <2>7, <2>8 DEF Numbered
<1>4. CASE MCNext /\ ~Publish
  <2>1. /\ published' = published /\ saving' \subseteq saving
        /\ \/ UNCHANGED <<counter, boots>>
           \/ boots' = boots + 1
    BY <1>4 DEF MCNext, Next, SyncStep, SaveEvent, BeginSync, SendWs, PostBatch, CountFailure,
       MarkSynced, PostOne, Connect, Disconnect, CloudTakes, HandleWsAck, Restart, busVars
  <2>2. run' = [e \in Events |-> run[e]]
    BY <1>4, <2>1 DEF MCNext
  <2>3. run' = run
    BY <1>0, <2>2
  <2>4. ASSUME NEW e \in 1 .. published
        PROVE  run[e] <= boots' /\ (run[e] = boots' => seqNum[e] <= counter')
    <3>1. run[e] <= boots /\ (run[e] = boots => seqNum[e] <= counter) /\ run[e] \in 0 .. MaxBoots
      BY <1>0 DEF Numbered
    <3> QED
      BY <1>0, <2>1, <3>1
  <2> QED
    BY <1>1, <2>1, <2>3, <2>4 DEF Numbered
<1> QED
  BY <1>2, <1>3, <1>4

(* A batch is read in the order of the numbers.                            *)
LEMMA BatchInOrder ==
  ASSUME IInv, Numbered, [MCNext]_mcVars, BeginSync,
         NEW B \in Batches(Unsynced \ Stuck)
  PROVE  InOrder(B)'
<1>1. UNCHANGED <<logged, cloud, retries, seqNum, saving>>
  BY DEF BeginSync, busVars
<1>2. B \subseteq Unsynced \ Stuck
  BY BatchIsSubset
<1> SUFFICES ASSUME NEW e \in B, NEW f \in logged \ (cloud \cup B), f < e
             PROVE  MayOvertake(f, e)'
  BY <1>1 DEF InOrder
<1>3. e \in 1 .. published /\ f \in 1 .. published /\ e \in Events /\ f \in Events
  BY <1>2, PublishedAreEvents DEF IInv, TypeOK, Unsynced
<1>4. /\ run'[e] = run[e] /\ run'[f] = run[f]
      /\ retries[f] \in Nat /\ seqNum[e] \in Nat /\ seqNum[f] \in Nat
      /\ run[e] \in Nat /\ run[f] \in Nat
  BY <1>3, StepGrows, SizeAssumption DEF IInv, TypeOK, Numbered
<1>5. CASE f \in synced \cup Stuck
  <2>1. retries[f] >= MaxRetries
    BY <1>5 DEF IInv, OnlyStuckAreDropped, Stuck
  <2> QED
    BY <1>1, <1>4, <2>1, SizeAssumption DEF MayOvertake
<1>6. CASE f \notin synced \cup Stuck
  <2>1. seqNum[e] <= seqNum[f]
    BY <1>6, <1>2 DEF Batches, Unsynced
  <2>2. run[f] < run[e]
    BY <1>3, <1>4, <2>1 DEF Numbered
  <2> QED
    BY <1>1, <1>4, <2>1, <2>2 DEF MayOvertake
<1> QED
  BY <1>5, <1>6

LEMMA NextOrder == IInv /\ OrderInv /\ [MCNext]_mcVars => OrderInv'
<1> SUFFICES ASSUME IInv, OrderInv, [MCNext]_mcVars PROVE OrderInv'
  OBVIOUS
<1>1. Numbered'
  BY NumberedKept DEF OrderInv
<1>2. PICK B : B = batch
  OBVIOUS
<1>3. PICK C : C = cloud
  OBVIOUS
<1>4. B \in SUBSET logged /\ C \in SUBSET logged /\ \A m \in wire : m \in SUBSET logged
  BY <1>2, <1>3 DEF IInv, TypeOK
<1>5. InOrder(B) /\ InOrder(C) /\ (\A m \in wire : InOrder(m))
      /\ (pc = "singles" => \A e \in B : retries[e] > 0)
  BY <1>2, <1>3 DEF OrderInv, CloudLearnsInOrder, InOrder
<1>6. InOrder(B)' /\ InOrder(C)' /\ \A m \in wire : InOrder(m)'
  BY <1>4, <1>5, OrderKept DEF OrderInv
<1>7. InOrder(batch)'
  <2>1. CASE BeginSync /\ batch' # batch
    <3>1. PICK D \in Batches(Unsynced \ Stuck) : batch' = D
      BY <2>1 DEF BeginSync, jobVars
    <3>2. InOrder(D)'
      BY <2>1, BatchInOrder DEF OrderInv
    <3> QED
      BY <3>1, <3>2 DEF InOrder
  <2>2. CASE batch' = B
    BY <2>2, <1>6 DEF InOrder
  <2>3. CASE batch' = {}
    BY <2>3 DEF InOrder
  <2>4. (BeginSync /\ batch' # batch) \/ batch' = B \/ batch' = {}
    BY <1>2 DEF MCNext, mcVars, vars, Next, SyncStep, Publish, SaveEvent, BeginSync, SendWs,
       PostBatch, CountFailure, MarkSynced, PostOne, Connect, Disconnect, CloudTakes,
       HandleWsAck, Restart, Idle, jobVars
  <2> QED
    BY <2>1, <2>2, <2>3, <2>4
<1>8. (\A m \in wire : InOrder(m))'
  <2>1. wire' \subseteq wire \cup {B}
    BY <1>2 DEF MCNext, mcVars, vars, Next, SyncStep, Publish, SaveEvent, BeginSync, SendWs,
       PostBatch, CountFailure, MarkSynced, PostOne, Connect, Disconnect, CloudTakes,
       HandleWsAck, Restart, Idle, linkVars
  <2> QED
    BY <2>1, <1>6 DEF InOrder
<1>9. CloudLearnsInOrder'
  <2>1. CASE \E m \in wire \cup {B} : cloud' = C \cup m
    <3>1. PICK m \in wire \cup {B} : cloud' = C \cup m
      BY <2>1
    <3>2. InOrder(m)'
      BY <3>1, <1>6
    <3> QED
      BY <3>1, <3>2, <1>6 DEF CloudLearnsInOrder, InOrder
  <2>2. CASE cloud' = C
    BY <2>2, <1>6 DEF CloudLearnsInOrder, InOrder
  <2>3. CASE pc = "singles" /\ UNCHANGED retries /\ \E e \in B : cloud' = C \cup {e}
    <3>1. PICK d \in B : cloud' = C \cup {d}
      BY <2>3
    <3>2. ASSUME NEW e \in cloud', NEW f \in logged' \ cloud', f < e
          PROVE  MayOvertake(f, e)'
      <4>1. CASE e \in C
        BY <1>6, <3>1, <3>2, <4>1 DEF InOrder
      <4>2. CASE e = d /\ f \in B
        BY <1>5, <2>3, <4>2 DEF MayOvertake
      <4>3. CASE e = d /\ f \notin B
        BY <1>6, <3>2, <4>3 DEF InOrder
      <4> QED
        BY <3>1, <3>2, <4>1, <4>2, <4>3
    <3> QED
      BY <3>2 DEF CloudLearnsInOrder
  <2>4. CASE \E e \in todo : PostOne(e)
    <3>1. PICK e \in todo : PostOne(e)
      BY <2>4
    <3>2. PICK a \in Answers({e}) : cloud' = cloud \cup a.got
      BY <3>1 DEF PostOne
    <3>3. a.got = {} \/ a.got = {e}
      BY AnswersSound
    <3>4. e \in B
      BY <1>2 DEF IInv, TypeOK
    <3> QED
      BY <1>3, <2>2, <2>3, <3>1, <3>2, <3>3, <3>4 DEF PostOne, rowVars
  <2>5. CASE PostBatch
    <3>1. PICK a \in Answers(batch) : cloud' = cloud \cup a.got
      BY <2>5 DEF PostBatch
    <3>2. a.got = {} \/ a.got = B
      BY <1>2 DEF Answers
    <3> QED
      BY <1>3, <2>1, <2>2, <3>1, <3>2
  <2>6. CASE CloudTakes
    BY <1>3, <2>1, <2>2, <2>6 DEF CloudTakes
  <2>7. CASE ~PostBatch /\ ~CloudTakes /\ ~(\E e \in todo : PostOne(e))
    <3>1. cloud' = cloud
      BY <2>7 DEF MCNext, mcVars, vars, Next, SyncStep, Publish, SaveEvent, BeginSync, SendWs,
         CountFailure, MarkSynced, Connect, Disconnect, HandleWsAck, Restart
    <3> QED
      BY <1>3, <2>2, <3>1
  <2> QED
    BY <2>4, <2>5, <2>6, <2>7
<1>10. (pc = "singles" => \A e \in batch : retries[e] > 0)'
  <2>1. CASE CountFailure
    <3>1. /\ retries' = [e \in Events |-> IF e \in batch THEN retries[e] + 1 ELSE retries[e]]
          /\ batch' = batch \/ batch' = {}
      BY <2>1 DEF CountFailure, Idle
    <3>2. \A e \in batch : e \in Events /\ retries[e] \in Nat
      BY PublishedAreEvents, SizeAssumption DEF IInv, TypeOK
    <3> QED
      BY <3>1, <3>2
  <2>2. CASE ~CountFailure
    <3>1. pc' = "singles" => UNCHANGED <<pc, batch, retries>>
      BY <2>2 DEF MCNext, mcVars, vars, Next, SyncStep, Publish, SaveEvent, BeginSync, SendWs,
         PostBatch, MarkSynced, PostOne, Connect, Disconnect, CloudTakes, HandleWsAck, Restart,
         Idle, jobVars, rowVars
    <3> QED
      BY <1>2, <1>5, <3>1
  <2> QED
    BY <2>1, <2>2
<1> QED
  BY <1>1, <1>7, <1>8, <1>9, <1>10 DEF OrderInv

(* The cloud learns of the events in the order in which the bus numbered   *)
(* them, whatever the publishers' threads, the two ways to the cloud, the  *)
(* two threads that mark events, outages, lost answers and restarts do:    *)
(* an event passes an older one of the log only if it was stored first, if *)
(* a batch with the older one has failed, or if a restart came between.    *)
THEOREM EventsInOrder == MCSpec => []CloudLearnsInOrder
<1>1. MCInit => IInv /\ OrderInv
  <2> SUFFICES ASSUME MCInit PROVE OrderInv
    BY InitIInv DEF MCInit
  <2>1. Numbered
    BY SizeAssumption DEF MCInit, Init, Numbered
  <2>2. InOrder(batch) /\ (\A m \in wire : InOrder(m)) /\ CloudLearnsInOrder /\ pc # "singles"
    BY DEF MCInit, Init, InOrder, CloudLearnsInOrder
  <2> QED
    BY <2>1, <2>2 DEF OrderInv
<1>2. [MCNext]_mcVars => [Next]_vars
  BY DEF MCNext, mcVars
<1>3. IInv /\ OrderInv /\ [MCNext]_mcVars => (IInv /\ OrderInv)'
  BY <1>2, StepIInv, NextOrder
<1>4. OrderInv => CloudLearnsInOrder
  BY DEF OrderInv
<1> QED
  BY <1>1, <1>3, <1>4, PTL DEF MCSpec
=============================================================================
