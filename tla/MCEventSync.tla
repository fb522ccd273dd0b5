----------------------------- MODULE MCEventSync -----------------------------
(***************************************************************************)
(* EventSync for TLC, with notes of what the network and the publishers    *)
(* have done: some of what the queue promises, it promises while requests  *)
(* reach the cloud, or to events that did not overtake one another on      *)
(* their way into the log.                                                 *)
(***************************************************************************)
EXTENDS EventSync

VARIABLES
  outage,   \* has a request the cloud would have taken failed to reach it?
  passed,   \* <<f, e>>: e was numbered after f, and stored before it
  run       \* for each event, the start of the program that numbered it

requestLost ==
  \/ pc = "post" /\ pc' = "count" /\ batch \cap Poison = {} /\ ~(batch \subseteq cloud')
  \/ /\ pc = "singles" /\ pc' \in {"singles", "mark"}
     /\ \E e \in todo \ todo' : e \notin Poison \cup cloud'

overtakes == {p \in (logged' \ logged) \X logged : p[1] < p[2]}

MCInit == Init /\ outage = FALSE /\ passed = {} /\ run = [e \in Events |-> 0]
MCNext == /\ Next
          /\ outage' = (outage \/ requestLost)
          /\ passed' = passed \cup overtakes
          /\ run' = [e \in Events |-> IF e \in saving' \ saving THEN boots ELSE run[e]]
mcVars == <<vars, outage, passed, run>>
MCSpec == /\ MCInit /\ [][MCNext]_mcVars
          /\ WF_vars(SyncStep) /\ SF_vars(CloudTakes) /\ SF_vars(HandleWsAck)

(* An event the cloud refuses takes nobody with it: every other event of   *)
(* its batches reaches the cloud, as long as no request is lost on the way *)
(* there and the program does not die MAX_EVENT_RETRIES times between a    *)
(* batch and the events one by one.                                        *)
PoisonTakesNobody == ~outage /\ boots <= MaxRetries => PoisonIsAlone

(* Why the cloud may have e without the older event f of the log: the      *)
(* publishers' threads stored them the other way round, a batch with f has *)
(* failed, or the program has started again between them and numbers its   *)
(* events from one.                                                        *)
MayOvertake(f, e) ==
  \/ <<f, e>> \in passed
  \/ retries[f] > 0
  \/ run[f] < run[e] /\ seqNum[e] <= seqNum[f]

(* The cloud learns of the events in their order, but for these: neither   *)
(* the two ways to it, nor the two threads that mark events, nor an        *)
(* acknowledgement that comes late let one event pass another.             *)
CloudLearnsInOrder ==
  \A e \in cloud, f \in logged \ cloud : f < e => MayOvertake(f, e)
=============================================================================
