------------------------------ MODULE DaemonLink ------------------------------
(***************************************************************************)
(* The hardware daemon (hw_daemon.py), its client in the interface's       *)
(* process (hal/socket_client.py) and the TCP connection between them.     *)
(* The daemon is one event loop: it polls the RFID readers and broadcasts  *)
(* what has changed, it broadcasts its health, and it carries out the      *)
(* client's commands one after the other.  In the client a thread reads    *)
(* what arrives and keeps the tags in a cache, which the drivers there     *)
(* call their readings; other threads send commands and wait for the       *)
(* answer in a slot they share.                                            *)
(*                                                                         *)
(* The connection keeps the order of what it carries and loses nothing     *)
(* while it lasts.  The program connects once.  Weights and lights are     *)
(* left out; a call is numbered here, although its messages have no        *)
(* number.                                                                 *)
(***************************************************************************)
EXTENDS Naturals, Sequences, FiniteSets

CONSTANTS
  Tags,       \* the tags of the cans
  Callers,    \* the client's threads that send commands
  None,       \* no message
  MaxCalls,   \* a bound on the commands sent
  MaxDown,    \* a bound on what is on its way to the client
  Env         \* what may happen: some of Faults

Commands == {"tare", "write_tag"}
Faults == {"outage",   \* rfid.is_healthy() turns FALSE and TRUE again
           "quiet"}    \* the client sends nothing for 30 seconds

ASSUME BoundAssumption == MaxCalls \in Nat /\ MaxDown \in Nat \ {0}
ASSUME EnvAssumption == Env \subseteq Faults

VARIABLES
  shelf, rfid,            \* the tags on the readers; the driver's health
  hwReady,                \* _hw_ready
  previous, rfidHealthy,  \* _previous_tags, _rfid_healthy of the daemon
  found, casting, todo,   \* the poll under way: what it found, and the tags
                          \* it has still to broadcast
  paused, busy,           \* _rfid_pause; the command under way
  registered,             \* is the client in _clients?
  down, up,               \* what is on its way, each way
  open,                   \* _connected
  joined,                 \* when the client connected: before or after hwReady
  tags, health,           \* _current_tags, _sensor_status["rfid"]
  call,                   \* what each caller is doing
  calls,                  \* the commands sent so far
  expected, answered, data,   \* _response_types, _response_event, _response_data
  muddled                 \* has a call timed out, or begun during another?

shelfVars  == <<shelf, rfid>>
pollVars   == <<previous, rfidHealthy, found, casting, todo>>
daemonVars == <<hwReady, pollVars, paused, busy, registered>>
viewVars   == <<joined, tags, health>>
slotVars   == <<expected, answered, data>>
callVars   == <<call, calls, muddled>>
vars == <<shelfVars, daemonVars, down, up, open, viewVars, slotVars, callVars>>

Numbers == 0 .. MaxCalls
Command == [kind : Commands, call : Numbers]
Message == [kind : {"init", "weight", "error", "ping"}]
             \cup [kind : {"appeared", "disappeared"}, tag : Tags]
             \cup [kind : {"health"}, ok : BOOLEAN]
             \cup [kind : Commands, call : Numbers]
NoCall == [pc |-> "idle", kind |-> "tare", call |-> 0]
Call == [pc : {"idle", "armed", "waiting"}, kind : Commands, call : Numbers]

TypeOK ==
  /\ shelf \subseteq Tags /\ rfid \in BOOLEAN /\ hwReady \in BOOLEAN
  /\ previous \subseteq Tags /\ rfidHealthy \in BOOLEAN
  /\ found \subseteq Tags /\ casting \in BOOLEAN /\ todo \subseteq Tags
  /\ paused \in BOOLEAN /\ busy \in Command \cup {None} /\ registered \in BOOLEAN
  /\ down \in Seq(Message) /\ up \in Seq(Command) /\ open \in BOOLEAN
  /\ joined \in {"not", "early", "late"} /\ tags \subseteq Tags /\ health \in BOOLEAN
  /\ call \in [Callers -> Call] /\ calls \in Numbers
  /\ expected \subseteq Commands /\ answered \in BOOLEAN
  /\ data \in [kind : Commands, call : Numbers] \cup {None}
  /\ muddled \in BOOLEAN

Init ==
  /\ shelf \in SUBSET Tags /\ rfid = TRUE
  /\ hwReady = FALSE /\ previous = {} /\ rfidHealthy = TRUE
  /\ found = {} /\ casting = FALSE /\ todo = {}
  /\ paused = FALSE /\ busy = None /\ registered = FALSE
  /\ down = <<>> /\ up = <<>> /\ open = FALSE
  /\ joined = "not" /\ tags = {} /\ health = FALSE
  /\ call = [c \in Callers |-> NoCall]
  /\ calls = 0
  /\ expected = {} /\ answered = FALSE /\ data = None
  /\ muddled = FALSE

-----------------------------------------------------------------------------
(* The daemon.                                                             *)

(* _broadcast to the one client there is.                                  *)
Room == Len(down) < MaxDown
Broadcast(m) == down' = IF registered THEN Append(down, m) ELSE down
Reply(m) == down' = Append(down, m)

(* start: the port is open long before the hardware is ready.              *)
HardwareReady ==
  /\ ~hwReady /\ Room
  /\ hwReady' = TRUE
  /\ Broadcast([kind |-> "health", ok |-> rfid])
  /\ UNCHANGED <<shelfVars, pollVars, paused, busy, registered, up, open, viewVars,
                 slotVars, callVars>>

Polled_Sticky == rfidHealthy \/ rfid
Polled == rfid

Gone_WhenHealthy(ids) == IF rfid THEN previous \ ids ELSE {}
Gone(ids) == previous \ ids

(* _poll_rfid_loop: the readers are read in another thread.  With RFID     *)
(* down every tag counts as gone.                                          *)
PollRfid ==
  /\ hwReady /\ ~paused /\ ~casting
  /\ rfidHealthy' = Polled
  /\ found' = IF rfid THEN shelf ELSE {}
  /\ todo' = (found' \ previous) \cup Gone(found')
  /\ casting' = TRUE
  /\ UNCHANGED <<shelfVars, hwReady, previous, paused, busy, registered, down, up, open,
                 viewVars, slotVars, callVars>>

(* New tags first.  Other coroutines may run between two broadcasts if     *)
(* the client reads slowly.                                                *)
CastTag(t) ==
  /\ casting /\ t \in todo /\ Room
  /\ t \in found \/ todo \cap found = {}
  /\ Broadcast([kind |-> IF t \in found THEN "appeared" ELSE "disappeared", tag |-> t])
  /\ todo' = todo \ {t}
  /\ UNCHANGED <<shelfVars, hwReady, previous, rfidHealthy, found, casting, paused, busy,
                 registered, up, open, viewVars, slotVars, callVars>>

Remember_All == previous' = previous \cup found
Remember == previous' = found

CastDone ==
  /\ casting /\ todo = {}
  /\ casting' = FALSE /\ found' = {}
  /\ Remember
  /\ UNCHANGED <<shelfVars, hwReady, rfidHealthy, todo, paused, busy, registered,
                 down, up, open, viewVars, slotVars, callVars>>

(* _poll_status_loop.                                                      *)
CastStatus ==
  /\ hwReady /\ Room
  /\ Broadcast([kind |-> "health", ok |-> rfidHealthy])
  /\ UNCHANGED <<shelfVars, daemonVars, up, open, viewVars, slotVars, callVars>>

(* _poll_weight_loop.  A weight matters here only as the message that may  *)
(* follow the first one.                                                   *)
CastWeight ==
  /\ hwReady /\ Room
  /\ down # <<>> /\ down[Len(down)] = [kind |-> "init"]
  /\ Broadcast([kind |-> "weight"])
  /\ UNCHANGED <<shelfVars, daemonVars, up, open, viewVars, slotVars, callVars>>

(* _handle_command.  A write holds up the polls until it is done.          *)
BeginCommand ==
  /\ registered /\ busy = None /\ up # <<>> /\ Room
  /\ up' = Tail(up)
  /\ LET m == Head(up) IN
       IF hwReady
         THEN busy' = m /\ paused' = (m.kind = "write_tag") /\ UNCHANGED down
         ELSE Reply([kind |-> "error"]) /\ UNCHANGED <<busy, paused>>
  /\ UNCHANGED <<shelfVars, hwReady, pollVars, registered, open, viewVars, slotVars, callVars>>

FinishCommand ==
  /\ busy # None /\ Room
  /\ Reply([kind |-> busy.kind, call |-> busy.call])
  /\ busy' = None /\ paused' = FALSE
  /\ UNCHANGED <<shelfVars, hwReady, pollVars, registered, up, open, viewVars, slotVars, callVars>>

(* _handle_client, when no command has come for 30 seconds: it sends a     *)
(* ping and closes the connection.                                         *)
CloseQuiet ==
  /\ "quiet" \in Env /\ registered /\ busy = None /\ up = <<>> /\ Room
  /\ Reply([kind |-> "ping"])
  /\ registered' = FALSE
  /\ UNCHANGED <<shelfVars, hwReady, pollVars, paused, busy, up, open, viewVars, slotVars, callVars>>

PollStep == PollRfid \/ CastDone \/ \E t \in Tags : CastTag(t)
CommandStep == BeginCommand \/ FinishCommand

-----------------------------------------------------------------------------
(* The client.                                                             *)

(* connect, and the beginning of _handle_client: the client is registered  *)
(* and sent the first message, which has no newline.                       *)
Connect ==
  /\ joined = "not"
  /\ joined' = IF hwReady THEN "late" ELSE "early"
  /\ open' = TRUE /\ registered' = TRUE
  /\ down' = <<[kind |-> "init"]>>
  /\ UNCHANGED <<shelfVars, hwReady, pollVars, paused, busy, up, tags, health, slotVars, callVars>>

(* Is m what the caller in the slot waits for?                             *)
IsAnswer_Any(m) == TRUE
IsAnswer(m) == m.kind \in expected

(* _dispatch.                                                              *)
Dispatch(m) ==
  /\ tags' = CASE m.kind = "appeared"    -> tags \cup {m.tag}
               [] m.kind = "disappeared" -> tags \ {m.tag}
               [] OTHER -> tags
  /\ health' = IF m.kind = "health" THEN m.ok ELSE health
  /\ IF IsAnswer(m)
       THEN answered' = TRUE /\ data' = m
       ELSE UNCHANGED <<answered, data>>

(* _read_loop.  Without a newline of its own the first message makes one   *)
(* line with the next, which is no JSON: both are dropped.                 *)
ReadLine ==
  /\ open /\ down # <<>>
  /\ IF Head(down).kind = "init"
       THEN /\ Len(down) >= 2
            /\ down' = Tail(Tail(down))
            /\ UNCHANGED <<tags, health, answered, data>>
       ELSE Dispatch(Head(down)) /\ down' = Tail(down)
  /\ UNCHANGED <<shelfVars, daemonVars, up, open, joined, expected, callVars>>

(* The end of the connection: the caches stay, and nothing connects again. *)
ReadEnd ==
  /\ open /\ ~registered
  /\ down \in {<<>>, <<[kind |-> "init"]>>}
  /\ open' = FALSE
  /\ UNCHANGED <<shelfVars, daemonVars, down, up, viewVars, slotVars, callVars>>

(* _send_raw.  To a connection the daemon has closed it may fail or not.   *)
SendRaw(m) ==
  /\ up' = IF open /\ registered THEN Append(up, m) ELSE up
  /\ open' \in IF open /\ ~registered THEN {TRUE, FALSE} ELSE {open}

Reset_KeepsEvent == UNCHANGED <<answered, data>>
Reset == answered' = FALSE /\ data' = None

(* send_command, in three steps: the slot is prepared, the command is      *)
(* sent, and the caller waits.                                             *)
Arm(c, k) ==
  /\ joined # "not" /\ call[c].pc = "idle" /\ calls < MaxCalls
  /\ calls' = calls + 1
  /\ call' = [call EXCEPT ![c] = [pc |-> "armed", kind |-> k, call |-> calls + 1]]
  /\ Reset
  /\ expected' = {k}
  /\ muddled' = (muddled \/ \E d \in Callers : call[d].pc # "idle")
  /\ UNCHANGED <<shelfVars, daemonVars, down, up, open, viewVars>>

Send(c) ==
  /\ call[c].pc = "armed"
  /\ call' = [call EXCEPT ![c].pc = "waiting"]
  /\ SendRaw([kind |-> call[c].kind, call |-> call[c].call])
  /\ UNCHANGED <<shelfVars, daemonVars, down, viewVars, slotVars, calls, muddled>>

Return(c) ==
  /\ call[c].pc = "waiting" /\ answered
  /\ call' = [call EXCEPT ![c] = NoCall]
  /\ UNCHANGED <<shelfVars, daemonVars, down, up, open, viewVars, slotVars, calls, muddled>>

TimeOut(c) ==
  /\ call[c].pc = "waiting" /\ ~answered
  /\ call' = [call EXCEPT ![c] = NoCall]
  /\ muddled' = TRUE
  /\ UNCHANGED <<shelfVars, daemonVars, down, up, open, viewVars, slotVars, calls>>

-----------------------------------------------------------------------------
(* The crew and the readers.                                               *)
Move(t) ==
  /\ shelf' = IF t \in shelf THEN shelf \ {t} ELSE shelf \cup {t}
  /\ UNCHANGED <<rfid, daemonVars, down, up, open, viewVars, slotVars, callVars>>

RfidHealth ==
  /\ "outage" \in Env
  /\ rfid' = ~rfid
  /\ UNCHANGED <<shelf, daemonVars, down, up, open, viewVars, slotVars, callVars>>

Next == \/ HardwareReady \/ PollStep \/ CastStatus \/ CastWeight \/ CommandStep \/ CloseQuiet
        \/ Connect \/ ReadLine \/ ReadEnd \/ RfidHealth
        \/ \E c \in Callers : \/ \E k \in Commands : Arm(c, k)
                              \/ Send(c) \/ Return(c) \/ TimeOut(c)
        \/ \E t \in Tags : Move(t)

Spec == Init /\ [][Next]_vars

(* The daemon's coroutines get their turn although the client may read     *)
(* slowly, a command comes to an end, and the reader thread runs.          *)
FairSpec == /\ Spec
            /\ WF_vars(HardwareReady) /\ WF_vars(Connect) /\ WF_vars(ReadLine)
            /\ WF_vars(PollRfid) /\ WF_vars(CastDone)
            /\ \A t \in Tags : SF_vars(CastTag(t))
            /\ SF_vars(CastStatus) /\ SF_vars(CommandStep)

-----------------------------------------------------------------------------
(* Nothing is under way.                                                   *)
drained == registered /\ ~casting /\ down \in {<<>>, <<[kind |-> "init"]>>}

(* The client's cache is the daemon's view once everything has arrived:    *)
(* no can is there that the daemon does not see, and for a client that     *)
(* connected before the hardware was ready, none is missing.               *)
CacheMatches ==
  drained => tags \subseteq previous /\ (joined = "early" => tags = previous)

(* A can that stays on a reader comes to be known to a client that         *)
(* connected in time, as long as RFID and the connection last.             *)
CanIsSeen ==
  \A t \in Tags : t \in shelf /\ joined = "early"
                    ~> t \in tags \/ t \notin shelf \/ ~rfid \/ ~registered

(* What the client takes for the health of RFID is right in the end.        *)
HealthIsSeen ==
  \A b \in BOOLEAN : <>[](rfid = b /\ registered) => <>[](health = b)

(* The client comes to see what the daemon sees.                           *)
ClientFollows == CanIsSeen /\ HealthIsSeen

(* A caller is handed the answer of its own command: a wrong one takes a   *)
(* call that timed out before or that began during another.                *)
OwnAnswer ==
  \A c \in Callers : call[c].pc = "waiting" /\ answered /\ ~muddled
                       => data.call = call[c].call

(* The daemon does not drop a client that is there.                        *)
NoClientDropped == [][registered /\ open => registered']_vars
=============================================================================
