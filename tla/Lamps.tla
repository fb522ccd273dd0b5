------------------------------- MODULE Lamps -------------------------------
(***************************************************************************)
(* The shelf's lamps: hal/real/real_led_arduino.py, the queue of commands  *)
(* in the weight driver, and the pins of the Arduino.  The engines and the *)
(* interface say how a lamp is to be, on whatever thread they run; a       *)
(* thread of the driver makes the lamps blink and brings each one to what  *)
(* was said; the weight driver's reader sends the commands when it gets to *)
(* them.  Only the dictionary of what was said is under a lock.            *)
(***************************************************************************)
EXTENDS Naturals, Sequences

CONSTANTS
  Slots,         \* the slots that have a lamp
  Users,         \* the threads that set lamps
  AllSlots,      \* names every lamp in a command
  NoSlot,        \* no command
  MaxQueued,     \* the size of _cmd_queue
  MaxSets        \* a bound on the calls of the users

Shown == {"solid", "blink"}
Command == [slot : Slots \cup {AllSlots}, on : BOOLEAN]

VARIABLES
  config,        \* _slot_config; "none" for a slot that is not in it
  hw,            \* _hw_state: what each lamp is taken to be
  commands,      \* _cmd_queue
  lamp,          \* the Arduino's pins
  user,          \* what each user is doing
  sets,          \* the calls so far
  copied,        \* the blink thread's copy of config, less what it has handled
  sending,       \* the command it is about to queue
  awake,         \* has its pass begun? It acts on a copy then.
  settled,       \* has a pass begun since the users last changed something?
  crossed,       \* lamps whose last command was dropped, lost or crossed
  overtaken      \* lamps that were cleared while the pass held an older copy

lampVars == <<config, hw, commands, lamp, user, sets, copied, sending, awake, settled,
              crossed, overtaken>>

(* What the proofs need of the constants.                                  *)
LampAssumption == /\ AllSlots \notin Slots /\ NoSlot \notin Slots \cup {AllSlots}
                  /\ MaxSets \in Nat /\ MaxQueued \in Nat

NoneSent == [slot |-> NoSlot, on |-> FALSE]
Resting == [pc |-> "idle", slot |-> NoSlot]
Off == [s \in Slots |-> FALSE]

TypeOK ==
  /\ config \in [Slots -> Shown \cup {"none", "off"}]
  /\ hw \in [Slots -> BOOLEAN] /\ lamp \in [Slots -> BOOLEAN]
  /\ commands \in Seq(Command) /\ Len(commands) <= MaxQueued
  /\ user \in [Users -> [pc : {"idle", "configured", "noted"},
                         slot : Slots \cup {AllSlots, NoSlot}]]
  /\ sets \in 0 .. MaxSets
  /\ copied \in [Slots -> Shown \cup {"none", "off"}]
  /\ sending \in Command \cup {NoneSent} /\ awake \in BOOLEAN
  /\ settled \in BOOLEAN /\ crossed \subseteq Slots /\ overtaken \subseteq Slots

Init ==
  /\ config = [s \in Slots |-> "none"] /\ hw = Off /\ lamp = Off
  /\ commands = <<>> /\ user = [u \in Users |-> Resting] /\ sets = 0
  /\ copied = config /\ sending = NoneSent /\ awake = FALSE
  /\ settled = TRUE /\ crossed = {} /\ overtaken = {}

Named(s) == IF s = AllSlots THEN Slots ELSE {s}

(* The lamps a thread has noted as changed and not yet queued the command  *)
(* for: another thread that notes one of them now crosses it.              *)
UnderWay == UNION ({Named(user[u].slot) : u \in {u \in Users : user[u].pc = "noted"}}
                     \cup {{s \in Slots : s = sending.slot}})
Cross(S) == crossed' = (crossed \ S) \cup (S \cap UnderWay)

Enqueue_OneMore(m) ==
  IF Len(commands) <= MaxQueued
    THEN commands' = Append(commands, m) /\ UNCHANGED crossed
    ELSE crossed' = crossed \cup Named(m.slot) /\ UNCHANGED commands
(* enqueue_command: with the queue full the command is dropped.            *)
Enqueue(m) ==
  IF Len(commands) < MaxQueued
    THEN commands' = Append(commands, m) /\ UNCHANGED crossed
    ELSE crossed' = crossed \cup Named(m.slot) /\ UNCHANGED commands

-----------------------------------------------------------------------------
(* The users.                                                              *)
Say(S, c) == config' = [s \in Slots |-> IF s \in S THEN c ELSE config[s]]

(* set_slot with a colour: the blink thread will see to it.                *)
SetSlot(u, s, c) ==
  /\ user[u] = Resting /\ sets < MaxSets
  /\ sets' = sets + 1
  /\ Say({s}, c)
  /\ settled' = FALSE /\ overtaken' = overtaken \ {s}
  /\ UNCHANGED <<hw, commands, lamp, user, copied, sending, awake, crossed>>

(* clear_slot, and clear_all and set_all_slots_off: the configuration is   *)
(* changed under the lock, the state is noted, the command is queued.      *)
Clear(u, s) ==
  /\ user[u] = Resting /\ sets < MaxSets
  /\ sets' = sets + 1
  /\ Say(Named(s), IF s = AllSlots THEN "none" ELSE "off")
  /\ user' = [user EXCEPT ![u] = [pc |-> "configured", slot |-> s]]
  /\ settled' = FALSE
  /\ overtaken' = IF s = AllSlots THEN {x \in Slots : copied[x] # "none"}
                                   ELSE overtaken \ {s}
  /\ UNCHANGED <<hw, commands, lamp, copied, sending, awake, crossed>>

Noted_Forgotten(s) == hw
Noted(s) == [x \in Slots |-> hw[x] /\ x \notin Named(s)]

ClearState(u) ==
  /\ user[u].pc = "configured"
  /\ user' = [user EXCEPT ![u].pc = "noted"]
  /\ hw' = Noted(user[u].slot)
  /\ Cross(Named(user[u].slot)) /\ settled' = FALSE
  /\ UNCHANGED <<config, commands, lamp, sets, copied, sending, awake, overtaken>>

ClearSend(u) ==
  /\ user[u].pc = "noted"
  /\ user' = [user EXCEPT ![u] = Resting]
  /\ Enqueue([slot |-> user[u].slot, on |-> FALSE])
  /\ UNCHANGED <<config, hw, lamp, sets, copied, sending, awake, settled, overtaken>>

UserStep == \E u \in Users : \/ \E s \in Slots, c \in Shown : SetSlot(u, s, c)
                             \/ \E s \in Slots \cup {AllSlots} : Clear(u, s)
                             \/ ClearState(u) \/ ClearSend(u)

-----------------------------------------------------------------------------
(* The blink thread.                                                       *)
BeginPass ==
  /\ ~awake
  /\ awake' = TRUE /\ copied' = config /\ settled' = TRUE
  /\ UNCHANGED <<config, hw, commands, lamp, user, sets, sending, crossed, overtaken>>

(* What is to be sent for a lamp, if anything; beat says whether it is     *)
(* this tick that a blinking lamp changes.                                 *)
Wanted_OffIsSent(s, beat) ==
  CASE copied[s] = "solid" /\ ~hw[s] -> {TRUE}
    [] copied[s] = "blink" /\ beat   -> {~hw[s]}
    [] OTHER -> {}

Wanted(s, beat) ==
  CASE copied[s] = "off" /\ hw[s]    -> {FALSE}
    [] copied[s] = "solid" /\ ~hw[s] -> {TRUE}
    [] copied[s] = "blink" /\ beat   -> {~hw[s]}
    [] OTHER -> {}

Visit(s, beat) ==
  /\ awake /\ sending = NoneSent /\ copied[s] # "none"
  /\ copied' = [copied EXCEPT ![s] = "none"]
  /\ IF Wanted(s, beat) = {}
       THEN UNCHANGED <<hw, sending, crossed>>
       ELSE \E on \in Wanted(s, beat) : /\ hw' = [hw EXCEPT ![s] = on]
                                        /\ sending' = [slot |-> s, on |-> on]
                                        /\ Cross({s})
  /\ UNCHANGED <<config, commands, lamp, user, sets, awake, settled, overtaken>>

SendHw ==
  /\ sending # NoneSent
  /\ sending' = NoneSent
  /\ Enqueue(sending)
  /\ UNCHANGED <<config, hw, lamp, user, sets, copied, awake, settled, overtaken>>

EndPass ==
  /\ awake /\ sending = NoneSent /\ \A s \in Slots : copied[s] = "none"
  /\ awake' = FALSE
  /\ UNCHANGED <<config, hw, commands, lamp, user, sets, copied, sending, settled, crossed,
                 overtaken>>

BlinkStep == BeginPass \/ SendHw \/ EndPass \/ \E s \in Slots, beat \in BOOLEAN : Visit(s, beat)

-----------------------------------------------------------------------------
(* processCommand of the firmware: slot, slot_all and led_off.             *)
CarriedOut(m) == [s \in Slots |-> IF s \in Named(m.slot) THEN m.on ELSE lamp[s]]

(* _drain_command_queue sends the next command.                            *)
Drain ==
  /\ commands # <<>>
  /\ commands' = Tail(commands)
  /\ lamp' = CarriedOut(Head(commands))
  /\ UNCHANGED <<config, hw, user, sets, copied, sending, awake, settled, crossed, overtaken>>

(* The command does not get through: its sending failed, or the Arduino    *)
(* was busy with a tone.  Nothing sends it again.                          *)
DrainLost ==
  /\ commands # <<>>
  /\ commands' = Tail(commands)
  /\ crossed' = crossed \cup
       {s \in Named(Head(commands).slot) \ UnderWay :
          \A i \in 2 .. Len(commands) : s \notin Named(commands[i].slot)}
  /\ UNCHANGED <<config, hw, lamp, user, sets, copied, sending, awake, settled, overtaken>>

Next == UserStep \/ BlinkStep \/ Drain \/ DrainLost

Spec == Init /\ [][Next]_lampVars

-----------------------------------------------------------------------------
(* A lamp shows what was said of it, once a pass has seen it and the       *)
(* commands have been sent: lit if it is to be lit, dark if it was         *)
(* cleared.  A lamp stays wrong only if its last command was dropped,      *)
(* lost or crossed by one of another thread, or if everything was cleared  *)
(* during a pass that still had it in its copy.                            *)
LampsShowConfig ==
  settled /\ ~awake /\ commands = <<>> /\ (\A u \in Users : user[u] = Resting) =>
    \A s \in Slots : \/ s \in crossed \/ s \in overtaken \/ config[s] = "blink"
                     \/ lamp[s] = (config[s] = "solid")
=============================================================================
