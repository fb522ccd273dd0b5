----------------------------- MODULE ScaleDriver -----------------------------
(***************************************************************************)
(* The driver of the two scales (hal/real/real_weight.py) and the Arduino  *)
(* behind it.  One thread owns the serial line: it sends the commands for  *)
(* lamps and buzzer that are queued, a tare when one is requested, and     *)
(* reads the scales in turn into a cache.  Other threads call tare, which  *)
(* leaves a request and waits for an answer that all callers share.  The   *)
(* zero of a scale lives in the Arduino's EEPROM, with a copy in the       *)
(* database.                                                               *)
(*                                                                         *)
(* The Arduino carries out one command after the other, and its answers    *)
(* carry no number: an answer that comes after the driver has given up     *)
(* waiting is still in the line.  Only what a reading measured against     *)
(* matters here: which tare was the scale's last.                          *)
(***************************************************************************)
EXTENDS Naturals, Sequences, TLC

CONSTANTS
  Channels,   \* the scales
  Mix,        \* the one the mixing screen may ask to be read alone
  Callers,    \* the threads that call tare
  NoChannel,
  Unread,     \* no reading
  MaxCalls,   \* a bound on calls of tare
  MaxLate,    \* a bound on the answers the driver gives up waiting for
  MaxQueue,   \* the size of _cmd_queue
  MaxDrain,   \* how many of its commands are sent in a row
  MaxStarts   \* how often the program starts

VARIABLES
  queued,                 \* the commands in _cmd_queue
  request, done, result,  \* _tare_request, _tare_done, _tare_result
  call, calls,            \* what each caller is doing; the calls made
  at, todo, drained,      \* where the reader thread is; scales still to read;
                          \* commands it has sent in a row
  out, back,              \* commands not yet carried out; answers not yet read
  late,                   \* the answers given up so far
  doubt,                  \* was a command outstanding when the tare was sent?
  cached,                 \* _cached_readings: the tare each was measured against
  tares, zero,            \* tares carried out; the tare a scale is set by (EEPROM)
  backup, stored,         \* the same in the database; the scales it has one for
  missed,                 \* scales with a tare whose answer the driver did not get,
                          \* or whose zero it could not send back
  starts

callVars == <<request, done, result, call, calls>>
lineVars == <<at, todo, drained, out, back, late, doubt>>
zeroVars == <<tares, zero, backup, stored, missed, starts>>
vars == <<queued, callVars, lineVars, cached, zeroVars>>

ScaleAssumption ==
  /\ Mix \in Channels /\ NoChannel \notin Channels /\ Unread \notin Nat
  /\ {MaxCalls, MaxLate, MaxQueue, MaxDrain} \subseteq Nat /\ MaxStarts \in Nat \ {0}

OwnZero == 0           \* a zero the Arduino took by itself at its start
Answers == [kind : {"lamp", "tare", "error", "read"}, ch : Channels, zero : [Channels -> Nat]]
Commands == [kind : {"lamp", "tare", "read"}, ch : Channels]
NoCall == [pc |-> "idle", ch |-> Mix, since |-> 0, alone |-> FALSE]

TypeOK ==
  /\ queued \in 0 .. MaxQueue
  /\ request \in Channels \cup {NoChannel} /\ done \in BOOLEAN /\ result \in BOOLEAN
  /\ call \in [Callers -> [pc : {"idle", "waiting"}, ch : Channels, since : Nat, alone : BOOLEAN]]
  /\ calls \in 0 .. MaxCalls /\ late \in 0 .. MaxLate /\ doubt \in BOOLEAN
  /\ at \in [pc : {"top", "lamp", "lamp in cycle", "tare", "tell", "cycle", "read"},
               ch : Channels]
  /\ todo \subseteq Channels /\ drained \in 0 .. MaxDrain
  /\ out \in Seq(Commands) /\ back \in Seq(Answers)
  /\ cached \in [Channels -> Nat \cup {Unread}]
  /\ tares \in [Channels -> Nat] /\ zero \in [Channels -> Nat]
  /\ backup \in [Channels -> Nat] /\ stored \subseteq Channels /\ missed \subseteq Channels
  /\ starts \in 1 .. MaxStarts

At(pc, ch) == at' = [pc |-> pc, ch |-> ch]

Init ==
  /\ queued = 0
  /\ request = NoChannel /\ done = FALSE /\ result = FALSE
  /\ call = [c \in Callers |-> NoCall] /\ calls = 0
  /\ at = [pc |-> "top", ch |-> Mix] /\ todo = {} /\ drained = 0
  /\ out = <<>> /\ back = <<>> /\ late = 0 /\ doubt = FALSE
  /\ cached = [ch \in Channels |-> Unread]
  /\ tares = [ch \in Channels |-> 0] /\ zero = [ch \in Channels |-> OwnZero]
  /\ backup = [ch \in Channels |-> OwnZero] /\ stored = {} /\ missed = {} /\ starts = 1

-----------------------------------------------------------------------------
(* The callers.  tare clears the event and the result and leaves its       *)
(* request, over another's if there is one.                                *)
Cleared_Not == UNCHANGED <<done, result>>
Cleared == done' = FALSE /\ result' = FALSE

tareUnderWay == request # NoChannel \/ at.pc \in {"tare", "tell"}

AskTare(c, ch) ==
  /\ call[c].pc = "idle" /\ calls < MaxCalls
  /\ calls' = calls + 1
  /\ Cleared
  /\ request' = ch
  /\ LET alone == ~tareUnderWay /\ \A d \in Callers : call[d].pc = "idle"
     IN call' = [d \in Callers |->
                   IF d = c THEN [pc |-> "waiting", ch |-> ch, since |-> tares[ch], alone |-> alone]
                            ELSE [call[d] EXCEPT !.alone = FALSE]]
  /\ UNCHANGED <<queued, lineVars, cached, zeroVars>>

Returns(c, ok) ==
  /\ call[c].pc = "waiting" /\ done /\ ok = result
  /\ call' = [call EXCEPT ![c] = NoCall]
  /\ UNCHANGED <<queued, request, done, result, calls, lineVars, cached, zeroVars>>

(* After 15 seconds the caller gives up; its request stays.                *)
GivesUp(c) ==
  /\ call[c].pc = "waiting" /\ ~done
  /\ call' = [call EXCEPT ![c] = NoCall]
  /\ UNCHANGED <<queued, request, done, result, calls, lineVars, cached, zeroVars>>

(* enqueue_command: on a full queue the command is dropped.                *)
Enqueue ==
  /\ queued' = IF queued < MaxQueue THEN queued + 1 ELSE queued
  /\ UNCHANGED <<callVars, lineVars, cached, zeroVars>>

-----------------------------------------------------------------------------
(* The reader thread.  _send throws away what has arrived and not been     *)
(* read.                                                                   *)
Drained == back' = <<>>
Send(kind, ch) ==
  /\ out' = Append(out, [kind |-> kind, ch |-> ch])
  /\ Drained

(* _drain_command_queue: at the top of the loop and after each reading.    *)
Drains_All == queued > 0
Drains == queued > 0 /\ drained < MaxDrain

SendLamp ==
  /\ at.pc \in {"top", "cycle"} /\ Drains
  /\ queued' = queued - 1
  /\ drained' = IF drained < MaxDrain THEN drained + 1 ELSE drained
  /\ Send("lamp", at.ch)
  /\ at' = [at EXCEPT !.pc = IF at.pc = "top" THEN "lamp" ELSE "lamp in cycle"]
  /\ UNCHANGED <<callVars, todo, late, doubt, cached, zeroVars>>

TakeRequest ==
  /\ at.pc = "top" /\ ~Drains /\ request # NoChannel
  /\ request' = NoChannel
  /\ Send("tare", request)
  /\ At("tare", request)
  /\ doubt' = (out # <<>>)
  /\ UNCHANGED <<queued, done, result, call, calls, todo, drained, late, cached, zeroVars>>

(* All scales are read, or the one that the mixing screen wants alone.     *)
Cycle == todo' \in {Channels, {Mix}} /\ drained' = MaxDrain /\ At("cycle", Mix)

BeginCycle ==
  /\ at.pc = "top" /\ ~Drains /\ request = NoChannel
  /\ Cycle
  /\ UNCHANGED <<queued, callVars, out, back, late, doubt, cached, zeroVars>>

SendRead(ch) ==
  /\ at.pc = "cycle" /\ ~Drains /\ ch \in todo
  /\ todo' = todo \ {ch} /\ drained' = 0
  /\ Send("read", ch)
  /\ At("read", ch)
  /\ UNCHANGED <<queued, callVars, late, doubt, cached, zeroVars>>

EndCycle ==
  /\ at.pc = "cycle" /\ ~Drains /\ todo = {}
  /\ At("top", Mix) /\ drained' = 0
  /\ UNCHANGED <<queued, callVars, todo, out, back, late, doubt, cached, zeroVars>>

(* _recv takes the first line there is; a read skips those of other scales *)
(* and those that name none.                                               *)
Fits(m) == at.pc = "read" => m.kind \in {"read", "tare"} /\ m.ch = at.ch

Skip ==
  /\ at.pc = "read" /\ back # <<>> /\ ~Fits(Head(back))
  /\ back' = Tail(back)
  /\ UNCHANGED <<queued, callVars, at, todo, drained, out, late, doubt, cached, zeroVars>>

AfterLamp == at' = [at EXCEPT !.pc = IF at.pc = "lamp" THEN "top" ELSE "cycle"]

RecvLamp ==
  /\ at.pc \in {"lamp", "lamp in cycle"} /\ back # <<>>
  /\ back' = Tail(back)
  /\ AfterLamp
  /\ UNCHANGED <<queued, callVars, todo, drained, out, late, doubt, cached, zeroVars>>

RecvRead ==
  /\ at.pc = "read" /\ back # <<>> /\ Fits(Head(back))
  /\ back' = Tail(back)
  /\ cached' = IF Head(back).kind = "read" THEN [cached EXCEPT ![at.ch] = Head(back).zero[at.ch]] ELSE cached
  /\ At("cycle", Mix)
  /\ UNCHANGED <<queued, callVars, todo, drained, out, late, doubt, zeroVars>>

(* Anything with an "ok" will do.  A success empties the cache and saves   *)
(* the zeros of both scales if the answer has them, the mixing scale's     *)
(* last; the database may refuse either.                                   *)
Popped_Not(ch) == cached
Popped(ch) == [cached EXCEPT ![ch] = Unread]

(* _save_tare_to_db, of which some zeros are lost.                         *)
Saved(m, lost) == [ch \in Channels |-> IF ch \in lost THEN backup[ch] ELSE m.zero[ch]]

RecvTare ==
  /\ at.pc = "tare" /\ back # <<>>
  /\ LET m == Head(back) IN
       /\ result' = (m.kind \in {"tare", "lamp"})
       /\ cached' = IF result' THEN Popped(at.ch) ELSE cached
       /\ \E lost \in IF m.kind = "tare" THEN {{}, {Mix}, Channels} ELSE {Channels} :
            backup' = Saved(m, lost) /\ stored' = stored \cup (Channels \ lost)
       /\ missed' = CASE m.kind = "tare" /\ ~doubt /\ backup'[at.ch] = m.zero[at.ch]
                                                              -> missed \ {at.ch}
                      [] m.kind = "error" /\ ~doubt -> missed
                      [] OTHER -> missed \cup {at.ch}
  /\ back' = Tail(back)
  /\ At("tell", Mix)
  /\ UNCHANGED <<queued, request, done, call, calls, todo, drained, out, late, doubt, tares, zero, starts>>

TellDone ==
  /\ at.pc = "tell"
  /\ done' = TRUE
  /\ Cycle
  /\ UNCHANGED <<queued, request, result, call, calls, out, back, late, doubt, cached, zeroVars>>

(* No answer in time.                                                      *)
RecvNothing ==
  /\ at.pc \in {"lamp", "lamp in cycle", "tare", "read"} /\ back = <<>> /\ late < MaxLate
  /\ late' = late + 1
  /\ CASE at.pc = "tare" -> result' = FALSE /\ missed' = missed \cup {at.ch} /\ At("tell", Mix)
       [] at.pc = "read" -> At("cycle", Mix) /\ UNCHANGED <<result, missed>>
       [] OTHER          -> AfterLamp /\ UNCHANGED <<result, missed>>
  /\ UNCHANGED <<queued, request, done, call, calls, todo, drained, out, back, doubt, cached,
                 tares, zero, backup, stored, starts>>

ReaderStep == \/ SendLamp \/ TakeRequest \/ BeginCycle \/ (\E ch \in Channels : SendRead(ch))
              \/ EndCycle \/ Skip \/ RecvLamp \/ RecvRead \/ RecvTare \/ TellDone \/ RecvNothing

-----------------------------------------------------------------------------
(* The Arduino.  A tare may fail; a zero goes to the EEPROM at once.       *)
Arduino(m) ==
  \/ /\ m.kind = "tare"
     /\ tares' = [tares EXCEPT ![m.ch] = @ + 1]
     /\ zero' = [zero EXCEPT ![m.ch] = tares'[m.ch]]
     /\ back' = Append(back, [kind |-> "tare", ch |-> m.ch, zero |-> zero'])
  \/ /\ UNCHANGED <<tares, zero>>
     /\ back' = Append(back, [kind |-> IF m.kind = "tare" THEN "error" ELSE m.kind,
                              ch |-> m.ch, zero |-> zero])

ArduinoStep ==
  /\ out # <<>> /\ out' = Tail(out)
  /\ Arduino(Head(out))
  /\ UNCHANGED <<queued, callVars, at, todo, drained, late, doubt, cached, backup, stored,
                 missed, starts>>

(* The program starts again, and opening the port resets the Arduino.  It  *)
(* has its zeros in the EEPROM, or takes new ones and says so, and then    *)
(* the driver sends back what the database has.  It sends two zeros in one *)
(* message, which the Arduino refuses, so that only a zero that is alone   *)
(* comes back.  If the driver does not hear of it, cannot read the         *)
(* database, or the Arduino does not take what it is sent, the new zeros   *)
(* stay, as they do in the EEPROM from then on.                            *)
Restored == [ch \in Channels |-> IF stored = {ch} THEN backup[ch] ELSE OwnZero]

Zeros ==
  LET open == missed \cup (IF at.pc = "tare" THEN {at.ch} ELSE {})
  IN \/ zero' = zero /\ missed' = open
     \/ zero' = Restored /\ missed' = open \cup {ch \in Channels : stored # {ch}}
     \/ zero' = [ch \in Channels |-> OwnZero] /\ missed' = Channels

Restart ==
  /\ starts < MaxStarts /\ starts' = starts + 1
  /\ Zeros
  /\ queued' = 0
  /\ request' = NoChannel /\ done' = FALSE /\ result' = FALSE
  /\ call' = [c \in Callers |-> NoCall]
  /\ At("top", Mix) /\ todo' = {} /\ drained' = 0
  /\ out' = <<>> /\ back' = <<>> /\ doubt' = FALSE
  /\ cached' = [ch \in Channels |-> Unread]
  /\ UNCHANGED <<calls, late, tares, backup, stored>>

Next == \/ \E c \in Callers : \/ \E ch \in Channels : AskTare(c, ch)
                              \/ \E ok \in BOOLEAN : Returns(c, ok)
                              \/ GivesUp(c)
        \/ Enqueue \/ ReaderStep \/ ArduinoStep \/ Restart

Spec == Init /\ [][Next]_vars

(* The reader thread and the Arduino go on.                                *)
FairSpec == Spec /\ WF_vars(ReaderStep) /\ WF_vars(ArduinoStep)

-----------------------------------------------------------------------------
(* A caller who is told that the scale is tared can rely on it, unless     *)
(* another call or one that was given up came in between, or an answer was *)
(* outstanding when the tare was sent: the scale has been tared since the  *)
(* call, and no reading from before is handed out any more.                *)
TareIsTrue ==
  [][\A c \in Callers :
       Returns(c, TRUE) /\ call[c].alone /\ ~doubt =>
         LET ch == call[c].ch IN
           tares[ch] > call[c].since /\ (cached[ch] = Unread \/ cached[ch] > call[c].since)]_vars

(* A zero outlives the program and the EEPROM: while no tare is under way, *)
(* a scale whose tares the driver has all heard of, and saved, and whose   *)
(* zero it could send back when it had to, has its last tare's zero.       *)
(* Whatever goes wrong, a scale does not go back to a zero older than the  *)
(* stored one: the only other it may have is one the Arduino took itself.  *)
ZeroSurvives ==
  /\ \A ch \in Channels \ missed : zero[ch] = tares[ch]
  /\ \A ch \in Channels : zero[ch] = OwnZero \/ zero[ch] >= backup[ch]

(* A request is carried out although lamps and readings keep the line busy. *)
TareIsServed == []<>(request = NoChannel)
=============================================================================
