--------------------------- MODULE DaemonLink_proofs ---------------------------
(***************************************************************************)
(* Proofs about DaemonLink: the state keeps its types, a caller is handed  *)
(* the answer of its own command, and the client's cache is the daemon's   *)
(* view once everything has arrived, for any tags, callers and bounds.     *)
(***************************************************************************)
EXTENDS DaemonLink, TLAPS

-----------------------------------------------------------------------------
(* The life of the connection: nothing is on its way before there is one,  *)
(* its first message is the only one of its kind, and a command is under   *)
(* way only while the client is registered.                                *)
OneFirst(q) == \A i \in 1 .. Len(q) : q[i].kind = "init" => i = 1
OnlyFirst(q) == Len(q) = 1 /\ q[1].kind = "init"

Connection ==
  /\ joined = "not" => ~registered /\ ~open /\ down = <<>> /\ tags = {}
  /\ busy # None => registered
  /\ OneFirst(down)
  /\ down # <<>> /\ down[1].kind = "init" => tags = {}
  /\ ~hwReady => previous = {} /\ ~casting
  /\ joined = "early" /\ hwReady /\ registered => ~OnlyFirst(down)

(* What the daemon has said of a tag so far: it broadcasts the tags of     *)
(* todo, which are those whose presence has changed, one by one.           *)
Changed == casting => \A t \in todo : (t \in found) # (t \in previous)
View(t) == IF casting /\ t \notin todo THEN t \in found ELSE t \in previous

(* What the client will take a tag for when all that is on its way has     *)
(* arrived.  The message that follows the first one is dropped with it.    *)
Heard(q) == IF q # <<>> /\ q[1].kind = "init" THEN 3 ELSE 1
Says(m, k, t) == m.kind = k /\ m.tag = t
Known(q, S, t) ==
  \/ t \in S /\ \A i \in Heard(q) .. Len(q) : ~Says(q[i], "disappeared", t)
  \/ \E i \in Heard(q) .. Len(q) :
       /\ Says(q[i], "appeared", t)
       /\ \A j \in i + 1 .. Len(q) : ~Says(q[j], "disappeared", t)
Told(t) == Known(down, tags, t)

Follows == registered => \A t \in Tags : /\ Told(t) => View(t)
                                         /\ joined = "early" /\ View(t) => Told(t)

(* While no call has timed out or begun during another, at most one        *)
(* command or answer is under way: the one of the call that waits for it.  *)
NoReply(q) == \A i \in 1 .. Len(q) : q[i].kind \notin Commands
LoneReply(q, n) ==
  \A i \in 1 .. Len(q) : q[i].kind \in Commands =>
    q[i].call = n /\ \A j \in 1 .. Len(q) : q[j].kind \in Commands => i = j

Clear == up = <<>> /\ busy = None /\ NoReply(down)
OneSent == Len(up) = 1 /\ up[1].call = calls /\ busy = None /\ NoReply(down)
OneBusy == up = <<>> /\ (busy # None => busy.call = calls) /\ NoReply(down)
OneReply == up = <<>> /\ busy = None /\ LoneReply(down, calls)
Waits == ~answered /\ \E c \in Callers : call[c].pc = "waiting"

InTurn ==
  ~muddled =>
    /\ \A c, d \in Callers : call[c].pc # "idle" /\ call[d].pc # "idle" => c = d
    /\ \A c \in Callers : call[c].pc # "idle" => call[c].call = calls
    /\ \A c \in Callers : call[c].pc = "armed" => ~answered
    /\ \A c \in Callers : call[c].pc = "waiting" /\ answered => data.call = calls
    /\ IF Waits THEN OneSent \/ OneBusy \/ OneReply ELSE Clear

Link == Connection /\ Changed /\ Follows
IInv == TypeOK /\ Link /\ InTurn

-----------------------------------------------------------------------------
(* The messages by kind.                                                   *)
LEMMA Messages ==
  /\ \A k \in {"init", "weight", "error", "ping"} : [kind |-> k] \in Message
  /\ \A k \in {"appeared", "disappeared"}, t \in Tags : [kind |-> k, tag |-> t] \in Message
  /\ \A b \in BOOLEAN : [kind |-> "health", ok |-> b] \in Message
  /\ \A k \in Commands, n \in Numbers : [kind |-> k, call |-> n] \in Message
  /\ \A m \in Message : m.kind \in {"appeared", "disappeared"} => m.tag \in Tags
  /\ \A m \in Message : m.kind = "health" => m.ok \in BOOLEAN
  /\ \A m \in Message : m.kind \in Commands =>
       m \in [kind : Commands, call : Numbers]
BY DEF Message, Commands

LEMMA InitInv == Init => IInv
<1> SUFFICES ASSUME Init PROVE IInv
  OBVIOUS
<1>1. TypeOK
  <2>1. shelf \subseteq Tags /\ rfid \in BOOLEAN /\ hwReady \in BOOLEAN /\ rfidHealthy \in BOOLEAN
    BY DEF Init
  <2>2. casting \in BOOLEAN /\ paused \in BOOLEAN /\ registered \in BOOLEAN /\ open \in BOOLEAN
    BY DEF Init
  <2>3. health \in BOOLEAN /\ answered \in BOOLEAN /\ muddled \in BOOLEAN
    BY DEF Init
  <2>4. NoCall \in Call /\ 0 \in Numbers
    BY BoundAssumption DEF NoCall, Call, Numbers, Commands
  <2>5. QED
    BY <2>1, <2>2, <2>3, <2>4 DEF Init, TypeOK
<1>2. Link
  BY DEF Init, Link, Connection, Changed, Follows, OneFirst
<1>3. InTurn
  BY DEF Init, InTurn, NoCall, Waits, Clear, NoReply
<1>4. QED
  BY <1>1, <1>2, <1>3 DEF IInv

-----------------------------------------------------------------------------
(* The queue of messages: one is added at the end, and taken at the head.  *)
LEMMA Empty == \A q \in Seq(Message) : q = <<>> <=> Len(q) = 0
OBVIOUS

LEMMA Appended ==
  ASSUME NEW q \in Seq(Message), NEW m \in Message
  PROVE  /\ Append(q, m) \in Seq(Message) /\ Append(q, m) # <<>>
         /\ Len(q) \in Nat /\ Len(Append(q, m)) = Len(q) + 1
         /\ \A i \in 1 .. Len(q) : Append(q, m)[i] = q[i]
         /\ Append(q, m)[Len(q) + 1] = m
OBVIOUS

LEMMA Taken ==
  ASSUME NEW q \in Seq(Message), q # <<>>
  PROVE  /\ Tail(q) \in Seq(Message) /\ Head(q) = q[1]
         /\ Len(q) \in Nat \ {0} /\ Len(Tail(q)) = Len(q) - 1
         /\ \A i \in 1 .. Len(q) - 1 : Tail(q)[i] = q[i + 1]
OBVIOUS

LEMMA TakenTwo ==
  ASSUME NEW q \in Seq(Message), Len(q) >= 2
  PROVE  /\ Tail(Tail(q)) \in Seq(Message) /\ Head(q) = q[1]
         /\ Len(q) \in Nat /\ Len(Tail(Tail(q))) = Len(q) - 2
         /\ \A i \in 1 .. Len(q) - 2 : Tail(Tail(q))[i] = q[i + 2]
<1> DEFINE r == Tail(q)
<1>1. q # <<>>
  OBVIOUS
<1>2. /\ r \in Seq(Message) /\ Head(q) = q[1] /\ Len(q) \in Nat /\ Len(r) = Len(q) - 1
      /\ \A i \in 1 .. Len(q) - 1 : r[i] = q[i + 1]
  BY <1>1, Taken
<1> HIDE DEF r
<1>3. r # <<>>
  BY <1>2
<1>4. /\ Tail(r) \in Seq(Message) /\ Len(Tail(r)) = Len(r) - 1
      /\ \A i \in 1 .. Len(r) - 1 : Tail(r)[i] = r[i + 1]
  BY <1>2, <1>3, Taken
<1>5. \A i \in 1 .. Len(q) - 2 : Tail(r)[i] = q[i + 2]
  <2> TAKE i \in 1 .. Len(q) - 2
  <2>1. Tail(r)[i] = r[i + 1] /\ i + 1 \in 1 .. Len(q) - 1
    BY <1>2, <1>4
  <2>2. r[i + 1] = q[(i + 1) + 1] /\ (i + 1) + 1 = i + 2
    BY <2>1, <1>2
  <2>3. QED
    BY <2>1, <2>2
<1>6. QED
  BY <1>2, <1>4, <1>5 DEF r

-----------------------------------------------------------------------------
(* Sending a message of some kind keeps the queue a queue of messages.     *)
LEMMA BroadcastType ==
  ASSUME TypeOK, NEW m \in Message, Broadcast(m)
  PROVE  down' \in Seq(Message)
BY DEF TypeOK, Broadcast

LEMMA ReplyType ==
  ASSUME TypeOK, NEW m \in Message, Reply(m)
  PROVE  down' \in Seq(Message)
BY DEF TypeOK, Reply

LEMMA TypeStep == TypeOK /\ [Next]_vars => TypeOK'
<1> SUFFICES ASSUME TypeOK, [Next]_vars PROVE TypeOK'
  OBVIOUS
<1> USE DEF vars, shelfVars, pollVars, daemonVars, viewVars, slotVars, callVars
<1>1. CASE HardwareReady
  <2>1. down' \in Seq(Message)
    <3>1. [kind |-> "health", ok |-> rfid] \in Message
      BY Messages DEF TypeOK
    <3>2. QED
      BY <1>1, <3>1, BroadcastType DEF HardwareReady
  <2>2. QED
    BY <1>1, <2>1 DEF HardwareReady, TypeOK
<1>2. CASE PollRfid
  BY <1>2 DEF PollRfid, TypeOK, Polled, Gone
<1>3. CASE CastDone
  <2>1. casting' \in BOOLEAN
    BY <1>3 DEF CastDone
  <2>2. QED
    BY <1>3, <2>1 DEF CastDone, TypeOK, Remember
<1>4. ASSUME NEW t \in Tags, CastTag(t) PROVE TypeOK'
  <2>1. [kind |-> IF t \in found THEN "appeared" ELSE "disappeared", tag |-> t] \in Message
    BY Messages
  <2>2. down' \in Seq(Message)
    BY <1>4, <2>1, BroadcastType DEF CastTag
  <2>3. QED
    BY <1>4, <2>2 DEF CastTag, TypeOK
<1>5. CASE CastStatus
  <2>1. [kind |-> "health", ok |-> rfidHealthy] \in Message
    BY Messages DEF TypeOK
  <2>2. down' \in Seq(Message)
    BY <1>5, <2>1, BroadcastType DEF CastStatus
  <2>3. QED
    BY <1>5, <2>2 DEF CastStatus, TypeOK
<1>6. CASE CastWeight
  <2>1. [kind |-> "weight"] \in Message
    BY Messages
  <2>2. down' \in Seq(Message)
    BY <1>6, <2>1, BroadcastType DEF CastWeight
  <2>3. QED
    BY <1>6, <2>2 DEF CastWeight, TypeOK
<1>7. CASE BeginCommand
  <2>1. [kind |-> "error"] \in Message
    BY Messages
  <2>2. down' \in Seq(Message)
    BY <1>7, <2>1, ReplyType DEF BeginCommand, TypeOK
  <2>3. Head(up) \in Command /\ Tail(up) \in Seq(Command)
    BY <1>7 DEF BeginCommand, TypeOK
  <2>4. busy' \in Command \cup {None} /\ paused' \in BOOLEAN /\ up' \in Seq(Command)
    BY <1>7, <2>3 DEF BeginCommand, TypeOK
  <2>5. QED
    BY <1>7, <2>2, <2>4 DEF BeginCommand, TypeOK
<1>8. CASE FinishCommand
  <2>1. [kind |-> busy.kind, call |-> busy.call] \in Message
    <3>1. busy \in Command
      BY <1>8 DEF FinishCommand, TypeOK
    <3>2. busy.kind \in Commands /\ busy.call \in Numbers
      BY <3>1 DEF Command
    <3>3. QED
      BY <3>2, Messages
  <2>2. down' \in Seq(Message)
    BY <1>8, <2>1, ReplyType DEF FinishCommand
  <2>3. QED
    <3>1. paused' \in BOOLEAN
      BY <1>8 DEF FinishCommand
    <3>2. QED
      BY <1>8, <2>2, <3>1 DEF FinishCommand, TypeOK
<1>9. CASE CloseQuiet
  <2>1. [kind |-> "ping"] \in Message
    BY Messages
  <2>2. down' \in Seq(Message)
    BY <1>9, <2>1, ReplyType DEF CloseQuiet
  <2>3. QED
    <3>1. registered' \in BOOLEAN
      BY <1>9 DEF CloseQuiet
    <3>2. QED
      BY <1>9, <2>2, <3>1 DEF CloseQuiet, TypeOK
<1>10. CASE Connect
  <2>1. [kind |-> "init"] \in Message
    BY Messages
  <2>2. down' \in Seq(Message)
    BY <1>10, <2>1 DEF Connect
  <2>3. QED
    BY <1>10, <2>2 DEF Connect, TypeOK
<1>11. CASE ReadLine
  <2>1. CASE Head(down).kind = "init"
    <3>1. down' \in Seq(Message)
      <4>1. down \in Seq(Message) /\ Len(down) >= 2 /\ down' = Tail(Tail(down))
        BY <1>11, <2>1 DEF ReadLine, TypeOK
      <4>2. QED
        BY <4>1, TakenTwo
    <3>2. QED
      BY <1>11, <2>1, <3>1 DEF ReadLine, TypeOK
  <2>2. CASE Head(down).kind # "init"
    <3> DEFINE m == Head(down)
    <3>1. m \in Message /\ Tail(down) \in Seq(Message)
      BY <1>11 DEF ReadLine, TypeOK
    <3>2. Dispatch(m) /\ down' = Tail(down)
      BY <1>11, <2>2 DEF ReadLine
    <3> HIDE DEF m
    <3>3. tags' \subseteq Tags
      BY <3>1, <3>2, Messages DEF Dispatch, TypeOK
    <3>4. health' \in BOOLEAN
      BY <3>1, <3>2, Messages DEF Dispatch, TypeOK
    <3>5. answered' \in BOOLEAN /\ data' \in [kind : Commands, call : Numbers] \cup {None}
      <4>1. CASE m.kind \in expected
        <5>1. m \in [kind : Commands, call : Numbers]
          BY <4>1, <3>1, Messages DEF TypeOK
        <5>2. QED
          BY <4>1, <5>1, <3>2 DEF Dispatch, IsAnswer
      <4>2. CASE m.kind \notin expected
        BY <4>2, <3>2 DEF Dispatch, IsAnswer, TypeOK
      <4>3. QED
        BY <4>1, <4>2
    <3>6. QED
      BY <1>11, <3>1, <3>2, <3>3, <3>4, <3>5 DEF ReadLine, TypeOK
  <2>3. QED
    BY <2>1, <2>2
<1>12. CASE ReadEnd
  BY <1>12 DEF ReadEnd, TypeOK
<1>13. CASE RfidHealth
  BY <1>13 DEF RfidHealth, TypeOK
<1>14. ASSUME NEW c \in Callers, NEW k \in Commands, Arm(c, k) PROVE TypeOK'
  <2>1. calls' \in Numbers
    BY <1>14, BoundAssumption DEF Arm, TypeOK, Numbers
  <2>2. [pc |-> "armed", kind |-> k, call |-> calls + 1] \in Call
    BY <1>14, <2>1 DEF Arm, Call
  <2>3. call' \in [Callers -> Call]
    BY <1>14, <2>2 DEF Arm, TypeOK
  <2>4. muddled' \in BOOLEAN
    BY <1>14 DEF Arm, TypeOK
  <2>5. QED
    BY <1>14, <2>1, <2>3, <2>4 DEF Arm, TypeOK, Reset
<1>15. ASSUME NEW c \in Callers, Send(c) PROVE TypeOK'
  <2>1. call[c] \in Call
    BY <1>15 DEF TypeOK
  <2>2. [call[c] EXCEPT !.pc = "waiting"] \in Call
    BY <2>1 DEF Call
  <2>3. call' \in [Callers -> Call]
    BY <1>15, <2>2 DEF Send, TypeOK
  <2>4. [kind |-> call[c].kind, call |-> call[c].call] \in Command
    BY <2>1 DEF Call, Command
  <2>5. up' \in Seq(Command) /\ open' \in BOOLEAN
    <3>1. up' \in Seq(Command)
      BY <1>15, <2>4 DEF Send, SendRaw, TypeOK
    <3>2. open' \in BOOLEAN
      BY <1>15 DEF Send, SendRaw, TypeOK
    <3>3. QED
      BY <3>1, <3>2
  <2>6. QED
    BY <1>15, <2>3, <2>5 DEF Send, TypeOK
<1>16. ASSUME NEW c \in Callers, Return(c) \/ TimeOut(c) PROVE TypeOK'
  <2>1. NoCall \in Call
    BY BoundAssumption DEF NoCall, Call, Numbers, Commands
  <2>2. call' \in [Callers -> Call]
    BY <1>16, <2>1 DEF Return, TimeOut, TypeOK
  <2>3. muddled' \in BOOLEAN
    BY <1>16 DEF Return, TimeOut, TypeOK
  <2>4. QED
    BY <1>16, <2>2, <2>3 DEF Return, TimeOut, TypeOK
<1>17. ASSUME NEW t \in Tags, Move(t) PROVE TypeOK'
  BY <1>17 DEF Move, TypeOK
<1>18. CASE UNCHANGED vars
  BY <1>18 DEF TypeOK
<1>19. QED
  BY <1>1, <1>2, <1>3, <1>4, <1>5, <1>6, <1>7, <1>8, <1>9, <1>10, <1>11, <1>12, <1>13,
     <1>14, <1>15, <1>16, <1>17, <1>18 DEF Next, PollStep, CommandStep

-----------------------------------------------------------------------------
(* A message that is not about a tag changes nothing about what the client *)
(* will take the tags for.                                                 *)
LEMMA OtherAppended ==
  ASSUME NEW q \in Seq(Message), NEW S, NEW t, NEW m \in Message,
         m.kind \notin {"init", "appeared", "disappeared"}
  PROVE  Known(Append(q, m), S, t) <=> Known(q, S, t)
<1> DEFINE n == Len(q)
           r == Append(q, m)
           a(i) == Says(q[i], "appeared", t)
           d(i) == Says(q[i], "disappeared", t)
<1>1. /\ n \in Nat /\ Len(r) = n + 1 /\ r # <<>>
      /\ \A i \in 1 .. n : r[i] = q[i]
      /\ r[n + 1] = m
  BY Appended
<1>2. /\ \A i \in 1 .. n : /\ Says(r[i], "appeared", t) <=> a(i)
                           /\ Says(r[i], "disappeared", t) <=> d(i)
      /\ ~Says(r[n + 1], "appeared", t) /\ ~Says(r[n + 1], "disappeared", t)
  BY <1>1 DEF Says
<1>3. Heard(r) = Heard(q) /\ Heard(q) \in {1, 3}
  <2>1. CASE q = <<>>
    BY <2>1, <1>1 DEF Heard
  <2>2. CASE q # <<>>
    BY <2>2, <1>1 DEF Heard
  <2>3. QED
    BY <2>1, <2>2
<1>4. PICK h \in {1, 3} : Heard(r) = h /\ Heard(q) = h
  BY <1>3
<1> HIDE DEF n, r, a, d
<1>5. (\A i \in h .. n + 1 : ~Says(r[i], "disappeared", t)) <=> \A i \in h .. n : ~d(i)
  BY <1>1, <1>2
<1>6. \A k \in h .. n :
        (\A i \in k + 1 .. n + 1 : ~Says(r[i], "disappeared", t)) <=> \A i \in k + 1 .. n : ~d(i)
  BY <1>1, <1>2
<1>7. (\E k \in h .. n + 1 : /\ Says(r[k], "appeared", t)
                             /\ \A i \in k + 1 .. n + 1 : ~Says(r[i], "disappeared", t))
        <=> \E k \in h .. n : a(k) /\ \A i \in k + 1 .. n : ~d(i)
  BY <1>1, <1>2, <1>6
<1>8. QED
  BY <1>1, <1>4, <1>5, <1>7 DEF Known, n, r, a, d

(* A message about a tag settles what the client will take it for, unless  *)
(* it follows the first one.                                               *)
LEMMA TagAppended ==
  ASSUME NEW q \in Seq(Message), NEW S, NEW t, NEW m \in Message,
         m.kind \in {"appeared", "disappeared"}
  PROVE  Known(Append(q, m), S, t)
           <=> IF OnlyFirst(q) THEN t \in S
               ELSE IF m.tag = t THEN m.kind = "appeared" ELSE Known(q, S, t)
<1> DEFINE n == Len(q)
           r == Append(q, m)
           a(i) == Says(q[i], "appeared", t)
           d(i) == Says(q[i], "disappeared", t)
<1>1. /\ n \in Nat /\ Len(r) = n + 1 /\ r # <<>>
      /\ \A i \in 1 .. n : r[i] = q[i]
      /\ r[n + 1] = m
  BY Appended
<1>2. /\ \A i \in 1 .. n : /\ Says(r[i], "appeared", t) <=> a(i)
                           /\ Says(r[i], "disappeared", t) <=> d(i)
      /\ Says(r[n + 1], "appeared", t) <=> m.kind = "appeared" /\ m.tag = t
      /\ Says(r[n + 1], "disappeared", t) <=> m.kind = "disappeared" /\ m.tag = t
  BY <1>1 DEF Says
<1>3. Heard(r) = Heard(q) /\ Heard(q) \in {1, 3}
  <2>1. CASE q = <<>>
    BY <2>1, <1>1 DEF Heard
  <2>2. CASE q # <<>>
    BY <2>2, <1>1 DEF Heard
  <2>3. QED
    BY <2>1, <2>2
<1>4. PICK h \in {1, 3} : Heard(r) = h /\ Heard(q) = h
  BY <1>3
<1>5. h = 3 => n # 0
  BY <1>4 DEF Heard
<1>6. OnlyFirst(q) <=> n = 1 /\ h = 3
  BY <1>4 DEF OnlyFirst, Heard
<1> HIDE DEF n, r, a, d
<1>7. CASE OnlyFirst(q)
  BY <1>7, <1>1, <1>4, <1>6 DEF Known, r
<1>8. CASE ~OnlyFirst(q)
  <2>1. n + 1 \in h .. n + 1
    BY <1>1, <1>5, <1>6, <1>8
  <2>2. CASE m.tag # t
    <3>1. (\A i \in h .. n + 1 : ~Says(r[i], "disappeared", t)) <=> \A i \in h .. n : ~d(i)
      BY <2>2, <1>1, <1>2
    <3>2. \A k \in h .. n :
            (\A i \in k + 1 .. n + 1 : ~Says(r[i], "disappeared", t))
              <=> \A i \in k + 1 .. n : ~d(i)
      BY <2>2, <1>1, <1>2
    <3>3. (\E k \in h .. n + 1 : /\ Says(r[k], "appeared", t)
                                 /\ \A i \in k + 1 .. n + 1 : ~Says(r[i], "disappeared", t))
            <=> \E k \in h .. n : a(k) /\ \A i \in k + 1 .. n : ~d(i)
      BY <2>2, <1>1, <1>2, <3>2
    <3>4. QED
      BY <1>1, <1>4, <1>8, <2>2, <3>1, <3>3 DEF Known, n, r, a, d
  <2>3. CASE m.tag = t /\ m.kind = "appeared"
    <3>1. Says(r[n + 1], "appeared", t) /\ \A j \in (n + 1) + 1 .. n + 1 : ~Says(r[j], "disappeared", t)
      BY <2>3, <1>1, <1>2
    <3>2. Known(r, S, t)
      BY <1>1, <1>4, <2>1, <3>1 DEF Known
    <3>3. QED
      BY <1>8, <2>3, <3>2 DEF r
  <2>4. CASE m.tag = t /\ m.kind = "disappeared"
    <3>1. Says(r[n + 1], "disappeared", t) /\ ~Says(r[n + 1], "appeared", t)
      BY <2>4, <1>2
    <3>2. \A k \in h .. n : n + 1 \in k + 1 .. n + 1
      BY <1>1, <1>4
    <3>3. ~Known(r, S, t)
      BY <1>1, <1>4, <2>1, <3>1, <3>2 DEF Known
    <3>4. QED
      BY <1>8, <2>4, <3>3 DEF r
  <2>5. QED
    BY <2>2, <2>3, <2>4
<1>9. QED
  BY <1>7, <1>8

(* Reading a message changes nothing either.                               *)
LEMMA HeadTaken ==
  ASSUME NEW q \in Seq(Message), q # <<>>, q[1].kind # "init",
         OneFirst(q),
         NEW S, NEW R, NEW t,
         t \in R <=> CASE Says(q[1], "appeared", t) -> TRUE
                      [] Says(q[1], "disappeared", t) -> FALSE
                      [] OTHER -> t \in S
  PROVE  Known(Tail(q), R, t) <=> Known(q, S, t)
<1> DEFINE n == Len(q)
           r == Tail(q)
           a(i) == Says(q[i], "appeared", t)
           d(i) == Says(q[i], "disappeared", t)
<1>1. /\ n \in Nat \ {0} /\ Len(r) = n - 1
      /\ \A i \in 1 .. n - 1 : r[i] = q[i + 1]
  BY Taken
<1>2. Heard(q) = 1 /\ Heard(r) = 1
  <2>1. r # <<>> => r[1].kind # "init"
    <3>1. r # <<>> => n >= 2
      BY <1>1, Taken
    <3>2. QED
      BY <1>1, <3>1 DEF OneFirst
  <2>2. QED
    BY <2>1 DEF Heard
<1>3. \A i \in 1 .. n - 1 : /\ Says(r[i], "appeared", t) <=> a(i + 1)
                            /\ Says(r[i], "disappeared", t) <=> d(i + 1)
  BY <1>1
<1>4. t \in R <=> a(1) \/ (~d(1) /\ t \in S)
  BY DEF Says
<1>5. ~(a(1) /\ d(1))
  BY DEF Says
<1> HIDE DEF n, r, a, d
<1>6. (\A i \in 1 .. n - 1 : ~Says(r[i], "disappeared", t)) <=> \A i \in 2 .. n : ~d(i)
  <2>1. \A i \in 2 .. n : i - 1 \in 1 .. n - 1 /\ (i - 1) + 1 = i
    BY <1>1
  <2>2. \A i \in 1 .. n - 1 : i + 1 \in 2 .. n
    BY <1>1
  <2>3. QED
    BY <1>3, <2>1, <2>2
<1>7. \A k \in 1 .. n - 1 :
        (\A i \in k + 1 .. n - 1 : ~Says(r[i], "disappeared", t)) <=> \A i \in k + 2 .. n : ~d(i)
  <2> TAKE k \in 1 .. n - 1
  <2>1. \A i \in k + 2 .. n : i - 1 \in k + 1 .. n - 1 /\ i - 1 \in 1 .. n - 1 /\ (i - 1) + 1 = i
    BY <1>1
  <2>2. \A i \in k + 1 .. n - 1 : i + 1 \in k + 2 .. n /\ i \in 1 .. n - 1
    BY <1>1
  <2>3. QED
    BY <1>3, <2>1, <2>2
<1> DEFINE last(k) == a(k) /\ \A i \in k + 1 .. n : ~d(i)
<1>8. (\E k \in 1 .. n - 1 : /\ Says(r[k], "appeared", t)
                             /\ \A i \in k + 1 .. n - 1 : ~Says(r[i], "disappeared", t))
        <=> \E k \in 2 .. n : last(k)
  <2>1. \A k \in 2 .. n : k - 1 \in 1 .. n - 1 /\ (k - 1) + 1 = k
    BY <1>1
  <2>2. \A k \in 1 .. n - 1 : k + 1 \in 2 .. n
    BY <1>1
  <2>3. ASSUME NEW k \in 1 .. n - 1
        PROVE  last(k + 1) <=> /\ Says(r[k], "appeared", t)
                               /\ \A i \in k + 1 .. n - 1 : ~Says(r[i], "disappeared", t)
    <3>1. (k + 1) + 1 = k + 2
      BY <1>1
    <3>2. QED
      BY <3>1, <1>3, <1>7
  <2> HIDE DEF last
  <2>4. QED
    BY <2>1, <2>2, <2>3
<1>9. (\E k \in 1 .. n : last(k)) <=> \/ \E k \in 2 .. n : last(k)
                                      \/ a(1) /\ \A i \in 2 .. n : ~d(i)
  <2>1. last(1) <=> a(1) /\ \A i \in 2 .. n : ~d(i)
    OBVIOUS
  <2> HIDE DEF last
  <2>2. QED
    BY <1>1, <2>1
<1>10. (\A i \in 1 .. n : ~d(i)) <=> ~d(1) /\ \A i \in 2 .. n : ~d(i)
  BY <1>1
<1>11. Known(r, R, t) <=> \/ t \in R /\ \A i \in 2 .. n : ~d(i)
                         \/ \E k \in 2 .. n : a(k) /\ \A i \in k + 1 .. n : ~d(i)
  BY <1>1, <1>2, <1>6, <1>8 DEF Known
<1>12. Known(q, S, t) <=> \/ t \in S /\ \A i \in 1 .. n : ~d(i)
                         \/ \E k \in 1 .. n : a(k) /\ \A i \in k + 1 .. n : ~d(i)
  BY <1>2 DEF Known, n, a, d
<1>13. QED
  BY <1>4, <1>5, <1>9, <1>10, <1>11, <1>12 DEF r

LEMMA FirstTaken ==
  ASSUME NEW q \in Seq(Message), Len(q) >= 2, q[1].kind = "init",
         OneFirst(q),
         NEW S, NEW t
  PROVE  Known(Tail(Tail(q)), S, t) <=> Known(q, S, t)
<1> DEFINE n == Len(q)
           r == Tail(Tail(q))
           a(i) == Says(q[i], "appeared", t)
           d(i) == Says(q[i], "disappeared", t)
<1>1. /\ n \in Nat /\ n >= 2 /\ r \in Seq(Message) /\ Len(r) = n - 2
      /\ \A i \in 1 .. n - 2 : r[i] = q[i + 2]
  BY TakenTwo
<1>2. Heard(q) = 3 /\ Heard(r) = 1
  <2>1. r # <<>> => r[1].kind # "init"
    <3>1. r # <<>> => n >= 3
      BY <1>1
    <3>2. QED
      BY <1>1, <3>1 DEF OneFirst
  <2>2. q # <<>>
    OBVIOUS
  <2>3. QED
    BY <2>1, <2>2 DEF Heard
<1>3. \A i \in 1 .. n - 2 : /\ Says(r[i], "appeared", t) <=> a(i + 2)
                            /\ Says(r[i], "disappeared", t) <=> d(i + 2)
  BY <1>1
<1> HIDE DEF n, r, a, d
<1>4. \A k \in 0 .. n - 2 :
        (\A i \in k + 1 .. n - 2 : ~Says(r[i], "disappeared", t)) <=> \A i \in k + 3 .. n : ~d(i)
  <2> TAKE k \in 0 .. n - 2
  <2>1. \A i \in k + 3 .. n : i - 2 \in k + 1 .. n - 2 /\ i - 2 \in 1 .. n - 2 /\ (i - 2) + 2 = i
    BY <1>1
  <2>2. \A i \in k + 1 .. n - 2 : i + 2 \in k + 3 .. n /\ i \in 1 .. n - 2
    BY <1>1
  <2>3. QED
    BY <1>3, <2>1, <2>2
<1>5. (\A i \in 1 .. n - 2 : ~Says(r[i], "disappeared", t)) <=> \A i \in 3 .. n : ~d(i)
  <2>1. 0 \in 0 .. n - 2 /\ 0 + 1 = 1 /\ 0 + 3 = 3
    BY <1>1
  <2>2. QED
    BY <2>1, <1>4
<1>6. (\E k \in 1 .. n - 2 : /\ Says(r[k], "appeared", t)
                             /\ \A i \in k + 1 .. n - 2 : ~Says(r[i], "disappeared", t))
        <=> \E k \in 3 .. n : a(k) /\ \A i \in k + 1 .. n : ~d(i)
  <2>1. \A k \in 3 .. n : /\ k - 2 \in 1 .. n - 2 /\ k - 2 \in 0 .. n - 2
                          /\ (k - 2) + 2 = k /\ (k - 2) + 3 = k + 1
    BY <1>1
  <2>2. \A k \in 1 .. n - 2 : k + 2 \in 3 .. n /\ (k + 2) + 1 = k + 3 /\ k \in 0 .. n - 2
    BY <1>1
  <2>3. QED
    BY <1>3, <1>4, <2>1, <2>2
<1>7. QED
  BY <1>1, <1>2, <1>5, <1>6 DEF Known, n, r, a, d

-----------------------------------------------------------------------------
(* The first message stays the only one of its kind.                       *)
LEMMA OneFirstAppended ==
  ASSUME NEW q \in Seq(Message), NEW m \in Message, m.kind # "init", OneFirst(q)
  PROVE  /\ OneFirst(Append(q, m)) /\ ~OnlyFirst(Append(q, m))
         /\ Append(q, m)[1].kind = "init" => q # <<>> /\ q[1].kind = "init"
<1>1. /\ Len(q) \in Nat /\ Len(Append(q, m)) = Len(q) + 1
      /\ \A i \in 1 .. Len(q) : Append(q, m)[i] = q[i]
      /\ Append(q, m)[Len(q) + 1] = m
  BY Appended
<1>2. QED
  BY <1>1 DEF OneFirst, OnlyFirst

LEMMA OneFirstTaken ==
  ASSUME NEW q \in Seq(Message), q # <<>>, OneFirst(q)
  PROVE  /\ Tail(q) # <<>> => Tail(q)[1].kind # "init"
         /\ OneFirst(Tail(q)) /\ ~OnlyFirst(Tail(q))
<1>1. /\ Len(q) \in Nat \ {0} /\ Len(Tail(q)) = Len(q) - 1 /\ Tail(q) \in Seq(Message)
      /\ \A i \in 1 .. Len(q) - 1 : Tail(q)[i] = q[i + 1]
  BY Taken
<1>2. \A i \in 1 .. Len(q) - 1 : Tail(q)[i].kind # "init"
  BY <1>1 DEF OneFirst
<1>3. QED
  BY <1>1, <1>2 DEF OneFirst, OnlyFirst

(* Two kinds of steps: those that leave the link alone, and those that     *)
(* send a message that is not about a tag.                                 *)
LEMMA LinkRests ==
  ASSUME Link,
         UNCHANGED <<joined, registered, down, tags, busy, hwReady, previous, found, casting, todo>>,
         joined = "not" => ~open'
  PROVE  Link'
BY DEF Link, Connection, Changed, Follows, View, Told

LEMMA OtherSent ==
  ASSUME TypeOK, Link, NEW m \in Message,
         m.kind \notin {"init", "appeared", "disappeared"},
         down' = Append(down, m), registered,
         UNCHANGED <<joined, registered, tags, open, previous, found, casting, todo>>,
         hwReady => hwReady'
  PROVE  Link'
<1>1. down \in Seq(Message)
  BY DEF TypeOK
<1>2. /\ OneFirst(down') /\ ~OnlyFirst(down')
      /\ down'[1].kind = "init" => down # <<>> /\ down[1].kind = "init"
  BY <1>1, OneFirstAppended DEF Link, Connection
<1>3. Connection'
  BY <1>2 DEF Link, Connection
<1>4. Changed'
  BY DEF Link, Changed
<1>5. \A t \in Tags : (Told(t)' <=> Told(t)) /\ (View(t)' <=> View(t))
  <2> TAKE t \in Tags
  <2>1. Known(Append(down, m), tags, t) <=> Known(down, tags, t)
    BY <1>1, OtherAppended
  <2>2. QED
    BY <2>1 DEF Told, View
<1>6. Follows'
  BY <1>5 DEF Link, Follows
<1>7. QED
  BY <1>3, <1>4, <1>6 DEF Link

LEMMA CastTagLink ==
  ASSUME TypeOK, Link, NEW u \in Tags, CastTag(u)
  PROVE  Link'
<1> DEFINE m == [kind |-> IF u \in found THEN "appeared" ELSE "disappeared", tag |-> u]
<1>1. /\ m \in Message /\ m.kind \in {"appeared", "disappeared"} /\ m.tag = u
      /\ m.kind = "appeared" <=> u \in found
  BY Messages
<1>2. down' = IF registered THEN Append(down, m) ELSE down
  BY DEF CastTag, Broadcast
<1> HIDE DEF m
<1>3. /\ casting /\ u \in todo /\ todo' = todo \ {u}
      /\ UNCHANGED <<joined, registered, tags, open, previous, found, casting, busy, hwReady>>
  BY DEF CastTag, viewVars
<1>4. down \in Seq(Message)
  BY DEF TypeOK
<1>5. /\ OneFirst(down')
      /\ registered => ~OnlyFirst(down')
      /\ down' # <<>> /\ down'[1].kind = "init" => down # <<>> /\ down[1].kind = "init"
  <2>1. CASE registered
    BY <2>1, <1>1, <1>2, <1>4, OneFirstAppended DEF Link, Connection
  <2>2. CASE ~registered
    BY <2>2, <1>2 DEF Link, Connection
  <2>3. QED
    BY <2>1, <2>2
<1>6. Connection'
  <2>1. joined = "not" => ~registered /\ ~open /\ down' = <<>> /\ tags = {}
    BY <1>2 DEF Link, Connection
  <2>2. hwReady
    BY <1>3 DEF Link, Connection
  <2>3. down' # <<>> /\ down'[1].kind = "init" => tags = {}
    BY <1>5 DEF Link, Connection
  <2>4. busy # None => registered
    BY DEF Link, Connection
  <2>5. joined' = "early" /\ hwReady' /\ registered' => ~OnlyFirst(down')
    BY <1>3, <1>5
  <2>6. QED
    BY <1>3, <1>5, <2>1, <2>2, <2>3, <2>4, <2>5 DEF Connection
<1>7. Changed'
  BY <1>3 DEF Link, Changed
<1>8. ASSUME registered, NEW t \in Tags
      PROVE  (Told(t) => View(t))' /\ (joined = "early" /\ View(t) => Told(t))'
  <2>1. Told(t)' <=> IF OnlyFirst(down) THEN t \in tags
                     ELSE IF u = t THEN u \in found ELSE Told(t)
    BY <1>1, <1>2, <1>3, <1>4, <1>8, TagAppended DEF Told
  <2>2. View(t)' <=> IF u = t THEN u \in found ELSE View(t)
    BY <1>3 DEF View
  <2>3. CASE OnlyFirst(down)
    <3>1. down # <<>> /\ down[1].kind = "init"
      <4>1. Len(down) = 1 /\ down[1].kind = "init"
        BY <2>3 DEF OnlyFirst
      <4>2. Len(down) # 0
        BY <4>1
      <4>3. down # <<>>
        BY <4>2, <1>4, Empty
      <4>4. QED
        BY <4>1, <4>3
    <3>2. t \notin tags
      BY <3>1 DEF Link, Connection
    <3>3. joined # "early"
      BY <2>3, <1>3, <1>8 DEF Link, Connection
    <3>4. QED
      BY <2>1, <2>3, <3>2, <3>3, <1>3
  <2>4. CASE ~OnlyFirst(down)
    BY <2>1, <2>2, <2>4, <1>3, <1>8 DEF Link, Follows
  <2>5. QED
    BY <2>3, <2>4
<1>9. Follows'
  BY <1>3, <1>8 DEF Follows
<1>10. QED
  BY <1>6, <1>7, <1>9 DEF Link

LEMMA ReadLineLink ==
  ASSUME TypeOK, Link, ReadLine
  PROVE  Link'
<1>1. /\ down \in Seq(Message) /\ down # <<>> /\ Head(down) = down[1]
      /\ UNCHANGED <<joined, registered, open, previous, found, casting, todo, busy, hwReady>>
      /\ open
  BY DEF ReadLine, TypeOK, daemonVars, pollVars
<1>2. OneFirst(down) /\ joined # "not"
  BY <1>1 DEF Link, Connection
<1>3. CASE down[1].kind = "init"
  <2>1. Len(down) >= 2 /\ down' = Tail(Tail(down)) /\ tags' = tags
    BY <1>1, <1>3 DEF ReadLine
  <2>2. Tail(down) \in Seq(Message) /\ Tail(down) # <<>>
    <3>1. Tail(down) \in Seq(Message) /\ Len(Tail(down)) = Len(down) - 1 /\ Len(down) \in Nat
      BY <1>1, Taken
    <3>2. Len(Tail(down)) # 0
      BY <2>1, <3>1
    <3>3. QED
      BY <3>1, <3>2, Empty
  <2>3. /\ down' # <<>> => down'[1].kind # "init"
        /\ OneFirst(down') /\ ~OnlyFirst(down')
    BY <1>1, <1>2, <2>1, <2>2, OneFirstTaken
  <2>4. Connection' /\ Changed'
    BY <1>1, <1>2, <2>1, <2>3 DEF Link, Connection, Changed
  <2>5. \A t \in Tags : (Told(t)' <=> Told(t)) /\ (View(t)' <=> View(t))
    BY <1>1, <1>2, <1>3, <2>1, FirstTaken DEF Told, View
  <2>6. QED
    BY <1>1, <2>4, <2>5 DEF Link, Follows
<1>4. CASE down[1].kind # "init"
  <2>1. Dispatch(down[1]) /\ down' = Tail(down)
    BY <1>1, <1>4 DEF ReadLine
  <2>2. /\ down' # <<>> => down'[1].kind # "init"
        /\ OneFirst(down') /\ ~OnlyFirst(down')
    BY <1>1, <1>2, <2>1, OneFirstTaken
  <2>3. Connection' /\ Changed'
    BY <1>1, <1>2, <2>1, <2>2 DEF Link, Connection, Changed
  <2>4. ASSUME NEW t \in Tags PROVE (Told(t)' <=> Told(t)) /\ (View(t)' <=> View(t))
    <3>1. t \in tags' <=> CASE Says(down[1], "appeared", t) -> TRUE
                          [] Says(down[1], "disappeared", t) -> FALSE
                          [] OTHER -> t \in tags
      <4> DEFINE m == down[1]
      <4>1. Dispatch(m)
        BY <2>1
      <4> HIDE DEF m
      <4>2. t \in tags' <=> CASE Says(m, "appeared", t) -> TRUE
                            [] Says(m, "disappeared", t) -> FALSE
                            [] OTHER -> t \in tags
        <5>1. CASE m.kind = "appeared"
          BY <4>1, <5>1 DEF Dispatch, Says
        <5>2. CASE m.kind = "disappeared"
          BY <4>1, <5>2 DEF Dispatch, Says
        <5>3. CASE m.kind \notin {"appeared", "disappeared"}
          BY <4>1, <5>3 DEF Dispatch, Says
        <5>4. QED
          BY <5>1, <5>2, <5>3
      <4>3. QED
        BY <4>2 DEF m
    <3>2. Known(Tail(down), tags', t) <=> Known(down, tags, t)
      BY <1>1, <1>2, <1>4, <3>1, HeadTaken
    <3>3. QED
      BY <1>1, <2>1, <3>2 DEF Told, View
  <2>5. QED
    BY <1>1, <2>3, <2>4 DEF Link, Follows
<1>5. QED
  BY <1>3, <1>4

LEMMA LinkStep == TypeOK /\ Link /\ [Next]_vars => Link'
<1> SUFFICES ASSUME TypeOK, Link, [Next]_vars PROVE Link'
  OBVIOUS
<1> USE DEF vars, shelfVars, pollVars, daemonVars, viewVars, slotVars, callVars
<1>1. CASE HardwareReady
  <2>1. [kind |-> "health", ok |-> rfid] \in Message
    BY Messages DEF TypeOK
  <2>2. CASE registered
    <3>1. down' = Append(down, [kind |-> "health", ok |-> rfid]) /\ hwReady'
      BY <1>1, <2>2 DEF HardwareReady, Broadcast
    <3>2. QED
      BY <1>1, <2>1, <2>2, <3>1, OtherSent DEF HardwareReady
  <2>3. CASE ~registered
    BY <1>1, <2>3 DEF HardwareReady, Broadcast, Link, Connection, Changed, Follows
  <2>4. QED
    BY <2>2, <2>3
<1>2. CASE PollRfid
  <2>1. /\ hwReady /\ ~casting /\ casting'
        /\ todo' = (found' \ previous) \cup (previous \ found')
        /\ UNCHANGED <<joined, registered, open, down, tags, busy, hwReady, previous>>
    BY <1>2 DEF PollRfid, Gone
  <2>2. Connection' /\ Changed'
    BY <2>1 DEF Link, Connection, Changed
  <2>3. \A t \in Tags : (Told(t)' <=> Told(t)) /\ (View(t)' <=> View(t))
    BY <2>1 DEF Told, View
  <2>4. QED
    BY <2>1, <2>2, <2>3 DEF Link, Follows
<1>3. CASE CastDone
  <2>1. /\ casting /\ todo = {} /\ ~casting' /\ previous' = found
        /\ UNCHANGED <<joined, registered, open, down, tags, busy, hwReady>>
    BY <1>3 DEF CastDone, Remember
  <2>2. Connection' /\ Changed'
    BY <2>1 DEF Link, Connection, Changed
  <2>3. \A t \in Tags : (Told(t)' <=> Told(t)) /\ (View(t)' <=> View(t))
    BY <2>1 DEF Told, View
  <2>4. QED
    BY <2>1, <2>2, <2>3 DEF Link, Follows
<1>4. ASSUME NEW t \in Tags, CastTag(t) PROVE Link'
  BY <1>4, CastTagLink
<1>5. CASE CastStatus \/ CastWeight
  <2>1. PICK m \in Message : Broadcast(m) /\ m.kind \in {"health", "weight"}
    <3>1. CASE CastStatus
      <4>1. [kind |-> "health", ok |-> rfidHealthy] \in Message
        BY Messages DEF TypeOK
      <4>2. QED
        BY <3>1, <4>1 DEF CastStatus
    <3>2. CASE CastWeight
      <4>1. [kind |-> "weight"] \in Message
        BY Messages
      <4>2. QED
        BY <3>2, <4>1 DEF CastWeight
    <3>3. QED
      BY <1>5, <3>1, <3>2
  <2>2. UNCHANGED <<joined, registered, tags, open, previous, found, casting, todo, hwReady, busy>>
    BY <1>5 DEF CastStatus, CastWeight
  <2>3. CASE registered
    BY <2>1, <2>2, <2>3, OtherSent DEF Broadcast
  <2>4. CASE ~registered
    BY <2>1, <2>2, <2>4, LinkRests DEF Broadcast, Link, Connection
  <2>5. QED
    BY <2>3, <2>4
<1>6. CASE BeginCommand
  <2>1. CASE hwReady
    <3>1. /\ registered
          /\ UNCHANGED <<joined, registered, tags, open, down, previous, found, casting, todo, hwReady>>
      BY <1>6, <2>1 DEF BeginCommand
    <3>2. QED
      BY <3>1 DEF Link, Connection, Changed, Follows, Told, View
  <2>2. CASE ~hwReady
    <3>1. [kind |-> "error"] \in Message
      BY Messages
    <3>2. QED
      BY <1>6, <2>2, <3>1, OtherSent DEF BeginCommand, Reply
  <2>3. QED
    BY <2>1, <2>2
<1>7. CASE FinishCommand
  <2> DEFINE m == [kind |-> busy.kind, call |-> busy.call]
  <2>1. m \in Message /\ m.kind \in Commands
    <3>1. busy.kind \in Commands /\ busy.call \in Numbers
      BY <1>7 DEF FinishCommand, TypeOK, Command
    <3>2. QED
      BY <3>1, Messages
  <2>2. /\ down' = Append(down, m) /\ busy # None
        /\ UNCHANGED <<joined, registered, tags, open, previous, found, casting, todo, hwReady>>
    BY <1>7 DEF FinishCommand, Reply
  <2>3. registered
    BY <2>2 DEF Link, Connection
  <2> HIDE DEF m
  <2>4. QED
    BY <2>1, <2>2, <2>3, OtherSent DEF Commands
<1>8. CASE CloseQuiet
  <2>1. [kind |-> "ping"] \in Message /\ down \in Seq(Message)
    BY Messages DEF TypeOK
  <2>2. /\ registered /\ ~registered' /\ busy = None /\ down' = Append(down, [kind |-> "ping"])
        /\ UNCHANGED <<joined, tags, open, previous, found, casting, todo, busy, hwReady>>
    BY <1>8 DEF CloseQuiet, Reply
  <2>3. /\ OneFirst(down')
        /\ down'[1].kind = "init" => down # <<>> /\ down[1].kind = "init"
    BY <2>1, <2>2, OneFirstAppended DEF Link, Connection
  <2>4. Connection'
    BY <2>2, <2>3 DEF Link, Connection
  <2>5. QED
    BY <2>2, <2>4 DEF Link, Changed, Follows
<1>9. CASE Connect
  <2>1. /\ joined = "not" /\ joined' = (IF hwReady THEN "late" ELSE "early")
        /\ registered' /\ down' = <<[kind |-> "init"]>>
        /\ UNCHANGED <<tags, previous, found, casting, todo, busy, hwReady>>
    BY <1>9 DEF Connect
  <2>2. /\ OneFirst(down') /\ Len(down') = 1 /\ Heard(down') = 3
    BY <2>1 DEF OneFirst, Heard
  <2>3. tags = {}
    BY <2>1 DEF Link, Connection
  <2>4. Connection' /\ Changed'
    BY <2>1, <2>2, <2>3 DEF Link, Connection, Changed
  <2>5. \A t \in Tags : ~Told(t)'
    BY <2>1, <2>2, <2>3 DEF Told, Known
  <2>6. joined' = "early" => \A t \in Tags : ~View(t)'
    BY <2>1 DEF Link, Connection, View
  <2>7. QED
    BY <2>4, <2>5, <2>6 DEF Link, Follows
<1>10. CASE ReadLine
  BY <1>10, ReadLineLink
<1>11. CASE ReadEnd
  BY <1>11, LinkRests DEF ReadEnd
<1>12. CASE RfidHealth
  BY <1>12, LinkRests DEF RfidHealth, Link, Connection
<1>13. ASSUME NEW c \in Callers, NEW k \in Commands, Arm(c, k) PROVE Link'
  BY <1>13, LinkRests DEF Arm
<1>14. ASSUME NEW c \in Callers, Send(c) PROVE Link'
  <2>1. joined = "not" => ~open'
    BY <1>14 DEF Send, SendRaw, Link, Connection
  <2>2. QED
    BY <1>14, <2>1, LinkRests DEF Send
<1>15. ASSUME NEW c \in Callers, Return(c) \/ TimeOut(c) PROVE Link'
  BY <1>15, LinkRests DEF Return, TimeOut, Link, Connection
<1>16. ASSUME NEW t \in Tags, Move(t) PROVE Link'
  BY <1>16, LinkRests DEF Move, Link, Connection
<1>17. CASE UNCHANGED vars
  BY <1>17, LinkRests DEF Link, Connection
<1>18. QED
  BY <1>1, <1>2, <1>3, <1>4, <1>5, <1>6, <1>7, <1>8, <1>9, <1>10, <1>11, <1>12, <1>13,
     <1>14, <1>15, <1>16, <1>17 DEF Next, PollStep, CommandStep

-----------------------------------------------------------------------------
(* Replies among the messages.                                             *)
LEMMA OtherReplies ==
  ASSUME NEW q \in Seq(Message), NEW m \in Message, m.kind \notin Commands, NEW n
  PROVE  /\ NoReply(q) => NoReply(Append(q, m))
         /\ LoneReply(q, n) => LoneReply(Append(q, m), n)
<1>1. /\ Len(q) \in Nat /\ Len(Append(q, m)) = Len(q) + 1
      /\ \A i \in 1 .. Len(q) : Append(q, m)[i] = q[i]
      /\ Append(q, m)[Len(q) + 1] = m
  BY Appended
<1>2. QED
  BY <1>1 DEF NoReply, LoneReply

LEMMA ReplyAppended ==
  ASSUME NEW q \in Seq(Message), NEW m \in Message, NoReply(q)
  PROVE  LoneReply(Append(q, m), m.call)
<1>1. /\ Len(q) \in Nat /\ Len(Append(q, m)) = Len(q) + 1
      /\ \A i \in 1 .. Len(q) : Append(q, m)[i] = q[i]
      /\ Append(q, m)[Len(q) + 1] = m
  BY Appended
<1>2. QED
  BY <1>1 DEF NoReply, LoneReply

LEMMA RepliesTaken ==
  ASSUME NEW q \in Seq(Message), q # <<>>, NEW n
  PROVE  /\ NoReply(q) => NoReply(Tail(q))
         /\ LoneReply(q, n) => LoneReply(Tail(q), n)
         /\ LoneReply(q, n) /\ q[1].kind \in Commands => NoReply(Tail(q))
<1>1. /\ Len(q) \in Nat \ {0} /\ Len(Tail(q)) = Len(q) - 1
      /\ \A i \in 1 .. Len(q) - 1 : Tail(q)[i] = q[i + 1]
  BY Taken
<1>2. QED
  BY <1>1 DEF NoReply, LoneReply

(* Two kinds of steps: those that have nothing to do with commands, and    *)
(* those that send something else.                                         *)
LEMMA TurnRests ==
  ASSUME InTurn, UNCHANGED <<down, up, busy, slotVars, callVars>>
  PROVE  InTurn'
BY DEF InTurn, Waits, Clear, OneSent, OneBusy, OneReply, slotVars, callVars

LEMMA OthersTurn ==
  ASSUME TypeOK, InTurn, NEW m \in Message, m.kind \notin Commands,
         down' \in {down, Append(down, m)}, UNCHANGED <<up, busy, slotVars, callVars>>
  PROVE  InTurn'
<1>1. down \in Seq(Message)
  BY DEF TypeOK
<1>2. /\ NoReply(down) => NoReply(down')
      /\ LoneReply(down, calls) => LoneReply(down', calls)
  BY <1>1, OtherReplies
<1>3. QED
  BY <1>2 DEF InTurn, Waits, Clear, OneSent, OneBusy, OneReply, slotVars, callVars

LEMMA ReadLineTurn ==
  ASSUME TypeOK, InTurn, ReadLine
  PROVE  InTurn'
<1> SUFFICES ASSUME ~muddled PROVE InTurn'
  BY DEF ReadLine, callVars, InTurn
<1>1. /\ down \in Seq(Message) /\ down # <<>> /\ Head(down) = down[1]
      /\ UNCHANGED <<up, busy, expected, call, calls, muddled>>
  BY DEF ReadLine, TypeOK, daemonVars, callVars
<1>2. CASE down[1].kind = "init"
  <2>1. Len(down) >= 2 /\ down' = Tail(Tail(down)) /\ UNCHANGED <<answered, data>>
    BY <1>1, <1>2 DEF ReadLine
  <2>2. Tail(down) \in Seq(Message) /\ Tail(down) # <<>>
    <3>1. Tail(down) \in Seq(Message) /\ Len(Tail(down)) = Len(down) - 1 /\ Len(down) \in Nat
      BY <1>1, Taken
    <3>2. Len(Tail(down)) # 0
      BY <2>1, <3>1
    <3>3. QED
      BY <3>1, <3>2, Empty
  <2>3. /\ NoReply(down) => NoReply(down')
        /\ LoneReply(down, calls) => LoneReply(down', calls)
    BY <1>1, <2>1, <2>2, RepliesTaken
  <2>4. QED
    BY <1>1, <2>1, <2>3 DEF InTurn, Waits, Clear, OneSent, OneBusy, OneReply
<1>3. CASE down[1].kind # "init"
  <2>1. Dispatch(down[1]) /\ down' = Tail(down)
    BY <1>1, <1>3 DEF ReadLine
  <2>2. /\ NoReply(down) => NoReply(down')
        /\ LoneReply(down, calls) => LoneReply(down', calls)
        /\ LoneReply(down, calls) /\ down[1].kind \in Commands => NoReply(down')
    BY <1>1, <2>1, RepliesTaken
  <2>3. CASE down[1].kind \notin expected
    <3>1. UNCHANGED <<answered, data>>
      BY <2>1, <2>3 DEF Dispatch, IsAnswer
    <3>2. QED
      BY <1>1, <2>2, <3>1 DEF InTurn, Waits, Clear, OneSent, OneBusy, OneReply
  <2>4. CASE down[1].kind \in expected
    <3>1. answered' = TRUE /\ data' = down[1]
      BY <2>1, <2>4 DEF Dispatch, IsAnswer
    <3>2. /\ down[1].kind \in Commands /\ 1 \in 1 .. Len(down)
          /\ ~NoReply(down)
      <4>1. down[1].kind \in Commands
        BY <2>4 DEF TypeOK
      <4>2. 1 \in 1 .. Len(down)
        BY <1>1, Taken
      <4>3. QED
        BY <4>1, <4>2 DEF NoReply
    <3>3. Waits /\ OneReply
      BY <3>2 DEF InTurn, Clear, OneSent, OneBusy
    <3>4. down[1].call = calls
      BY <3>2, <3>3 DEF OneReply, LoneReply
    <3>5. Clear'
      BY <1>1, <2>2, <3>2, <3>3 DEF OneReply, Clear
    <3>6. ~Waits'
      BY <3>1 DEF Waits
    <3>7. \A c \in Callers : call[c].pc # "armed"
      BY <3>3 DEF Waits, InTurn
    <3>8. QED
      BY <1>1, <3>1, <3>4, <3>5, <3>6, <3>7 DEF InTurn
  <2>5. QED
    BY <2>3, <2>4
<1>4. QED
  BY <1>2, <1>3

LEMMA CommandTurn ==
  ASSUME TypeOK, InTurn, CommandStep
  PROVE  InTurn'
<1> SUFFICES ASSUME ~muddled PROVE InTurn'
  BY DEF CommandStep, BeginCommand, FinishCommand, callVars, InTurn
<1>1. /\ down \in Seq(Message) /\ up \in Seq(Command)
      /\ UNCHANGED <<slotVars, callVars>>
  BY DEF CommandStep, BeginCommand, FinishCommand, TypeOK
<1>2. Waits' <=> Waits
  BY <1>1 DEF Waits, slotVars, callVars
<1>3. CASE BeginCommand
  <2>1. busy = None /\ up # <<>> /\ up' = Tail(up)
    BY <1>3 DEF BeginCommand
  <2>2. Waits /\ OneSent
    BY <2>1 DEF InTurn, Clear, OneBusy, OneReply
  <2>3. up' = <<>> /\ Head(up) = up[1]
    BY <1>1, <2>1, <2>2 DEF OneSent
  <2>4. OneBusy'
    <3>1. CASE hwReady
      <4>1. busy' = Head(up) /\ down' = down
        BY <1>3, <3>1 DEF BeginCommand
      <4>2. QED
        BY <1>1, <2>2, <2>3, <4>1 DEF OneSent, OneBusy, callVars
    <3>2. CASE ~hwReady
      <4>1. busy' = busy /\ down' = Append(down, [kind |-> "error"])
        BY <1>3, <3>2 DEF BeginCommand, Reply
      <4>2. [kind |-> "error"] \in Message
        BY Messages
      <4>3. NoReply(down')
        BY <1>1, <2>2, <4>1, <4>2, OtherReplies DEF OneSent, Commands
      <4>4. QED
        BY <2>1, <2>3, <4>1, <4>3 DEF OneBusy
    <3>3. QED
      BY <3>1, <3>2
  <2>5. QED
    BY <1>1, <1>2, <2>2, <2>4 DEF InTurn, slotVars, callVars
<1>4. CASE FinishCommand
  <2> DEFINE m == [kind |-> busy.kind, call |-> busy.call]
  <2>1. busy # None /\ busy' = None /\ down' = Append(down, m) /\ up' = up
    BY <1>4 DEF FinishCommand, Reply
  <2>2. m \in Message /\ m.call = busy.call
    <3>1. busy.kind \in Commands /\ busy.call \in Numbers
      BY <2>1 DEF TypeOK, Command
    <3>2. QED
      BY <3>1, Messages
  <2> HIDE DEF m
  <2>3. Waits /\ OneBusy
    BY <2>1 DEF InTurn, Clear, OneSent, OneReply
  <2>4. LoneReply(down', calls)
    BY <1>1, <2>1, <2>2, <2>3, ReplyAppended DEF OneBusy
  <2>5. OneReply'
    BY <1>1, <2>1, <2>3, <2>4 DEF OneBusy, OneReply, callVars
  <2>6. QED
    BY <1>1, <1>2, <2>3, <2>5 DEF InTurn, slotVars, callVars
<1>5. QED
  BY <1>3, <1>4 DEF CommandStep

LEMMA TurnStep == TypeOK /\ Link /\ InTurn /\ [Next]_vars => InTurn'
<1> SUFFICES ASSUME TypeOK, Link, InTurn, [Next]_vars PROVE InTurn'
  OBVIOUS
<1> USE DEF vars, shelfVars, daemonVars, viewVars
<1>1. CASE HardwareReady \/ CastStatus \/ CastWeight \/ CloseQuiet
  <2>1. PICK m \in Message : m.kind \notin Commands /\ (Broadcast(m) \/ Reply(m))
    <3>1. CASE HardwareReady
      <4>1. [kind |-> "health", ok |-> rfid] \in Message
        BY Messages DEF TypeOK
      <4>2. QED
        BY <3>1, <4>1 DEF HardwareReady, Commands
    <3>2. CASE CastStatus
      <4>1. [kind |-> "health", ok |-> rfidHealthy] \in Message
        BY Messages DEF TypeOK
      <4>2. QED
        BY <3>2, <4>1 DEF CastStatus, Commands
    <3>3. CASE CastWeight
      <4>1. [kind |-> "weight"] \in Message
        BY Messages
      <4>2. QED
        BY <3>3, <4>1 DEF CastWeight, Commands
    <3>4. CASE CloseQuiet
      <4>1. [kind |-> "ping"] \in Message
        BY Messages
      <4>2. QED
        BY <3>4, <4>1 DEF CloseQuiet, Commands
    <3>5. QED
      BY <1>1, <3>1, <3>2, <3>3, <3>4
  <2>2. down' \in {down, Append(down, m)}
    BY <2>1 DEF Broadcast, Reply
  <2>3. UNCHANGED <<up, busy, slotVars, callVars>>
    BY <1>1 DEF HardwareReady, CastStatus, CastWeight, CloseQuiet
  <2>4. QED
    BY <2>1, <2>2, <2>3, OthersTurn
<1>2. ASSUME NEW t \in Tags, CastTag(t) PROVE InTurn'
  <2> DEFINE m == [kind |-> IF t \in found THEN "appeared" ELSE "disappeared", tag |-> t]
  <2>1. m \in Message /\ m.kind \notin Commands
    BY Messages DEF Commands
  <2>2. down' \in {down, Append(down, m)} /\ UNCHANGED <<up, busy, slotVars, callVars>>
    BY <1>2 DEF CastTag, Broadcast
  <2> HIDE DEF m
  <2>3. QED
    BY <2>1, <2>2, OthersTurn
<1>3. CASE PollRfid \/ CastDone \/ ReadEnd \/ RfidHealth
  BY <1>3, TurnRests DEF PollRfid, CastDone, ReadEnd, RfidHealth
<1>4. CASE CommandStep
  BY <1>4, CommandTurn
<1>5. CASE Connect
  <2>1. down' = <<[kind |-> "init"]>> /\ UNCHANGED <<up, busy, slotVars, callVars>>
    BY <1>5 DEF Connect
  <2>2. NoReply(down') /\ LoneReply(down', calls)
    BY <2>1 DEF NoReply, LoneReply, Commands
  <2>3. QED
    BY <2>1, <2>2 DEF InTurn, Waits, Clear, OneSent, OneBusy, OneReply, slotVars, callVars
<1>6. CASE ReadLine
  BY <1>6, ReadLineTurn
<1>7. ASSUME NEW c \in Callers, NEW k \in Commands, Arm(c, k) PROVE InTurn'
  <2> SUFFICES ASSUME ~muddled, \A d \in Callers : call[d].pc = "idle" PROVE InTurn'
    BY <1>7 DEF Arm, InTurn
  <2>1. /\ calls' = calls + 1 /\ answered' = FALSE
        /\ call' = [call EXCEPT ![c] = [pc |-> "armed", kind |-> k, call |-> calls + 1]]
        /\ UNCHANGED <<up, down, busy>>
    BY <1>7 DEF Arm, Reset
  <2>2. Clear
    BY DEF InTurn, Waits
  <2>3. Clear'
    BY <2>1, <2>2 DEF Clear
  <2>4. \A d \in Callers : call'[d] = IF d = c THEN [pc |-> "armed", kind |-> k, call |-> calls + 1]
                                              ELSE call[d]
    BY <2>1 DEF TypeOK
  <2>5. /\ \A d \in Callers : d # c => call'[d].pc = "idle"
        /\ call'[c].pc = "armed" /\ call'[c].call = calls'
    BY <2>1, <2>4
  <2>6. ~Waits'
    BY <2>5 DEF Waits
  <2>7. QED
    BY <2>1, <2>3, <2>5, <2>6 DEF InTurn
<1>8. ASSUME NEW c \in Callers, Send(c) PROVE InTurn'
  <2> SUFFICES ASSUME ~muddled PROVE InTurn'
    BY <1>8 DEF Send, InTurn
  <2> DEFINE m == [kind |-> call[c].kind, call |-> call[c].call]
  <2>1. /\ call[c].pc = "armed" /\ call' = [call EXCEPT ![c].pc = "waiting"]
        /\ SendRaw(m) /\ UNCHANGED <<down, busy, slotVars, calls, muddled>>
    BY <1>8 DEF Send
  <2>2. m.call = call[c].call
    OBVIOUS
  <2> HIDE DEF m
  <2>3. /\ ~answered /\ call[c].call = calls
        /\ \A d \in Callers : d # c => call[d].pc = "idle"
    BY <2>1 DEF InTurn
  <2>4. Clear
    BY <2>1, <2>3 DEF InTurn, Waits
  <2>5. up' = <<>> \/ up' = <<m>>
    BY <2>1, <2>4 DEF SendRaw, Clear
  <2>6. /\ \A d \in Callers : d # c => call'[d] = call[d]
        /\ call'[c].pc = "waiting" /\ call'[c].call = call[c].call
    <3>1. call[c] \in Call
      BY DEF TypeOK
    <3>2. call'[c] = [call[c] EXCEPT !.pc = "waiting"]
      BY <2>1 DEF TypeOK
    <3>3. QED
      BY <2>1, <3>1, <3>2 DEF TypeOK, Call
  <2>7. OneSent' \/ OneBusy'
    <3>1. CASE up' = <<>>
      BY <3>1, <2>1, <2>4 DEF Clear, OneBusy
    <3>2. CASE up' = <<m>>
      BY <3>2, <2>1, <2>2, <2>3, <2>4 DEF Clear, OneSent
    <3>3. QED
      BY <2>5, <3>1, <3>2
  <2>8. ~answered' /\ calls' = calls /\ muddled' = muddled
    BY <2>1, <2>3 DEF slotVars
  <2>9. Waits'
    BY <2>6, <2>8 DEF Waits
  <2>10. QED
    BY <2>3, <2>6, <2>7, <2>8, <2>9 DEF InTurn
<1>9. ASSUME NEW c \in Callers, Return(c) PROVE InTurn'
  <2> SUFFICES ASSUME ~muddled PROVE InTurn'
    BY <1>9 DEF Return, InTurn
  <2>1. /\ call[c].pc = "waiting" /\ answered /\ call' = [call EXCEPT ![c] = NoCall]
        /\ UNCHANGED <<down, up, busy, slotVars, calls, muddled>>
    BY <1>9 DEF Return
  <2>2. \A d \in Callers : call'[d].pc = "idle"
    BY <2>1 DEF InTurn, TypeOK, NoCall
  <2>3. Clear
    BY <2>1 DEF InTurn, Waits
  <2>4. Clear'
    BY <2>1, <2>3 DEF Clear
  <2>5. ~Waits'
    BY <2>2 DEF Waits
  <2>6. QED
    BY <2>2, <2>4, <2>5 DEF InTurn
<1>10. ASSUME NEW c \in Callers, TimeOut(c) PROVE InTurn'
  BY <1>10 DEF TimeOut, InTurn
<1>11. ASSUME NEW t \in Tags, Move(t) PROVE InTurn'
  BY <1>11, TurnRests DEF Move
<1>12. CASE UNCHANGED vars
  BY <1>12, TurnRests
<1>13. QED
  BY <1>1, <1>2, <1>3, <1>4, <1>5, <1>6, <1>7, <1>8, <1>9, <1>10, <1>11, <1>12
     DEF Next, PollStep

-----------------------------------------------------------------------------
LEMMA Inductive == Spec => []IInv
<1>1. IInv /\ [Next]_vars => IInv'
  BY TypeStep, LinkStep, TurnStep DEF IInv
<1>2. QED
  BY InitInv, <1>1, PTL DEF Spec

(* The state of the daemon, of the connection and of the client keeps its  *)
(* types.                                                                  *)
THEOREM LinkTypeCorrect == Spec => []TypeOK
<1>1. IInv => TypeOK
  BY DEF IInv
<1>2. QED
  BY <1>1, Inductive, PTL

(* Once everything has arrived the client's cache holds no can that the    *)
(* daemon does not see, and for a client that connected before the         *)
(* hardware was ready it misses none.                                      *)
THEOREM CacheIsDaemons == Spec => []CacheMatches
<1>1. IInv => CacheMatches
  <2> SUFFICES ASSUME IInv, drained
               PROVE  tags \subseteq previous /\ (joined = "early" => tags = previous)
    BY DEF CacheMatches
  <2>1. registered /\ ~casting /\ tags \subseteq Tags /\ previous \subseteq Tags
    BY DEF drained, IInv, TypeOK
  <2>2. Heard(down) > Len(down) /\ Heard(down) \in Nat /\ Len(down) \in Nat
    <3>1. CASE down = <<>>
      BY <3>1 DEF Heard
    <3>2. CASE down = <<[kind |-> "init"]>>
      BY <3>2 DEF Heard
    <3>3. QED
      BY <3>1, <3>2 DEF drained
  <2>3. \A t \in Tags : Told(t) <=> t \in tags
    BY <2>2 DEF Told, Known
  <2>4. \A t \in Tags : View(t) <=> t \in previous
    BY <2>1 DEF View
  <2>5. QED
    BY <2>1, <2>3, <2>4 DEF IInv, Link, Follows
<1>2. QED
  BY <1>1, Inductive, PTL

(* A caller is handed the answer of its own command, unless a call has     *)
(* timed out or begun during another before.                               *)
THEOREM AnswersAreOwn == Spec => []OwnAnswer
<1>1. IInv => OwnAnswer
  BY DEF IInv, InTurn, OwnAnswer
<1>2. QED
  BY <1>1, Inductive, PTL
=============================================================================
