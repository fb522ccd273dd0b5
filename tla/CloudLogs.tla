------------------------------ MODULE CloudLogs ------------------------------
(***************************************************************************)
(* The log lines sent to the cloud: sync/cloud_log_handler.py.  Any thread *)
(* logs; a thread of the handler uploads what is buffered now and then;    *)
(* and stop uploads the rest on the thread that calls it, which waits for  *)
(* the other one five seconds only.                                        *)
(***************************************************************************)
EXTENDS Naturals, Sequences

CONSTANTS
  Flushers,      \* the handler's thread, and the one that calls stop
  MaxBuffer,     \* max_buffer
  MaxLines       \* a bound on the lines logged

VARIABLES
  logged,        \* the lines logged, which are numbered
  buffer,        \* _buffer
  batch,         \* what each flusher is uploading
  sent,          \* what the cloud has, in the order in which it came
  lost,          \* lines that were uploaded in vain
  dropped,       \* lines for which the buffer had no room
  crossed        \* have two uploads been under way at once?

logVars == <<logged, buffer, batch, sent, lost, dropped, crossed>>

LogAssumption == MaxBuffer \in Nat \ {0} /\ MaxLines \in Nat

Lines == 1 .. MaxLines
In(s) == {s[i] : i \in 1 .. Len(s)}

TypeOK ==
  /\ logged \in 0 .. MaxLines /\ crossed \in BOOLEAN
  /\ buffer \in Seq(Lines) /\ Len(buffer) <= MaxBuffer
  /\ batch \in [Flushers -> Seq(Lines)] /\ sent \in Seq(Lines)
  /\ lost \subseteq Lines /\ dropped \subseteq Lines

Init ==
  /\ logged = 0 /\ buffer = <<>> /\ batch = [f \in Flushers |-> <<>>]
  /\ sent = <<>> /\ lost = {} /\ dropped = {} /\ crossed = FALSE

(* emit; the oldest line makes room.                                       *)
Emit ==
  /\ logged < MaxLines /\ logged' = logged + 1
  /\ IF Len(buffer) < MaxBuffer
       THEN buffer' = Append(buffer, logged') /\ UNCHANGED dropped
       ELSE /\ buffer' = Append(Tail(buffer), logged')
            /\ dropped' = dropped \cup {Head(buffer)}
  /\ UNCHANGED <<batch, sent, lost, crossed>>

(* mutant: what is taken stays in the buffer.                              *)
BeginFlush_Keeps(f) ==
  /\ batch[f] = <<>> /\ buffer # <<>>
  /\ batch' = [batch EXCEPT ![f] = buffer]
  /\ crossed' = (crossed \/ \E g \in Flushers : batch[g] # <<>>)
  /\ UNCHANGED <<logged, buffer, sent, lost, dropped>>

(* _flush takes the buffer under the lock.                                 *)
BeginFlush(f) ==
  /\ batch[f] = <<>> /\ buffer # <<>>
  /\ batch' = [batch EXCEPT ![f] = buffer] /\ buffer' = <<>>
  /\ crossed' = (crossed \/ \E g \in Flushers : batch[g] # <<>>)
  /\ UNCHANGED <<logged, sent, lost, dropped>>

(* upload_device_logs says whether it succeeded, and nobody asks; it does  *)
(* not raise what the handler would put the lines back for.  The lines     *)
(* have come through, whatever it says, or they have not.                  *)
Uploaded(f) ==
  /\ batch[f] # <<>>
  /\ batch' = [batch EXCEPT ![f] = <<>>]
  /\ sent' = sent \o batch[f]
  /\ UNCHANGED <<logged, buffer, lost, dropped, crossed>>

UploadLost(f) ==
  /\ batch[f] # <<>>
  /\ batch' = [batch EXCEPT ![f] = <<>>]
  /\ lost' = lost \cup In(batch[f])
  /\ UNCHANGED <<logged, buffer, sent, dropped, crossed>>

(* No line is buffered: _flush returns.                                    *)
NothingToFlush == buffer = <<>> /\ UNCHANGED logVars

Next == \/ Emit \/ NothingToFlush
        \/ \E f \in Flushers : BeginFlush(f) \/ Uploaded(f) \/ UploadLost(f)

Spec == Init /\ [][Next]_logVars

-----------------------------------------------------------------------------
(* Every line is at one place: buffered, under way, at the cloud, dropped  *)
(* for want of room, or lost with an upload; and the cloud has the lines   *)
(* in their order, each once, unless stop uploaded beside the thread.      *)
InOrder(s) == \A i, j \in 1 .. Len(s) : i < j => s[i] < s[j]
UnderWay == UNION {In(batch[f]) : f \in Flushers}
EachLineOnce ==
  /\ 1 .. logged = In(buffer) \cup UnderWay \cup In(sent) \cup lost \cup dropped
  /\ In(sent) \cap (In(buffer) \cup UnderWay \cup lost \cup dropped) = {}
  /\ In(buffer) \cap (UnderWay \cup lost \cup dropped) = {}
  /\ ~crossed => InOrder(sent)
=============================================================================
