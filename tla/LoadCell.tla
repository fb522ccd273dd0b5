------------------------------- MODULE LoadCell -------------------------------
(***************************************************************************)
(* Load cells read directly (hal/real/real_weight_hx711.py).  One thread   *)
(* reads every channel in turn and caches what it reads; whoever wants a   *)
(* tare leaves a request for that thread and waits for an event.  Single   *)
(* readings that jump too far are held back, unless the third in a row     *)
(* says the same.                                                          *)
(*                                                                         *)
(* A weight is a number of grams; an offset is named by the weight it is   *)
(* the zero of.  A sample is the trimmed mean of several raw readings.     *)
(***************************************************************************)
EXTENDS Integers, FiniteSets

CONSTANTS
  Channels, Loads,   \* the cells, and what may lie on one
  NoChannel,
  Jump,              \* a reading further from the last one is a spike (50 kg)
  Callers,           \* the threads that tare and calibrate
  MaxMoves, MaxCalls, MaxFaults   \* bounds: changes of the loads, tares, faults

CellAssumption ==
  /\ Loads \subseteq Nat /\ 0 \in Loads /\ \E w \in Loads : \A x \in Loads : x <= w
  /\ Jump \in Nat /\ NoChannel \notin Channels
  /\ MaxMoves \in Nat /\ MaxCalls \in Nat /\ MaxFaults \in Nat

VARIABLES
  load,         \* what lies on each cell
  offset,       \* HX711Channel.offset
  last,         \* _last_grams
  spikes,       \* _spike_count
  cached,       \* _cached_readings, in grams
  request,      \* _tare_request
  done,         \* the event _tare_done
  pc, channel,  \* the reader's place in its loop, and the channel it is at
  sample,       \* what it has just read, a load or Failed
  todo,         \* the channels it has still to read in this round
  call,         \* what each caller waits for
  served,       \* the callers whose channel was set to zero since they asked
  doubt,        \* may a caller be told of a tare that was not its own?
  steady,       \* good readings in a row, since something changed
  moves, calls, faults

vars == <<load, offset, last, spikes, cached, request, done, pc, channel, sample, todo, call,
          served, doubt, steady, moves, calls, faults>>
cellVars == <<offset, last, spikes>>
callVars == <<call, served, doubt, calls>>

Failed == -1      \* no raw reading came in time
Most == CHOOSE w \in Loads : \A x \in Loads : x <= w

Clipped(n) == IF n < 0 THEN 0 ELSE n
Net(c) == Clipped(load[c] - offset[c])
Far(a, b) == a - b > Jump \/ b - a > Jump

TypeOK ==
  /\ load \in [Channels -> Loads] /\ offset \in [Channels -> Loads]
  /\ last \in [Channels -> 0 .. Most] /\ cached \in [Channels -> 0 .. Most]
  /\ spikes \in [Channels -> 0 .. 2]
  /\ request \in Channels \cup {NoChannel} /\ done \in BOOLEAN
  /\ pc \in {"check", "clear", "tare", "set", "read", "store"}
  /\ channel \in Channels \cup {NoChannel} /\ sample \in Loads \cup {Failed}
  /\ todo \subseteq Channels
  /\ call \in [Callers -> Channels \cup {NoChannel}]
  /\ served \subseteq Callers /\ doubt \in BOOLEAN
  /\ steady \in [Channels -> 0 .. 3]
  /\ moves \in 0 .. MaxMoves /\ calls \in 0 .. MaxCalls /\ faults \in 0 .. MaxFaults

(* initialize takes what lies there for zero.                              *)
Init ==
  /\ load \in [Channels -> Loads] /\ offset = load
  /\ last = [c \in Channels |-> 0] /\ cached = last
  /\ spikes = [c \in Channels |-> 0]
  /\ request = NoChannel /\ done = FALSE
  /\ pc = "check" /\ channel = NoChannel /\ sample = Failed /\ todo = {}
  /\ call = [u \in Callers |-> NoChannel] /\ served = {} /\ doubt = FALSE
  /\ steady = [c \in Channels |-> 0]
  /\ moves = 0 /\ calls = 0 /\ faults = 0

-----------------------------------------------------------------------------
(* The reader.                                                             *)

(* read_averaged: the load, nothing, or a disturbance that the trimming    *)
(* does not remove.                                                        *)
ReadAveraged(c) ==
  \/ sample' = load[c] /\ UNCHANGED faults
  \/ faults < MaxFaults /\ faults' = faults + 1 /\ sample' \in {Failed, Most}

CheckRequest ==
  /\ pc = "check"
  /\ channel' = request
  /\ IF request = NoChannel THEN pc' = "read" /\ todo' = Channels
                            ELSE pc' = "clear" /\ UNCHANGED todo
  /\ UNCHANGED <<load, cellVars, cached, request, done, sample, callVars, steady, moves, faults>>

(* A request that is left between the look at the field and this is lost.  *)
ClearRequest ==
  /\ pc = "clear" /\ pc' = "tare"
  /\ request' = NoChannel
  /\ doubt' = (doubt \/ request # channel)
  /\ UNCHANGED <<load, cellVars, cached, done, channel, sample, todo, call, served, calls,
                 steady, moves, faults>>

SampleZero ==
  /\ pc = "tare" /\ pc' = "set"
  /\ ReadAveraged(channel)
  /\ UNCHANGED <<load, cellVars, cached, request, done, channel, todo, callVars, steady, moves>>

(* HX711Channel.tare; _tare_done is set whether or not it worked.          *)
Zeroed(c) == last' = [last EXCEPT ![c] = 0]

SetZero ==
  /\ pc = "set" /\ pc' = "read" /\ todo' = Channels
  /\ IF sample = Failed
       THEN UNCHANGED <<offset, last, steady, served>>
       ELSE /\ offset' = [offset EXCEPT ![channel] = sample]
            /\ Zeroed(channel)
            /\ steady' = [steady EXCEPT ![channel] = 0]
            /\ served' = served \cup {u \in Callers : call[u] = channel}
  /\ doubt' = (doubt \/ sample = Failed)
  /\ done' = TRUE
  /\ UNCHANGED <<load, spikes, cached, request, channel, sample, call, calls, moves, faults>>

SampleWeight ==
  /\ pc = "read" /\ pc' = "store"
  /\ channel' \in todo
  /\ ReadAveraged(channel')
  /\ UNCHANGED <<load, cellVars, cached, request, done, todo, callVars, steady, moves>>

(* The third reading in a row that is far from the last good one counts.   *)
HeldBack_Always(c, g) == last[c] > 0 /\ Far(g, last[c])
HeldBack(c, g) == last[c] > 0 /\ Far(g, last[c]) /\ spikes[c] < 2

(* read_grams, once it has its sample.  When there is none it keeps what   *)
(* it had.                                                                 *)
Store ==
  LET c == channel
      grams == Clipped(sample - offset[c])
      held == HeldBack(c, grams)
  IN /\ pc = "store"
     /\ IF sample = Failed
          THEN UNCHANGED <<last, spikes>>
          ELSE /\ last' = IF held THEN last ELSE [last EXCEPT ![c] = grams]
               /\ spikes' = [spikes EXCEPT ![c] = IF held THEN @ + 1 ELSE 0]
     /\ cached' = [cached EXCEPT ![c] = last'[c]]
     /\ steady' = [steady EXCEPT ![c] = IF sample # load[c] THEN 0
                                        ELSE IF @ = 3 THEN 3 ELSE @ + 1]
     /\ todo' = todo \ {c}
     /\ pc' = IF todo' = {} THEN "check" ELSE "read"
     /\ UNCHANGED <<load, offset, request, done, channel, sample, callVars, moves, faults>>

Reader == \/ CheckRequest \/ ClearRequest \/ SampleZero \/ SetZero
          \/ SampleWeight \/ Store

-----------------------------------------------------------------------------
(* The callers.                                                            *)
Cleared_Not == UNCHANGED done
Cleared == done' = FALSE

(* tare.  Another call under way, or a reader busy with an older request,  *)
(* makes it doubtful what the event will mean.                             *)
Tare(u, c) ==
  /\ call[u] = NoChannel /\ calls < MaxCalls
  /\ calls' = calls + 1
  /\ call' = [call EXCEPT ![u] = c] /\ served' = served \ {u}
  /\ Cleared /\ request' = c
  /\ doubt' = (doubt \/ request # NoChannel \/ pc \in {"clear", "tare", "set"}
                     \/ \E x \in Callers : call[x] # NoChannel)
  /\ UNCHANGED <<load, cellVars, cached, pc, channel, sample, todo, steady, moves, faults>>

TareDone(u) ==
  /\ call[u] # NoChannel /\ done
  /\ call' = [call EXCEPT ![u] = NoChannel]
  /\ UNCHANGED <<load, cellVars, cached, request, done, pc, channel, sample, todo, served, doubt,
                 calls, steady, moves, faults>>

(* After five seconds the caller goes; the request stays.                  *)
TareTimesOut(u) ==
  /\ call[u] # NoChannel /\ ~done
  /\ call' = [call EXCEPT ![u] = NoChannel]
  /\ UNCHANGED <<load, cellVars, cached, request, done, pc, channel, sample, todo, served, doubt,
                 calls, steady, moves, faults>>

(* set_calibration, from the UI thread, in the middle of whatever the      *)
(* reader does.  The offset is that of an empty scale; the scale does not  *)
(* change here.                                                            *)
SetCalibration(c) ==
  /\ calls < MaxCalls /\ calls' = calls + 1
  /\ offset' = [offset EXCEPT ![c] = 0] /\ last' = [last EXCEPT ![c] = 0]
  /\ steady' = [steady EXCEPT ![c] = 0]
  /\ UNCHANGED <<load, spikes, cached, request, done, pc, channel, sample, todo, call, served,
                 doubt, moves, faults>>

Move(c) ==
  /\ moves < MaxMoves /\ moves' = moves + 1
  /\ \E w \in Loads \ {load[c]} : load' = [load EXCEPT ![c] = w]
  /\ steady' = [steady EXCEPT ![c] = 0]
  /\ UNCHANGED <<cellVars, cached, request, done, pc, channel, sample, todo, callVars, faults>>

Next == \/ Reader
        \/ \E c \in Channels : \/ SetCalibration(c) \/ Move(c)
                               \/ \E u \in Callers : Tare(u, c)
        \/ \E u \in Callers : TareDone(u) \/ TareTimesOut(u)

Spec == Init /\ [][Next]_vars

-----------------------------------------------------------------------------
(* Three good readings in a row are enough: however the weight jumped, and *)
(* whatever was held back before, tared or calibrated in between, the      *)
(* cached weight is then what lies there.                                  *)
ReadingCatchesUp == \A c \in Channels : steady[c] = 3 => cached[c] = Net(c)

(* A caller that is told its tare is done has had its channel set to zero  *)
(* since it asked, unless the tare failed or several were under way.       *)
TareWasMine == \A u \in Callers : TareDone(u) => doubt \/ u \in served
TareIsMine == [][TareWasMine]_vars
=============================================================================
