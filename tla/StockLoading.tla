---------------------------- MODULE StockLoading ----------------------------
(***************************************************************************)
(* The screen for loading new cans (ui_qt/screens/stock_loading.py).  The  *)
(* hardware thread sees a new tag and signals it to the screen, which      *)
(* waits for the scale to settle and credits the tag with the difference   *)
(* to the shelf's weight of some seconds ago.                              *)
(*                                                                         *)
(* Every can weighs one unit, more than the 100 g the code asks for.  Time *)
(* goes by in half seconds, the period of the screen's timer; what is due  *)
(* happens before the next one.  The weight is that of the cans on the     *)
(* shelf; the engine polls it often and may be late with it, the screen's  *)
(* own reading may fail.  The tags are polled seldom, and without missing  *)
(* one.                                                                    *)
(***************************************************************************)
EXTENDS Integers, Sequences, FiniteSets, Functions

CONSTANTS
  Tags,         \* the cans
  Stabilize,    \* _STABILIZE_SECONDS
  ReturnAfter,  \* how long the result is shown
  BufferSize,   \* how many weights _weight_history holds
  RfidEvery,    \* RFID_POLL_INTERVAL_MS
  MaxPuts       \* bound: how often a can is put on the shelf

(* The buffer goes back to before the can that a poll finds, and is full   *)
(* of the weights of this visit only when what was due of the last is over *)
(* (4 s against the poll's 2 s and the result's 3 s).                      *)
LoadingAssumption ==
  /\ IsFiniteSet(Tags) /\ "none" \notin Tags
  /\ Stabilize \in Nat /\ ReturnAfter \in Nat /\ RfidEvery \in Nat \ {0} /\ BufferSize \in Nat
  /\ RfidEvery + 2 <= BufferSize /\ ReturnAfter + 2 <= BufferSize

VARIABLES
  shelf,         \* the cans on the shelf
  lastWeight,    \* _last_shelf_weights
  previousTags,  \* _previous_tags
  sincePoll,     \* half seconds since the tags were polled
  signals,       \* _can_detected_signal, on its way to the screen
  on,            \* is the screen shown? (and stock_loading_mode)
  page, busy, tag, before, history,  \* the screen's state
  countdown,     \* its half seconds left, or Stopped
  returns,       \* the half seconds left of each single shot of _return_to_idle
  puts,          \* how often each can was put on the shelf for this screen
  credited,      \* the units that each can was credited with
  failed,        \* how often each can was weighed as nothing or not stored
  left,          \* the cans whose loading the crew broke off
  crossed        \* has a signal crossed a change of screens?

shelfVars  == <<shelf, puts, left>>
engineVars == <<lastWeight, previousTags, sincePoll>>
screenVars == <<page, busy, tag, before, history>>
timerVars  == <<countdown, returns>>
creditVars == <<credited, failed>>
vars == <<shelfVars, engineVars, signals, on, screenVars, timerVars, creditVars, crossed>>

Stopped == -1
NoCan == "none"
Weight == Cardinality(shelf)
Weights == 0 .. Cardinality(Tags)
TypeOK ==
  /\ shelf \subseteq Tags /\ lastWeight \in Weights /\ previousTags \subseteq Tags
  /\ sincePoll \in 0 .. RfidEvery
  /\ signals \in Seq(Tags) /\ on \in BOOLEAN
  /\ page \in {"idle", "stabilizing", "success"} /\ busy \in BOOLEAN
  /\ tag \in Tags \cup {NoCan} /\ before \in Weights
  /\ history \in Seq(Weights) /\ Len(history) <= BufferSize
  /\ countdown \in Stopped .. Stabilize
  /\ returns \in Seq(0 .. ReturnAfter)
  /\ puts \in [Tags -> Nat] /\ credited \in [Tags -> Nat]
  /\ failed \in [Tags -> Nat]
  /\ left \subseteq Tags /\ crossed \in BOOLEAN

Init ==
  /\ shelf = {} /\ lastWeight = 0 /\ previousTags = {}
  /\ sincePoll \in 0 .. RfidEvery - 1
  /\ signals = <<>> /\ on = FALSE
  /\ page = "idle" /\ busy = FALSE /\ tag = NoCan /\ before = 0 /\ history = <<>>
  /\ countdown = Stopped /\ returns = <<>>
  /\ puts = [t \in Tags |-> 0] /\ credited = [t \in Tags |-> 0]
  /\ failed = [t \in Tags |-> 0]
  /\ left = {} /\ crossed = FALSE

-----------------------------------------------------------------------------
(* The engine's poll of the tags.  In the loading mode a new tag is        *)
(* tracked and signalled.                                                  *)
Notified(new) == IF on THEN {s \in [1 .. Cardinality(new) -> new] :
                                \A i, j \in DOMAIN s : i # j => s[i] # s[j]}
                       ELSE {<<>>}

PollTags ==
  /\ sincePoll = RfidEvery /\ sincePoll' = 0
  /\ previousTags' = shelf
  /\ \E new \in Notified(shelf \ previousTags) : signals' = signals \o new
  /\ UNCHANGED <<shelfVars, lastWeight, on, screenVars, timerVars, creditVars, crossed>>

-----------------------------------------------------------------------------
(* _handle_can_detected_ui.  The oldest weight in the buffer is the one    *)
(* from before the can.                                                    *)
Before_Newest == IF Len(history) >= 2 THEN history[Len(history)] ELSE lastWeight
Before == IF Len(history) >= 2 THEN history[1] ELSE lastWeight

HandleCan ==
  /\ signals # <<>> /\ signals' = Tail(signals)
  /\ IF busy
       THEN UNCHANGED <<screenVars, timerVars>>
       ELSE /\ before' = Before
            /\ tag' = Head(signals) /\ busy' = TRUE
            /\ page' = "stabilizing" /\ countdown' = Stabilize
            /\ UNCHANGED <<history, returns>>
  /\ UNCHANGED <<shelfVars, engineVars, on, creditVars, crossed>>

(* _finalize_loading.  If the weight has not grown, the whole weight of    *)
(* the shelf is taken for the can's; if there is none, an error is shown.  *)
(* A database that refuses the credit is only logged: the screen shows     *)
(* LOADED all the same.                                                    *)
Net(read) == IF read > before THEN read - before ELSE read

Finalize ==
  /\ countdown = 0 /\ countdown' = Stopped
  /\ IF tag = NoCan
       THEN page' = "idle" /\ busy' = FALSE /\ UNCHANGED <<history, returns, creditVars>>
       ELSE /\ \/ \E read \in {0, Weight} :
                    /\ Net(read) > 0
                    /\ credited' = [credited EXCEPT ![tag] = @ + Net(read)]
                    /\ UNCHANGED failed
               \/ failed' = [failed EXCEPT ![tag] = @ + 1] /\ UNCHANGED credited
            /\ page' = "success" /\ history' = <<>>
            /\ returns' = Append(returns, ReturnAfter)
            /\ UNCHANGED busy
  /\ UNCHANGED <<shelfVars, engineVars, signals, on, tag, before, crossed>>

(* _return_to_idle, by a single shot that nothing cancels.                 *)
ReturnToIdle ==
  /\ returns # <<>> /\ Head(returns) = 0
  /\ returns' = Tail(returns)
  /\ busy' = FALSE /\ tag' = NoCan /\ page' = "idle" /\ countdown' = Stopped
  /\ UNCHANGED <<shelfVars, engineVars, signals, on, before, history, creditVars, crossed>>

(* on_enter and on_leave.                                                  *)
pending == {t \in Tags : puts[t] > credited[t] + failed[t]} \ left

Enter ==
  /\ ~on /\ on' = TRUE
  /\ busy' = FALSE /\ page' = "idle" /\ history' = <<lastWeight>>
  /\ UNCHANGED <<shelfVars, engineVars, signals, tag, before, timerVars, creditVars, crossed>>

Leave ==
  /\ on /\ on' = FALSE
  /\ busy' = FALSE /\ countdown' = Stopped
  /\ left' = left \cup pending
  /\ crossed' = (crossed \/ signals # <<>>)
  /\ UNCHANGED <<shelf, puts, engineVars, signals, page, tag, before, history, returns, creditVars>>

-----------------------------------------------------------------------------
(* Half a second passes.  The engine weighs the shelf, and while the       *)
(* screen waits for a can it notes the engine's weight, before or after.   *)
Noted(w) == LET h == Append(history, w) IN IF Len(h) > BufferSize THEN Tail(h) ELSE h

HalfSecond ==
  /\ sincePoll < RfidEvery /\ signals = <<>> /\ countdown # 0
  /\ \A i \in DOMAIN returns : returns[i] > 0
  /\ sincePoll' = sincePoll + 1
  /\ lastWeight' \in {Weight, lastWeight}
  /\ IF on /\ page = "idle"
       THEN \E w \in {lastWeight, lastWeight'} : history' = Noted(w)
       ELSE UNCHANGED history
  /\ countdown' = IF countdown = Stopped THEN Stopped ELSE countdown - 1
  /\ returns' = [i \in DOMAIN returns |-> returns[i] - 1]
  /\ UNCHANGED <<shelfVars, previousTags, signals, on, page, busy, tag, before, creditVars, crossed>>

(* The crew puts a can down, or takes one away, when the screen has been   *)
(* waiting for a can with a steady weight.                                 *)
ready == /\ on /\ page = "idle" /\ Len(history) = BufferSize
         /\ \A i \in DOMAIN history : history[i] = Weight

MorePuts == FoldFunction(+, 0, puts) < MaxPuts

PutCan(t) ==
  /\ ready /\ t \notin shelf /\ t \notin previousTags /\ MorePuts
  /\ shelf' = shelf \cup {t}
  /\ puts' = [puts EXCEPT ![t] = @ + 1]
  /\ UNCHANGED <<left, engineVars, signals, on, screenVars, timerVars, creditVars, crossed>>

TakeCan(t) ==
  /\ ready /\ t \in shelf
  /\ shelf' = shelf \ {t}
  /\ UNCHANGED <<puts, left, engineVars, signals, on, screenVars, timerVars, creditVars, crossed>>

Next == \/ PollTags \/ HandleCan \/ Finalize \/ ReturnToIdle \/ Enter \/ Leave \/ HalfSecond
        \/ \E t \in Tags : PutCan(t) \/ TakeCan(t)

Spec == Init /\ [][Next]_vars

-----------------------------------------------------------------------------
(* Whenever the screen is ready for the next can, each time a can was put  *)
(* down for it has been credited once, with that can's own weight, or has  *)
(* failed by itself and credited nothing: a failure, shown or not, neither *)
(* credits another can with what was missed nor is made up for later.  Not *)
(* so for a can whose loading the crew broke off, and after a signal that  *)
(* crossed a change of screens.                                            *)
LoadedOnce == ready /\ ~crossed => \A t \in Tags \ left : credited[t] + failed[t] = puts[t]
=============================================================================
