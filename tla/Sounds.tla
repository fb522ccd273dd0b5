------------------------------- MODULE Sounds -------------------------------
(***************************************************************************)
(* The buzzer on a pin: hal/real/real_buzzer.py.  The engines and the      *)
(* interface play a pattern or stop it, on whatever thread they run; each  *)
(* pattern is played by a thread of its own, which looks at a flag that    *)
(* all of them share.  No lock orders the calls.                           *)
(***************************************************************************)
EXTENDS Naturals

CONSTANTS
  Players,       \* the threads that play and stop sounds
  MaxPlays       \* a bound on the sounds played

Tunes == 1 .. MaxPlays

VARIABLES
  flag,          \* _stop_flag
  current,       \* _play_thread; 0 when there is none
  tune,          \* where each tone thread is
  alarms,        \* the tunes that are the repeating alarm
  sounding,      \* is the duty cycle 50 %?
  up,            \* _initialized, and _pwm is there
  call,          \* what each player is doing
  plays,         \* the sounds played so far
  want,          \* what was called last
  crossed        \* have two calls crossed since all was last stopped?

soundVars == <<flag, current, tune, alarms, sounding, up, call, plays, want, crossed>>

SoundAssumption == MaxPlays \in Nat

Ops == {"alarm", "beep", "stop", "shutdown"}
Idle == [pc |-> "idle", op |-> "stop", joined |-> 0]
Live == {t \in Tunes : tune[t] \in {"check", "tone", "last"}}

TypeOK ==
  /\ flag \in BOOLEAN /\ sounding \in BOOLEAN /\ up \in BOOLEAN /\ crossed \in BOOLEAN
  /\ current \in 0 .. MaxPlays /\ plays \in 0 .. MaxPlays /\ alarms \subseteq Tunes
  /\ tune \in [Tunes -> {"none", "check", "tone", "last", "ended"}]
  /\ call \in [Players -> [pc : {"idle", "flagged", "joining", "hushed", "cleared"},
                           op : Ops, joined : 0 .. MaxPlays]]
  /\ want \in Ops

Init ==
  /\ flag = FALSE /\ current = 0 /\ tune = [t \in Tunes |-> "none"] /\ alarms = {}
  /\ sounding = FALSE /\ up = TRUE /\ call = [p \in Players |-> Idle] /\ plays = 0
  /\ want = "stop" /\ crossed = FALSE

-----------------------------------------------------------------------------
(* The calls.  play, stop and shutdown all begin with stop: the flag is    *)
(* set.  Without the PWM play does nothing.                                *)
Call(p, op) ==
  /\ call[p].pc = "idle"
  /\ op \in {"alarm", "beep"} => up /\ plays < MaxPlays
  /\ flag' = TRUE
  /\ call' = [call EXCEPT ![p] = [pc |-> "flagged", op |-> op, joined |-> 0]]
  /\ plays' = IF op \in {"alarm", "beep"} THEN plays + 1 ELSE plays
  /\ want' = op
  /\ crossed' = (crossed \/ \E q \in Players : call[q].pc # "idle")
  /\ UNCHANGED <<current, tune, alarms, sounding, up>>

(* The thread that plays is waited for.  It looks at the flag every 10 ms, *)
(* so the second that the wait may take does not pass, unless another play *)
(* has cleared the flag.                                                   *)
BeginJoin(p) ==
  /\ call[p].pc = "flagged"
  /\ call' = [call EXCEPT ![p].pc = "joining", ![p].joined = current]
  /\ UNCHANGED <<flag, current, tune, alarms, sounding, up, plays, want, crossed>>

(* mutant: the thread is told to end and not waited for.                   *)
Joined_Not(p) == TRUE
Joined(p) == call[p].joined \notin Live \/ ~flag

Hush(p) ==
  /\ call[p].pc = "joining" /\ Joined(p)
  /\ sounding' = FALSE
  /\ call' = [call EXCEPT ![p].pc = "hushed"]
  /\ UNCHANGED <<flag, current, tune, alarms, up, plays, want, crossed>>

(* stop returns; shutdown takes the PWM away.                              *)
Return(p) ==
  /\ call[p].pc = "hushed" /\ call[p].op \in {"stop", "shutdown"}
  /\ call' = [call EXCEPT ![p] = Idle]
  /\ up' = (up /\ call[p].op = "stop")
  /\ crossed' = (crossed /\ (Live # {} \/ \E q \in Players \ {p} : call[q].pc # "idle"))
  /\ UNCHANGED <<flag, current, tune, alarms, sounding, plays, want>>

(* play clears the flag, and then starts the new thread.                   *)
ClearFlag(p) ==
  /\ call[p].pc = "hushed" /\ call[p].op \in {"alarm", "beep"}
  /\ flag' = FALSE
  /\ call' = [call EXCEPT ![p].pc = "cleared"]
  /\ UNCHANGED <<current, tune, alarms, sounding, up, plays, want, crossed>>

Begin(p) ==
  /\ call[p].pc = "cleared"
  /\ \E t \in {t \in Tunes : tune[t] = "none" /\ \A s \in Tunes : s < t => tune[s] # "none"} :
       /\ current' = t /\ tune' = [tune EXCEPT ![t] = "check"]
       /\ alarms' = IF call[p].op = "alarm" THEN alarms \cup {t} ELSE alarms
  /\ call' = [call EXCEPT ![p] = Idle]
  /\ UNCHANGED <<flag, sounding, up, plays, want, crossed>>

PlayerStep ==
  \E p \in Players : \/ \E op \in Ops : Call(p, op)
                     \/ BeginJoin(p) \/ Hush(p) \/ Return(p) \/ ClearFlag(p) \/ Begin(p)

-----------------------------------------------------------------------------
(* _play_pattern and _play_alarm_loop.  The next tone, or the silence      *)
(* between two; without the PWM the call fails, which a beep does not      *)
(* survive and the alarm does.                                             *)
Tone(t) ==
  /\ tune[t] = "check" /\ ~flag
  /\ IF up THEN /\ sounding' \in BOOLEAN /\ tune' = [tune EXCEPT ![t] = "tone"]
           ELSE /\ tune' = [tune EXCEPT ![t] = IF t \in alarms THEN "check" ELSE "last"]
                /\ UNCHANGED sounding
  /\ UNCHANGED <<flag, current, alarms, up, call, plays, want, crossed>>

(* It lasts its time, or until the flag is set.                            *)
ToneOver(t) ==
  /\ tune[t] = "tone"
  /\ tune' = [tune EXCEPT ![t] = "check"]
  /\ UNCHANGED <<flag, current, alarms, sounding, up, call, plays, want, crossed>>

(* The loop ends: the alarm's when the flag is set, a beep's also when its *)
(* tones are over.                                                         *)
TuneOver(t) ==
  /\ tune[t] = "check" /\ (flag \/ t \notin alarms)
  /\ tune' = [tune EXCEPT ![t] = "last"]
  /\ UNCHANGED <<flag, current, alarms, sounding, up, call, plays, want, crossed>>

FallSilent(t) ==
  /\ tune[t] = "last"
  /\ tune' = [tune EXCEPT ![t] = "ended"] /\ sounding' = FALSE
  /\ UNCHANGED <<flag, current, alarms, up, call, plays, want, crossed>>

TuneStep == \E t \in Tunes : Tone(t) \/ ToneOver(t) \/ TuneOver(t) \/ FallSilent(t)

Next == PlayerStep \/ TuneStep

Spec == Init /\ [][Next]_soundVars

-----------------------------------------------------------------------------
(* When the last tune has ended the buzzer is silent, whoever stopped it   *)
(* and however the calls crossed.  And unless two calls have crossed, what *)
(* was called last is what is heard: after a stop no tune is left, an      *)
(* alarm goes on until it is stopped, and no older tune plays beside it.   *)
SoundIsAsTold ==
  /\ Live = {} => ~sounding
  /\ ~crossed => Live \subseteq {current}
  /\ ~crossed /\ (\A p \in Players : call[p] = Idle) =>
       /\ want \in {"stop", "shutdown"} => Live = {}
       /\ want = "alarm" => Live # {} /\ current \in alarms /\ ~flag
=============================================================================
