------------------------------ MODULE FanControl ------------------------------
(***************************************************************************)
(* The fan's thread (scripts/fan_control.py): it reads the processor's     *)
(* temperature, takes a speed from a curve and writes it to the fan when   *)
(* it is another than before.  The file of the fan may refuse a write, the *)
(* temperature may not be readable; the UI starts the thread and stops it  *)
(* when it is closed.                                                      *)
(***************************************************************************)
EXTENDS Integers

CONSTANTS
  Temps,       \* the temperatures there are, in degrees
  Thresholds,  \* those of FAN_CURVE
  SpeedAt,     \* the speed it has from each on, in percent
  OffTemp      \* FAN_OFF_TEMP

FanAssumption ==
  /\ Temps \subseteq Nat /\ Thresholds \subseteq Nat /\ OffTemp \in Nat
  /\ SpeedAt \in [Thresholds -> 1 .. 100]
  /\ \A t \in Thresholds : OffTemp < t
  /\ \A t, u \in Thresholds : t <= u => SpeedAt[t] <= SpeedAt[u]

VARIABLES
  thread,      \* is the fan's thread there?
  cpu,         \* the temperature of the processor
  temp,        \* current_temp
  speed,       \* current_speed
  pwm,         \* what is in the fan's file
  manual,      \* is the fan left to this program, and not to the system?
  refused,     \* history: was the last write refused?
  looked       \* history: was the temperature read, and has it not changed since?

vars == <<thread, cpu, temp, speed, pwm, manual, refused, looked>>

Speeds == 0 .. 100
PwmOf(pct) == (pct * 255) \div 100

TypeOK ==
  /\ thread \in {"new", "poll", "ended"} /\ cpu \in Temps /\ temp \in Temps \cup {0}
  /\ speed \in Speeds /\ pwm \in {PwmOf(pct) : pct \in Speeds}
  /\ {manual, refused, looked} \subseteq BOOLEAN

Init ==
  /\ thread = "new" /\ cpu \in Temps /\ temp = 0 /\ speed = 0
  /\ pwm \in {PwmOf(0), PwmOf(100)}
  /\ manual = FALSE /\ refused = FALSE /\ looked = FALSE

-----------------------------------------------------------------------------
(* The processor gets warmer or cooler.                                    *)
Heat(t) ==
  /\ cpu' = t /\ looked' = FALSE
  /\ UNCHANGED <<thread, temp, speed, pwm, manual, refused>>

(* Without the fan's files, or if it is not left to the program, there is  *)
(* no control.  Where nothing says who controls it, it is tried.           *)
NoFan == thread' = "ended" /\ manual' = manual
TakeOver == \/ thread' = "poll" /\ manual' \in {manual, TRUE}
            \/ thread' = "ended" /\ manual' = manual

FindFan ==
  /\ thread = "new" /\ (NoFan \/ TakeOver)
  /\ UNCHANGED <<cpu, temp, speed, pwm, refused, looked>>

(* calculate_fan_speed: the speed of the hottest threshold that is reached *)
(* or, below all of them, off or what it was.                              *)
Hottest_Coolest(t, u) == u <= t /\ \A v \in Thresholds : v <= t => u <= v
Hottest(t, u) == u <= t /\ \A v \in Thresholds : v <= t => v <= u

Calculated(t, new) ==
  \/ \E u \in Thresholds : Hottest(t, u) /\ new = SpeedAt[u]
  \/ (\A u \in Thresholds : t < u) /\ new = IF t <= OffTemp THEN 0 ELSE speed

(* A round of the thread: a temperature that cannot be read is 0.          *)
Sensed(readable) == IF readable THEN cpu ELSE 0
Write(pct, writable) == refused' = ~writable /\ pwm' = IF writable THEN PwmOf(pct) ELSE pwm

Poll(readable, writable) ==
  /\ thread = "poll"
  /\ temp' = Sensed(readable)
  /\ looked' = readable
  /\ speed' \in Speeds /\ Calculated(temp', speed')
  /\ IF speed' = speed THEN UNCHANGED <<pwm, refused>> ELSE Write(speed', writable)
  /\ UNCHANGED <<thread, cpu, manual>>

Stop ==
  /\ thread # "ended" /\ thread' = "ended"
  /\ UNCHANGED <<cpu, temp, speed, pwm, manual, refused, looked>>

(* The UI is started again; the fan's file keeps what it had.              *)
Start ==
  /\ thread = "ended" /\ thread' = "new" /\ temp' = 0 /\ speed' = 0 /\ looked' = FALSE
  /\ UNCHANGED <<cpu, pwm, manual, refused>>

Next ==
  \/ \E t \in Temps : Heat(t)
  \/ FindFan \/ Stop \/ Start
  \/ \E readable, writable \in BOOLEAN : Poll(readable, writable)

Spec == Init /\ [][Next]_vars

-----------------------------------------------------------------------------
(* While the thread runs, the fan turns at least as fast as the curve asks *)
(* at every threshold that the processor has reached, whatever it was      *)
(* before, unless the temperature could not be read or has changed since,  *)
(* or the last write was refused, which is not tried again.                *)
FanFollowsCurve ==
  thread = "poll" /\ looked /\ ~refused =>
    \E pct \in Speeds :
      pwm = PwmOf(pct) /\ \A u \in Thresholds : u <= cpu => SpeedAt[u] <= pct
=============================================================================
