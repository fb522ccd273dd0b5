------------------------------- MODULE Lights -------------------------------
(***************************************************************************)
(* The lamps that hang on the computer itself: single lamps on pins        *)
(* (hal/real/real_led_gpio.py), whose calls and animation hold a lock, or  *)
(* a strip (hal/real/real_led.py), whose calls and animation hold none.    *)
(***************************************************************************)
EXTENDS Naturals

CONSTANTS
  Slots,         \* the slots that have a lamp
  Users,         \* the threads that set lamps
  AllSlots,      \* names every lamp in a call
  MaxSets        \* a bound on the calls

VARIABLES
  driver,        \* "pins" or "strip"
  state,         \* _states, _state; "none" for a slot that is not in it
  lit,           \* the lamps that are lit
  user,          \* what each user is doing
  copied,        \* the lamps the strip's animation still has to make blink
  animated,      \* _anim_running, _animation_running
  up,            \* _initialized
  sets,          \* the calls so far
  crossed,       \* lamps of the strip that two users last set at once
  overtaken      \* lamps that were set while a pass still had them blinking

lightVars == <<driver, state, lit, user, copied, animated, up, sets, crossed, overtaken>>

LightAssumption == AllSlots \notin Slots /\ MaxSets \in Nat

Resting == [pc |-> "idle", slot |-> AllSlots, on |-> FALSE]

TypeOK ==
  /\ driver \in {"pins", "strip"}
  /\ state \in [Slots -> {"none", "off", "solid", "blink"}]
  /\ user \in [Users -> [pc : {"idle", "write", "joining", "last", "closing"},
                         slot : Slots \cup {AllSlots}, on : BOOLEAN]]
  /\ lit \subseteq Slots /\ copied \subseteq Slots
  /\ crossed \subseteq Slots /\ overtaken \subseteq Slots
  /\ animated \in BOOLEAN /\ up \in BOOLEAN /\ sets \in 0 .. MaxSets

Init ==
  /\ driver \in {"pins", "strip"} /\ state = [s \in Slots |-> "none"] /\ lit = {}
  /\ user = [u \in Users |-> Resting] /\ copied = {} /\ animated = TRUE /\ up = TRUE
  /\ sets = 0 /\ crossed = {} /\ overtaken = {}

Named(s) == IF s = AllSlots THEN Slots ELSE {s}
Blinking == {s \in Slots : state[s] = "blink"}

(* Another thread has said how one of the lamps is to be and has not set   *)
(* it yet.                                                                 *)
UnderWay(u) == UNION {Named(user[v].slot) : v \in {v \in Users \ {u} : user[v].pc # "idle"}}

Said(S, c) == state' = [s \in Slots |-> IF s \in S THEN c ELSE state[s]]
Light(S, on) == lit' = IF on THEN lit \cup S ELSE lit \ S

-----------------------------------------------------------------------------
(* mutant: a lamp that is cleared is left to the animation too.            *)
SetPin_OnlyLights(s, c) ==
  /\ Said({s}, c)
  /\ IF c = "solid" THEN Light({s}, TRUE) ELSE UNCHANGED lit
  /\ UNCHANGED <<user, crossed, overtaken>>

(* set_slot of the lamps on pins; a colour is on, none is off.  A lamp     *)
(* that is to blink is left to the animation.  A write to a pin that was   *)
(* claimed is taken not to fail.                                           *)
SetPin(s, c) ==
  /\ Said({s}, c)
  /\ IF c = "blink" THEN UNCHANGED lit ELSE Light({s}, c = "solid")
  /\ UNCHANGED <<user, crossed, overtaken>>

(* set_slot and clear_slot of the strip: what is said is noted, and then   *)
(* shown.                                                                  *)
SetPixel(u, s, c) ==
  /\ Said({s}, c)
  /\ user' = [user EXCEPT ![u] = IF c = "blink" THEN Resting
                                   ELSE [pc |-> "write", slot |-> s, on |-> c = "solid"]]
  /\ crossed' = (crossed \ {s}) \cup ({s} \cap UnderWay(u))
  /\ UNCHANGED <<lit, overtaken>>

SetSlot(u, s, c) ==
  /\ user[u] = Resting /\ up /\ sets < MaxSets
  /\ sets' = sets + 1
  /\ IF driver = "pins" THEN SetPin(s, IF c = "off" THEN "none" ELSE c)
                        ELSE SetPixel(u, s, c)
  /\ UNCHANGED <<driver, copied, animated, up>>

(* clear_all.                                                              *)
ClearNoted(u, next) ==
  /\ Said(Slots, "none")
  /\ IF driver = "pins"
       THEN /\ Light(Slots, FALSE)
            /\ user' = [user EXCEPT ![u].pc = IF next = "last" THEN "closing" ELSE "idle"]
            /\ UNCHANGED crossed
       ELSE /\ user' = [user EXCEPT ![u] = [pc |-> next, slot |-> AllSlots, on |-> FALSE]]
            /\ crossed' = UnderWay(u)
            /\ UNCHANGED lit

ClearAll(u) ==
  /\ user[u] = Resting /\ up /\ sets < MaxSets
  /\ sets' = sets + 1
  /\ ClearNoted(u, "write")
  /\ UNCHANGED <<driver, copied, animated, up, overtaken>>

(* shutdown: the animation is stopped and waited for, everything is        *)
(* cleared, and the hardware is let go of.                                 *)
Shutdown(u) ==
  /\ user[u] = Resting /\ up
  /\ animated' = FALSE
  /\ user' = [user EXCEPT ![u].pc = "joining"]
  /\ UNCHANGED <<driver, state, lit, copied, up, sets, crossed, overtaken>>

ShutdownClears(u) ==
  /\ user[u].pc = "joining" /\ copied = {}
  /\ ClearNoted(u, "last")
  /\ UNCHANGED <<driver, copied, animated, up, sets, overtaken>>

Close(u) ==
  /\ user[u].pc = "closing"
  /\ up' = FALSE /\ user' = [user EXCEPT ![u] = Resting]
  /\ UNCHANGED <<driver, state, lit, copied, animated, sets, crossed, overtaken>>

(* The strip is written.  It fails when the strip is gone, or on an error, *)
(* and is not tried again.                                                 *)
Write(u) ==
  /\ user[u].pc \in {"write", "last"}
  /\ \/ up /\ Light(Named(user[u].slot), user[u].on) /\ UNCHANGED crossed
     \/ UNCHANGED lit /\ crossed' = crossed \cup Named(user[u].slot)
  /\ overtaken' = (overtaken \ Named(user[u].slot)) \cup (copied \cap Named(user[u].slot))
  /\ user' = [user EXCEPT ![u] = IF user[u].pc = "last" THEN [@ EXCEPT !.pc = "closing"]
                                                        ELSE Resting]
  /\ UNCHANGED <<driver, state, copied, animated, up, sets>>

(* Without the hardware a call returns at once.                            *)
CallIgnored == ~up /\ UNCHANGED lightVars

UserStep ==
  \E u \in Users : \/ \E s \in Slots, c \in {"solid", "blink", "off"} : SetSlot(u, s, c)
                   \/ ClearAll(u) \/ Shutdown(u) \/ ShutdownClears(u) \/ Close(u) \/ Write(u)

-----------------------------------------------------------------------------
(* _animation_loop.  On pins a pass is one step, under the lock; the       *)
(* strip's goes through a copy of what was said.                           *)
PassOverPins ==
  /\ driver = "pins" /\ animated
  /\ \E on \in SUBSET Blinking : lit' = (lit \ Blinking) \cup on
  /\ UNCHANGED <<driver, state, user, copied, animated, up, sets, crossed, overtaken>>

BeginPass ==
  /\ driver = "strip" /\ animated /\ copied = {}
  /\ copied' = Blinking
  /\ UNCHANGED <<driver, state, lit, user, animated, up, sets, crossed, overtaken>>

Blink(s) ==
  /\ s \in copied
  /\ copied' = copied \ {s}
  /\ \E on \in BOOLEAN : Light({s}, on)
  /\ UNCHANGED <<driver, state, user, animated, up, sets, crossed, overtaken>>

Next == UserStep \/ CallIgnored \/ PassOverPins \/ BeginPass \/ \E s \in Slots : Blink(s)

Spec == Init /\ [][Next]_lightVars

-----------------------------------------------------------------------------
(* A lamp on a pin always is as was said last.  One of the strip is, when  *)
(* no call is under way, unless it is to blink, two threads set it at      *)
(* once, its writing failed, or it was set while a pass that had it        *)
(* blinking had not come to it: that lamp may stay lit when it was         *)
(* cleared.                                                                *)
LightsShowState ==
  \/ driver = "strip" /\ \E u \in Users : user[u] # Resting
  \/ \A s \in Slots : \/ state[s] = "blink" \/ s \in crossed \/ s \in overtaken
                      \/ s \in lit <=> state[s] = "solid"
=============================================================================
