------------------------------- MODULE Firmware -------------------------------
(***************************************************************************)
(* The Arduino's program (firmware/smartlocker_nano.ino): it carries out   *)
(* one command after the other.  The zeros of the scales are kept in the   *)
(* EEPROM, byte by byte, under a mark that says that there are any; the    *)
(* board may be reset at any moment, as it is whenever its serial port is  *)
(* opened or its program is flashed.                                       *)
(*                                                                         *)
(* A zero is known by the number of the moment it was set at, 0 being the  *)
(* one that the program starts with.  Lines that are too long, cut or no   *)
(* JSON are answered with an error and change nothing: they are left out.  *)
(***************************************************************************)
EXTENDS Naturals

CONSTANTS
  Slots,      \* the lamps of the shelf
  Segments,   \* NUM_BAR_SEGS
  Percents,   \* the percentages the bar is set to
  Window,     \* STABILITY_WINDOW
  MaxZeros,   \* a bound on the zeros that are set
  Blank,      \* what an EEPROM cell never written holds
  Mixed       \* what one holds that was written in part

Scales == {"shelf", "mix"}

FirmwareAssumption ==
  /\ {Segments, Window, MaxZeros} \subseteq Nat \ {0} /\ Percents \subseteq Nat
  /\ Blank \notin Nat /\ Mixed \notin Nat /\ Blank # Mixed

VARIABLES
  at,          \* where is it: between commands, in one, or in what part of a save?
  cmd,         \* the command it is in
  started,     \* hx711_initialized
  offset,      \* shelfOffset and mixOffset
  eeprom,      \* their cells in the EEPROM
  magic,       \* is the mark there?
  history,     \* the readings of shelfHistory and mixHistory, the newest first:
               \* is each at least STABILITY_THRESH away from zero?
  outputs,     \* the lamps that are on, the bar's segments, whether a tone is timed
  zeros,       \* the zeros set so far
  told,        \* history: the last zeros that an answer told of
  torn,        \* history: scales whose cell a reset left written in part under the mark
  unready,     \* history: scales that gave no zero when there was no mark
  fresh        \* history: the readings since the zero was set, up to Window

zeroVars == <<at, cmd, started, offset, eeprom, magic, zeros, told, torn, unready>>
vars == <<zeroVars, history, outputs, fresh>>

Zeros == Nat \cup {Mixed, Blank}
Dark == [on |-> {}, bar |-> 0, tone |-> FALSE]
Saves == {"shelf", "in shelf", "mix", "in mix", "magic"}
Jobs == [do : {"none", "init", "read", "tare", "set_offset", "reset_tare"}, on : SUBSET Scales]
NoJob == [do |-> "none", on |-> {}]

TypeOK ==
  /\ at \in {"idle", "run"} \cup Saves /\ cmd \in Jobs /\ started \in BOOLEAN
  /\ offset \in [Scales -> Zeros] /\ eeprom \in [Scales -> Zeros] /\ magic \in BOOLEAN
  /\ history \in [Scales -> [1 .. Window -> BOOLEAN]] /\ fresh \in [Scales -> 0 .. Window]
  /\ outputs \in [on : SUBSET Slots, bar : 0 .. Segments, tone : BOOLEAN]
  /\ zeros \in 0 .. MaxZeros /\ told \in [Scales -> Nat]
  /\ torn \subseteq Scales /\ unready \subseteq Scales

ResetHistory_OnlyIndex(on) ==
  /\ history' = history
  /\ fresh' = [s \in Scales |-> IF s \in on THEN 0 ELSE fresh[s]]
ResetHistory(on) ==
  /\ history' = [s \in Scales |-> IF s \in on THEN [i \in 1 .. Window |-> FALSE] ELSE history[s]]
  /\ fresh' = [s \in Scales |-> IF s \in on THEN 0 ELSE fresh[s]]

Init ==
  /\ at = "idle" /\ cmd = NoJob /\ started = FALSE
  /\ offset = [s \in Scales |-> 0] /\ eeprom = [s \in Scales |-> Blank] /\ magic = FALSE
  /\ history = [s \in Scales |-> [i \in 1 .. Window |-> FALSE]]
  /\ fresh = [s \in Scales |-> 0] /\ outputs = Dark
  /\ zeros = 0 /\ told = [s \in Scales |-> 0] /\ torn = {} /\ unready = {}

-----------------------------------------------------------------------------
(* A reset.  A cell that was being written is not whole.                   *)
Writing(s) == <<at, s>> \in {<<"in shelf", "shelf">>, <<"in mix", "mix">>}

Reset ==
  /\ at' = "idle" /\ cmd' = NoJob /\ started' = FALSE
  /\ offset' = [s \in Scales |-> 0]
  /\ history' = [s \in Scales |-> [i \in 1 .. Window |-> FALSE]]
  /\ fresh' = [s \in Scales |-> 0] /\ outputs' = Dark
  /\ torn' = torn \cup {s \in Scales : magic /\ Writing(s)}
  /\ UNCHANGED <<eeprom, magic, zeros, told, unready>>

(* A command of the driver: the scales are those it names.                 *)
Command(job) ==
  /\ at = "idle" /\ at' = "run" /\ cmd' = job
  /\ job.do \in {"init", "read", "tare", "set_offset"}
  /\ UNCHANGED <<started, offset, eeprom, magic, zeros, told, torn, unready, history, outputs,
                 fresh>>

(* reset_tare removes the mark and begins anew.                            *)
ResetTare ==
  /\ at = "idle" /\ at' = "run" /\ cmd' = [do |-> "reset_tare", on |-> Scales]
  /\ magic' = FALSE /\ started' = FALSE
  /\ UNCHANGED <<offset, eeprom, zeros, told, torn, unready, history, outputs, fresh>>

AfterInit(next) ==
  IF cmd.do \in {"init", "reset_tare"} THEN at' = "idle" /\ cmd' = NoJob
                                      ELSE at' = next /\ cmd' = cmd

(* An answer tells of both zeros, when they are any.                       *)
Tell(offsets) == told' = [s \in Scales |-> IF offsets[s] \in Nat THEN offsets[s] ELSE told[s]]

(* initHX711: the zeros of the EEPROM or, without the mark, new ones of    *)
(* the scales that answer, which are saved.                                *)
Load ==
  /\ at = "run" /\ ~started /\ magic
  /\ started' = TRUE /\ offset' = eeprom
  /\ ResetHistory(Scales) /\ Tell(eeprom) /\ AfterInit("run")
  /\ UNCHANGED <<eeprom, magic, zeros, torn, unready, outputs>>

Measured(ready) == [s \in Scales |-> IF s \in ready THEN zeros + 1 ELSE offset[s]]

AutoTare(ready) ==
  /\ at = "run" /\ ~started /\ ~magic /\ zeros < MaxZeros
  /\ zeros' = zeros + 1 /\ offset' = Measured(ready) /\ at' = "shelf"
  /\ unready' = unready \cup (Scales \ ready)
  /\ UNCHANGED <<cmd, started, eeprom, magic, history, outputs, told, torn, fresh>>

-----------------------------------------------------------------------------
(* saveOffsetsToEEPROM: a cell has several bytes; the mark comes last.     *)
Save ==
  \/ /\ at = "shelf" /\ at' = "in shelf" /\ eeprom' = [eeprom EXCEPT !["shelf"] = Mixed]
     /\ magic' = magic
  \/ /\ at = "in shelf" /\ at' = "mix"
     /\ eeprom' = [eeprom EXCEPT !["shelf"] = offset["shelf"]] /\ magic' = magic
  \/ /\ at = "mix" /\ at' = "in mix" /\ eeprom' = [eeprom EXCEPT !["mix"] = Mixed]
     /\ magic' = magic
  \/ /\ at = "in mix" /\ at' = "magic"
     /\ eeprom' = [eeprom EXCEPT !["mix"] = offset["mix"]] /\ magic' = magic

SaveStep ==
  /\ Save
  /\ UNCHANGED <<cmd, started, offset, zeros, told, torn, unready, history, outputs, fresh>>

(* The save is done, and with it the command, or initHX711 before it.      *)
Saved ==
  /\ at = "magic" /\ magic' = TRUE /\ Tell(offset)
  /\ IF started THEN at' = "idle" /\ cmd' = NoJob /\ UNCHANGED <<started, history, fresh>>
                ELSE started' = TRUE /\ ResetHistory(Scales) /\ AfterInit("run")
  /\ UNCHANGED <<offset, eeprom, zeros, torn, unready, outputs>>

Ends == at' = "idle" /\ cmd' = NoJob
Refuse ==
  /\ Ends
  /\ UNCHANGED <<started, offset, eeprom, magic, zeros, told, torn, unready, history, outputs,
                 fresh>>

(* New zeros for some scales, which are then saved.                        *)
Replace(on) ==
  /\ zeros < MaxZeros /\ zeros' = zeros + 1 /\ offset' = Measured(on)
  /\ ResetHistory(on) /\ at' = "shelf"
  /\ UNCHANGED <<cmd, started, eeprom, magic, told, torn, unready, outputs>>

(* tare succeeds if one of its scales does.                                *)
Tare(done) ==
  /\ at = "run" /\ started /\ cmd.do = "tare" /\ done \subseteq cmd.on
  /\ IF done = {} THEN Refuse ELSE Replace(done)

(* set_offset wants a single offset, which a message for both scales does  *)
(* not have: that one is refused.                                          *)
SetOffset ==
  /\ at = "run" /\ started /\ cmd.do = "set_offset"
  /\ IF cmd.on = Scales THEN Refuse ELSE Replace(cmd.on)

(* readAndSend, of one scale: it is not ready, or the reading is kept.     *)
Read ==
  /\ at = "run" /\ started /\ cmd.do = "read" /\ Ends
  /\ \E s \in Scales, away \in BOOLEAN :
       /\ cmd.on = {s}
       /\ history' = [history EXCEPT ![s] =
                        [i \in 1 .. Window |-> IF i = 1 THEN away ELSE history[s][i - 1]]]
       /\ fresh' = [fresh EXCEPT ![s] = IF @ < Window THEN @ + 1 ELSE @]
  /\ UNCHANGED <<started, offset, eeprom, magic, zeros, told, torn, unready, outputs>>

(* A command that changes nothing: a failed read, or init_hx once more.    *)
Nothing == at = "run" /\ started /\ cmd.do \in {"read", "init"} /\ Refuse

-----------------------------------------------------------------------------
(* The lamps, the bar and the buzzer.                                      *)
SegmentsOf(pct) == ((IF pct > 100 THEN 100 ELSE pct) * Segments + 50) \div 100

Bar(seg) == outputs' = [outputs EXCEPT !.bar = seg]
Slot(i) == \/ outputs' = [outputs EXCEPT !.on = @ \cup {i}]
           \/ outputs' = [outputs EXCEPT !.on = @ \ {i}]
EverySlot == \E on \in {{}, Slots} : outputs' = [outputs EXCEPT !.on = on]
LedOff == outputs' = Dark

(* A tone with a duration is timed by the loop, one of a pattern is not.   *)
Buzz == outputs' = [outputs EXCEPT !.tone = TRUE]
BuzzOff == outputs' = [outputs EXCEPT !.tone = FALSE]
BuzzEnds == outputs.tone /\ outputs' = [outputs EXCEPT !.tone = FALSE]

Output ==
  /\ at = "idle"
  /\ \/ \E seg \in 0 .. Segments \cup {SegmentsOf(pct) : pct \in Percents} : Bar(seg)
     \/ \E i \in Slots : Slot(i)
     \/ EverySlot \/ LedOff \/ Buzz \/ BuzzOff \/ BuzzEnds
  /\ UNCHANGED <<zeroVars, history, fresh>>

Next ==
  \/ Reset \/ ResetTare \/ Load \/ SaveStep \/ Saved \/ SetOffset \/ Read \/ Nothing \/ Output
  \/ \E do \in {"init", "read", "tare", "set_offset"}, on \in SUBSET Scales \ {{}} :
       Command([do |-> do, on |-> on])
  \/ \E on \in SUBSET Scales : AutoTare(on) \/ Tare(on)

Spec == Init /\ [][Next]_vars

-----------------------------------------------------------------------------
(* The zeros in use, when no command is under way, are the ones that the   *)
(* EEPROM has under its mark, and none that an answer told of is lost for  *)
(* an older one: after any resets the scale has it, a later one or, if it  *)
(* gave none when there was no mark, the first; only a reset in the middle *)
(* of a cell, under the mark, can leave it mixed.                          *)
ZeroIsKept(s) ==
  \/ offset[s] \in Nat /\ offset[s] >= told[s]
  \/ offset[s] = 0 /\ s \in unready
  \/ offset[s] = Mixed /\ s \in torn
ZerosAreKept ==
  at = "idle" /\ started => magic /\ offset = eeprom /\ \A s \in Scales : ZeroIsKept(s)

(* A scale whose readings have all been away from zero, and so may be told *)
(* to be stable there, has been read that often since its zero was set.    *)
StableIsEarned ==
  \A s \in Scales : (\A i \in 1 .. Window : history[s][i]) => fresh[s] = Window
=============================================================================
