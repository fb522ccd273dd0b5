----------------------------- MODULE Calibration -----------------------------
(***************************************************************************)
(* The calibration wizard of ui_qt/widgets/calibration_wizard.py: set the  *)
(* zero, choose a known weight, read it, look at the result and save it,   *)
(* to the driver first and then to the database.  Each reading goes on to  *)
(* the next step by a timer of half a second, during which the other       *)
(* buttons work: the timers belong to the wizard, not to the step.         *)
(*                                                                         *)
(* A raw value is a number; a scale is the difference of two of them over  *)
(* a known weight, and is kept as that pair.                               *)
(***************************************************************************)
EXTENDS Integers

CONSTANTS
  Raws,       \* what the cell may read
  Presets,    \* the known weights to choose from, not 0
  MaxSteps    \* bound: readings, choices and saves

WizardAssumption == Raws \subseteq Nat /\ Presets \subseteq Nat \ {0} /\ MaxSteps \in Nat

VARIABLES
  shown,                   \* is the wizard open?
  step,                    \* the page of _stack, 0 .. 3
  offset, known, loaded, scale,  \* _offset, _known_grams, _loaded_raw, _scale
  zeroButton, readButton, saveButton,   \* are they enabled?
  goOn,                    \* how many timers are to go to step 1, and to step 3
  again,                   \* those that enable the read and the save button again
  applied,                 \* the calibration of the driver
  stored,                  \* the row hx711_cal_<channel>
  hurried,                 \* was a step gone back from while a timer ran?
  failed,                  \* has the database refused the last calibration?
  steps                    \* counts towards MaxSteps

pageVars   == <<step, offset, known, loaded, scale>>
buttonVars == <<zeroButton, readButton, saveButton>>
timerVars  == <<goOn, again>>
savedVars  == <<applied, stored, failed>>
vars == <<shown, pageVars, buttonVars, timerVars, savedVars, hurried, steps>>

None == [offset |-> 0, scale |-> <<0, 1>>, known |-> 0, loaded |-> 0, hurried |-> FALSE]
NoScale == <<0, 1>>

Diff(a, b) == IF a < b THEN b - a ELSE a - b
Scale(zero, raw, grams) ==
  IF grams > 0 /\ raw # zero THEN <<Diff(zero, raw), grams>> ELSE NoScale

Scales == Nat \X (Presets \cup {1})
TypeOK ==
  /\ shown \in BOOLEAN /\ step \in 0 .. 3
  /\ offset \in Raws \cup {0} /\ loaded \in Raws \cup {0} /\ known \in Presets \cup {0}
  /\ scale \in Scales
  /\ zeroButton \in BOOLEAN /\ readButton \in BOOLEAN /\ saveButton \in BOOLEAN
  /\ goOn \in [{1, 3} -> 0 .. MaxSteps] /\ again \in [{"read", "save"} -> 0 .. MaxSteps]
  /\ hurried \in BOOLEAN /\ failed \in BOOLEAN
  /\ applied \in (Raws \cup {0}) \X Scales
  /\ steps \in 0 .. MaxSteps

Blank == /\ step' = 0 /\ offset' = 0 /\ known' = 0 /\ loaded' = 0 /\ scale' = NoScale
         /\ zeroButton' = TRUE /\ readButton' = TRUE /\ saveButton' = TRUE
         /\ goOn' = [s \in {1, 3} |-> 0] /\ again' = [b \in {"read", "save"} |-> 0]
         /\ hurried' = FALSE

Init == /\ shown = TRUE
        /\ step = 0 /\ offset = 0 /\ known = 0 /\ loaded = 0 /\ scale = NoScale
        /\ zeroButton = TRUE /\ readButton = TRUE /\ saveButton = TRUE
        /\ goOn = [s \in {1, 3} |-> 0] /\ again = [b \in {"read", "save"} |-> 0]
        /\ hurried = FALSE
        /\ applied = <<0, NoScale>> /\ stored = None /\ failed = FALSE
        /\ steps = 0

Counted == steps < MaxSteps /\ steps' = steps + 1

(* _go_step, with what _populate_results does to the save button.          *)
GoStep(s) ==
  /\ step' = s
  /\ zeroButton' = (zeroButton \/ s = 0)
  /\ readButton' = (readButton \/ s = 2)
  /\ saveButton' = IF s = 3 THEN scale[1] > 0 ELSE saveButton

-----------------------------------------------------------------------------
(* _do_set_zero.                                                           *)
SetZero(raw) ==
  /\ shown /\ step = 0 /\ zeroButton /\ Counted
  /\ offset' = raw /\ zeroButton' = FALSE
  /\ goOn' = [goOn EXCEPT ![1] = @ + 1]
  /\ UNCHANGED <<shown, step, known, loaded, scale, readButton, saveButton, again,
                 savedVars, hurried>>

(* _set_known_weight and _on_input_changed.                                *)
SetKnownWeight(grams) ==
  /\ shown /\ step = 1 /\ grams # known /\ Counted
  /\ known' = grams
  /\ UNCHANGED <<shown, step, offset, loaded, scale, buttonVars, timerVars, savedVars, hurried>>

ConfirmKnownWeight ==
  /\ shown /\ step = 1 /\ known > 0
  /\ GoStep(2)
  /\ UNCHANGED <<shown, offset, known, loaded, scale, timerVars, savedVars, hurried, steps>>

(* _do_read_loaded.                                                        *)
ScaleRead_OldReading(raw) == Scale(offset, loaded, known)
ScaleRead(raw) == Scale(offset, raw, known)

ReadLoaded(raw) ==
  /\ shown /\ step = 2 /\ readButton /\ Counted
  /\ loaded' = raw /\ scale' = ScaleRead(raw)
  /\ readButton' = FALSE
  /\ goOn' = [goOn EXCEPT ![3] = @ + 1]
  /\ hurried' = FALSE
  /\ UNCHANGED <<shown, step, offset, known, zeroButton, saveButton, again, savedVars>>

ReadFails ==
  /\ shown /\ step = 2 /\ readButton /\ Counted
  /\ again' = [again EXCEPT !["read"] = @ + 1]
  /\ UNCHANGED <<shown, pageVars, buttonVars, goOn, savedVars, hurried>>

(* BACK of the second and third page, and REDO of the last.                *)
Back ==
  /\ shown /\ step > 0
  /\ GoStep(IF step = 2 THEN 1 ELSE 0)
  /\ hurried' = (hurried \/ goOn[3] > 0)
  /\ UNCHANGED <<shown, offset, known, loaded, scale, timerVars, savedVars, steps>>

(* _do_save.  When the database fails the driver has changed already.      *)
Save(fails) ==
  /\ shown /\ step = 3 /\ saveButton /\ Counted
  /\ applied' = <<offset, scale>>
  /\ IF fails
       THEN /\ again' = [again EXCEPT !["save"] = @ + 1]
            /\ UNCHANGED <<stored, saveButton>>
       ELSE /\ stored' = [offset |-> offset, scale |-> scale, known |-> known,
                          loaded |-> loaded, hurried |-> hurried]
            /\ saveButton' = FALSE
            /\ UNCHANGED again
  /\ failed' = fails
  /\ UNCHANGED <<shown, pageVars, zeroButton, readButton, goOn, hurried>>

(* The timers, in whatever order they run out.                             *)
GoOn(s) ==
  /\ shown /\ goOn[s] > 0
  /\ goOn' = [goOn EXCEPT ![s] = @ - 1]
  /\ GoStep(s)
  /\ hurried' = (hurried \/ (s = 1 /\ goOn[3] > 0))
  /\ UNCHANGED <<shown, offset, known, loaded, scale, again, savedVars, steps>>

EnableAgain(b) ==
  /\ shown /\ again[b] > 0
  /\ again' = [again EXCEPT ![b] = @ - 1]
  /\ readButton' = (readButton \/ b = "read") /\ saveButton' = (saveButton \/ b = "save")
  /\ UNCHANGED <<shown, pageVars, zeroButton, goOn, savedVars, hurried, steps>>

(* reject, or accept a second after the save.                              *)
Close ==
  /\ shown /\ shown' = FALSE
  /\ UNCHANGED <<pageVars, buttonVars, timerVars, savedVars, hurried, steps>>

Open ==
  /\ ~shown /\ shown' = TRUE
  /\ Blank
  /\ UNCHANGED <<savedVars, steps>>

Next == \/ \E raw \in Raws : SetZero(raw) \/ ReadLoaded(raw)
        \/ \E grams \in Presets : SetKnownWeight(grams)
        \/ ConfirmKnownWeight \/ ReadFails \/ Back \/ Close \/ Open
        \/ \E fails \in BOOLEAN : Save(fails)
        \/ \E s \in {1, 3} : GoOn(s)
        \/ \E b \in {"read", "save"} : EnableAgain(b)

Spec == Init /\ [][Next]_vars

-----------------------------------------------------------------------------
(* The result that is shown, and the one that is stored, are of one zero,  *)
(* one known weight and one reading, unless a step was gone back from in   *)
(* the half second after READ, by the crew or by a timer left from SET     *)
(* ZERO; and what is stored is what the driver uses, unless a save has     *)
(* failed since.                                                           *)
CalibrationFits ==
  /\ step = 3 /\ ~hurried => scale = Scale(offset, loaded, known)
  /\ stored # None /\ ~stored.hurried =>
       stored.scale = Scale(stored.offset, stored.loaded, stored.known)
  /\ stored # None /\ ~failed => applied = <<stored.offset, stored.scale>>
=============================================================================
