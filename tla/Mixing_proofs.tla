---------------------------- MODULE Mixing_proofs ----------------------------
(***************************************************************************)
(* Proofs about a mixing session with the Qt screen, for any recipe, any   *)
(* tolerance, any amounts and any number of sessions.                      *)
(***************************************************************************)
EXTENDS Mixing, SequenceTheorems, TLAPS

After == [base |-> "pick_hardener", hardener |-> "confirm_mix"]
total == inside["base"] + inside["hardener"]
noTare == \A c \in Cans : tares[c] = 0

(* What the pouring page can be about.  The crew is asked for something;   *)
(* or a can is to be poured and the scale is being tared for it, has been, *)
(* or is to be tared again; or the hardware thread has noticed that a can  *)
(* is back, and its signal is in the queue.                                *)
Asking == phase = state /\ state \in Pours /\ mail = <<>> /\ retry = "none" /\ noTare
Taring(c) ==
  /\ phase = Weigh[c] /\ state = Weigh[c] /\ ~button /\ mail = <<>> /\ retry = "none"
  /\ \A d \in Cans : tares[d] = IF d = c THEN 1 ELSE 0
Tared(c) ==
  /\ phase = Weigh[c] /\ state = Weigh[c] /\ ~button /\ retry = "none" /\ noTare
  /\ \/ mail = <<[kind |-> "tared", of |-> c]>> /\ offset = total
     \/ mail = <<[kind |-> "not_tared", of |-> c]>>
Retrying(c) ==
  phase = Weigh[c] /\ state = Weigh[c] /\ mail = <<>> /\ retry = c /\ noTare
Advanced(c) ==
  /\ phase = Return[c] /\ state = After[c] /\ retry = "none" /\ noTare
  /\ mail = <<[kind |-> "state", of |-> After[c]]>>

Situation == Asking \/ \E c \in Cans : Taring(c) \/ Tared(c) \/ Retrying(c) \/ Advanced(c)

(* The container is empty until the base is poured, which only happens     *)
(* once the scale shows 0 for it.                                          *)
Contents ==
  /\ state \in {"pick_base", "weigh_base"} => inside["hardener"] = 0
  /\ state = "pick_base" \/ (state = "weigh_base" /\ ~Asking) => inside["base"] = 0
  /\ state = "weigh_base" /\ Asking => offset = 0
  /\ state \in {"return_base", "pick_hardener", "weigh_hardener"}
       => baseActual = inside["base"]

(* The amount shown is that of the can the session is at, and the weight   *)
(* is shown once its barcode has been scanned.                             *)
Guidance ==
  /\ target = IF state \in {"weigh_hardener", "return_hardener", "confirm_mix"}
                THEN "hardener" ELSE "base"
  /\ state \in {"pick_base", "weigh_base", "return_base"} => "hardener" \notin verified
  /\ \A c \in Cans : state \in {Pick[c], Weigh[c]} /\ c \in verified => guide

Pouring == page = "pour" /\ ~stale => Situation /\ Contents /\ Guidance
EmptyAtFirst == page = "recipe" => total = 0

IInv == TypeOK /\ EmptyAtFirst /\ Pouring /\ LightsAreTrue

-----------------------------------------------------------------------------
(* A queue of one signal.                                                  *)
LEMMA OneSignal ==
  ASSUME NEW x
  PROVE  /\ <<x>> # <<>> /\ Head(<<x>>) = x /\ Tail(<<x>>) = <<>>
         /\ Append(<<>>, x) = <<x>>
OBVIOUS

LEMMA SignalQueue ==
  ASSUME TypeOK
  PROVE  /\ mail # <<>> => Head(mail) \in Signal /\ Tail(mail) \in Seq(Signal)
         /\ \A x \in Signal : Append(mail, x) \in Seq(Signal)
BY DEF TypeOK

LEMMA CansAre == /\ Cans = {"base", "hardener"}
                 /\ \A c \in Cans : /\ Pick[c] \in Pours /\ Weigh[c] \in Pours
                                    /\ Return[c] \in Pours
                 /\ Pours \subseteq States
                 /\ "confirm_mix" \in States /\ "idle" \in States
BY DEF Cans, Pick, Weigh, Return, Picks, Weighs, Returns, Pours, States

-----------------------------------------------------------------------------
(* Types.                                                                  *)
screenOK == /\ page \in {"away", "select", "recipe", "pour", "results", "thinner", "pot_life",
                         "complete"}
            /\ phase \in Pours /\ button \in BOOLEAN
            /\ guide \in BOOLEAN /\ target \in Cans /\ verified \subseteq Cans
            /\ tares \in [Cans -> Nat]

LEMMA ShowType ==
  ASSUME TypeOK, NEW s \in States, Show(s)
  PROVE  screenOK'
<1>1. phase' \in Pours /\ button' \in BOOLEAN
  BY DEF Show, TypeOK, ManualFallback
<1>2. tares' \in [Cans -> Nat]
  BY DEF Show, TypeOK
<1>3. page' \in {"away", "select", "recipe", "pour", "results", "thinner", "pot_life", "complete"}
  BY DEF Show, TypeOK
<1>4. guide' \in BOOLEAN /\ target' \in Cans /\ verified' \subseteq Cans
  BY DEF Show, ShowGuide, TypeOK, Cans
<1>5. QED
  BY <1>1, <1>2, <1>3, <1>4 DEF screenOK

engineOK == /\ state \in States
            /\ baseActual \in Int /\ hardenerActual \in Int /\ inSpec \in BOOLEAN
            /\ lit \subseteq Cans

LEMMA ReadingType == TypeOK /\ MixingAssumption => reading \in Int /\ total \in 0 .. 2 * MaxPour
<1> SUFFICES ASSUME TypeOK, MixingAssumption PROVE reading \in Int /\ total \in 0 .. 2 * MaxPour
  OBVIOUS
<1>1. inside["base"] \in 0 .. MaxPour /\ inside["hardener"] \in 0 .. MaxPour
  BY DEF TypeOK, Cans
<1>2. offset \in Int /\ MaxPour \in Nat
  BY DEF TypeOK, MixingAssumption
<1>3. QED
  BY <1>1, <1>2 DEF reading, total

LEMMA WithinType ==
  ASSUME MixingAssumption, NEW b \in Int, NEW h \in Int
  PROVE  WithinTolerance(b, h) \in BOOLEAN
<1> DEFINE d == b * RatioHardener - h * RatioBase
           x == 100 * Abs(d)
           y == Tolerance * h * RatioBase
<1>1. RatioHardener \in Int /\ RatioBase \in Int /\ Tolerance \in Int
  BY DEF MixingAssumption
<1>2. b * RatioHardener \in Int /\ h * RatioBase \in Int
  BY <1>1
<1>3. d \in Int
  BY <1>2
<1>4. x \in Int
  <2> HIDE DEF d
  <2>1. QED
    BY <1>3 DEF Abs
<1>5. y \in Int
  <2>1. Tolerance * h \in Int
    BY <1>1
  <2>2. QED
    BY <1>1, <2>1
<1>6. WithinTolerance(b, h) = IF h > 0 THEN x <= y ELSE Tolerance >= 100
  BY DEF WithinTolerance
<1> HIDE DEF x, y
<1>7. (x <= y) \in BOOLEAN
  BY <1>4, <1>5
<1>8. (Tolerance >= 100) \in BOOLEAN
  BY <1>1
<1>9. QED
  BY <1>6, <1>7, <1>8

LEMMA ConfirmType ==
  ASSUME TypeOK, MixingAssumption, Confirm
  PROVE  engineOK'
<1>1. ASSUME NEW c \in Cans, ConfirmPicked(c) PROVE engineOK'
  BY <1>1, CansAre DEF ConfirmPicked, engineOK, TypeOK
<1>2. ASSUME NEW c \in Cans, ConfirmReturned(c) PROVE engineOK'
  BY <1>2, CansAre DEF ConfirmReturned, engineOK, TypeOK, States, Pours, Picks, Pick
<1>3. CASE ConfirmBaseWeighed
  BY <1>3, ReadingType, CansAre DEF ConfirmBaseWeighed, engineOK, TypeOK, Return
<1>4. CASE ConfirmHardenerWeighed
  <2>1. reading - baseActual \in Int
    BY ReadingType DEF TypeOK
  <2>2. WithinTolerance(baseActual, reading - baseActual) \in BOOLEAN
    BY <2>1, WithinType DEF TypeOK
  <2>3. inSpec' \in BOOLEAN
    BY <1>4, <2>2 DEF ConfirmHardenerWeighed
  <2>4. QED
    BY <1>4, <2>1, <2>3, CansAre DEF ConfirmHardenerWeighed, engineOK, TypeOK, Return
<1>5. QED
  BY <1>1, <1>2, <1>3, <1>4 DEF Confirm

LEMMA StartType ==
  ASSUME TypeOK, MixingAssumption, NEW kind \in {"chosen", "handed"}, SessionStarts(kind)
  PROVE  /\ sessions' \in 0 .. MaxSessions
         /\ origin' \in {"chosen", "handed"} /\ loaded' \in {"chosen", "handed", "another"}
         /\ baseActual' \in Int /\ hardenerActual' \in Int /\ inSpec' \in BOOLEAN
         /\ inside' \in [Cans -> 0 .. MaxPour]
<1>1. MaxPour \in Nat /\ MaxSessions \in Nat
  BY DEF MixingAssumption
<1>2. sessions' \in 0 .. MaxSessions
  BY <1>1 DEF SessionStarts, TypeOK
<1>3. inside' \in [Cans -> 0 .. MaxPour]
  BY <1>1 DEF SessionStarts
<1>4. CASE state = "idle"
  <2>1. /\ origin' = kind /\ loaded' = kind
        /\ baseActual' = 0 /\ hardenerActual' = 0
    BY <1>4 DEF SessionStarts
  <2>2. inSpec' \in BOOLEAN
    BY <1>4 DEF SessionStarts
  <2>3. QED
    BY <1>2, <1>3, <2>1, <2>2
<1>5. CASE state # "idle"
  <2>1. loaded' \in {"chosen", "another"}
    BY <1>5 DEF SessionStarts
  <2>2. UNCHANGED <<origin, baseActual, hardenerActual, inSpec>>
    BY <1>5 DEF SessionStarts
  <2>3. QED
    BY <1>2, <1>3, <2>1, <2>2 DEF TypeOK
<1>6. QED
  BY <1>4, <1>5

LEMMA PickBaseType ==
  ASSUME TypeOK, NEW known \in BOOLEAN, PickBase(known)
  PROVE  /\ page' = "pour" /\ phase' \in Pours /\ button' \in BOOLEAN
         /\ state' \in States /\ lit' \subseteq Cans
         /\ target' \in Cans /\ verified' \subseteq Cans /\ stale' \in BOOLEAN
<1>1. "pick_base" \in Pours /\ "base" \in Cans
  BY CansAre DEF Pick
<1>2. QED
  BY <1>1, CansAre DEF PickBase, TypeOK, ManualFallback

LEMMA UiType ==
  ASSUME TypeOK, MixingAssumption, Ui
  PROVE  TypeOK'
<1> USE DEF startVars, guideVars, screenVars, engineVars, shelfVars, scaleVars
<1>1. CASE Enter
  BY <1>1 DEF TypeOK, Enter
<1>2. CASE StartSession
  <2>1. state' \in States
    BY <1>2 DEF StartSession, TypeOK, States
  <2>2. QED
    BY <1>2, <2>1, StartType DEF TypeOK, StartSession, SessionStarts
<1>3. CASE StartFromPaintNow
  BY <1>3, StartType, PickBaseType DEF TypeOK, StartFromPaintNow, SessionStarts
<1>4. CASE AdvanceToPickBase
  BY <1>4, PickBaseType DEF TypeOK, AdvanceToPickBase
<1>5. CASE RetryTare
  <2>1. retry \in Cans
    BY <1>5 DEF TypeOK, RetryTare
  <2>2. tares' \in [Cans -> Nat]
    BY <1>5, <2>1 DEF TypeOK, RetryTare
  <2>3. QED
    BY <1>5, <2>2 DEF TypeOK, RetryTare
<1>6. CASE ConfirmPour
  <2>1. engineOK'
    BY <1>6, ConfirmType DEF ConfirmPour
  <2>2. screenOK'
    BY <1>6, <2>1, ShowType DEF ConfirmPour, engineOK
  <2>3. QED
    BY <1>6, <2>1, <2>2 DEF TypeOK, ConfirmPour, engineOK, screenOK
<1>7. CASE ConfirmInVain
  BY <1>7 DEF TypeOK, ConfirmInVain
<1>8. CASE ConfirmMix
  BY <1>8 DEF TypeOK, ConfirmMix, NextPage, States
<1>9. CASE StartPotLife
  BY <1>9 DEF TypeOK, StartPotLife, NextPage, States
<1>10. CASE CompleteSession
  BY <1>10 DEF TypeOK, CompleteSession, NextPage, States
<1>11. CASE Back
  BY <1>11 DEF TypeOK, Back, Leave
<1>12. CASE Abort
  BY <1>12 DEF TypeOK, Abort, Leave, States
<1>13. CASE HandleState
  <2>1. Head(mail).of \in States /\ mail' \in Seq(Signal)
    BY <1>13, SignalQueue DEF HandleState, Signal, Cans
  <2>2. screenOK'
    BY <1>13, <2>1, ShowType DEF HandleState
  <2>3. QED
    BY <1>13, <2>1, <2>2 DEF TypeOK, HandleState, screenOK
<1>14. CASE HandleTare
  <2> DEFINE c == Head(mail).of
  <2>1. c \in Cans /\ mail' \in Seq(Signal)
    BY <1>14, SignalQueue DEF HandleTare, Signal
  <2>2. /\ button' \in BOOLEAN /\ retry' \in Cans \cup {"none"}
        /\ phase' \in Pours /\ target' \in Cans /\ guide' \in BOOLEAN
    BY <1>14, <2>1, CansAre DEF TypeOK, HandleTare, Guided
  <2>3. QED
    BY <1>14, <2>1, <2>2 DEF TypeOK, HandleTare
<1>15. QED
  BY <1>1, <1>2, <1>3, <1>4, <1>5, <1>6, <1>7, <1>8, <1>9, <1>10, <1>11, <1>12, <1>13, <1>14
     DEF Ui, HandleSignal

LEMMA OtherType ==
  ASSUME TypeOK, MixingAssumption, NEW c \in Cans,
         \/ RfidHealth \/ TareDone(c) \/ TareFailed(c) \/ Notice(c)
         \/ TakeCan(c) \/ ReturnCan(c) \/ Pour(c) \/ ScanBarcode(c) \/ UNCHANGED vars
  PROVE  TypeOK'
<1> USE DEF startVars, guideVars, screenVars, engineVars, shelfVars, scaleVars
<1>1. CASE RfidHealth
  BY <1>1 DEF TypeOK, RfidHealth
<1>2. CASE TareDone(c)
  <2>1. [kind |-> "tared", of |-> c] \in Signal
    BY DEF Signal
  <2>2. mail' \in Seq(Signal) /\ offset' \in 0 .. 2 * MaxPour
    BY <1>2, <2>1, SignalQueue, ReadingType DEF TareDone, total
  <2>3. tares' \in [Cans -> Nat]
    <3>1. tares[c] - 1 \in Nat
      BY <1>2 DEF TareDone, TypeOK
    <3>2. QED
      BY <1>2, <3>1 DEF TareDone, TypeOK
  <2>4. QED
    BY <1>2, <2>2, <2>3 DEF TypeOK, TareDone
<1>3. CASE TareFailed(c)
  <2>1. [kind |-> "not_tared", of |-> c] \in Signal
    BY DEF Signal
  <2>2. mail' \in Seq(Signal) /\ offset' \in 0 .. 2 * MaxPour
    BY <1>3, <2>1, SignalQueue, ReadingType DEF TareFailed, total, TypeOK
  <2>3. tares' \in [Cans -> Nat]
    <3>1. tares[c] - 1 \in Nat
      BY <1>3 DEF TareFailed, TypeOK
    <3>2. QED
      BY <1>3, <3>1 DEF TareFailed, TypeOK
  <2>4. QED
    BY <1>3, <2>2, <2>3 DEF TypeOK, TareFailed
<1>4. CASE NoticeRemoval(c)
  BY <1>4 DEF TypeOK, NoticeRemoval
<1>5. CASE NoticeCan(c)
  <2>1. CASE c \in removed /\ state = Return[c]
    <3>1. ConfirmReturned(c) /\ NotifyFromHw
      BY <1>5, <2>1 DEF NoticeCan
    <3>2. engineOK'
      BY <3>1, CansAre DEF ConfirmReturned, engineOK, TypeOK, States, Pours, Picks, Pick
    <3>3. [kind |-> "state", of |-> state'] \in Signal
      BY <3>2 DEF engineOK, Signal
    <3>4. mail' \in Seq(Signal)
      BY <3>1, <3>3, SignalQueue DEF NotifyFromHw, TypeOK
    <3>5. QED
      BY <1>5, <3>2, <3>4 DEF TypeOK, NoticeCan, engineOK
  <2>2. CASE ~ (c \in removed /\ state = Return[c])
    BY <1>5, <2>2 DEF TypeOK, NoticeCan
  <2>3. QED
    BY <2>1, <2>2
<1>6. CASE TakeCan(c)
  BY <1>6 DEF TypeOK, TakeCan
<1>7. CASE ReturnCan(c)
  BY <1>7 DEF TypeOK, ReturnCan
<1>8. CASE Pour(c)
  <2>1. inside' \in [Cans -> 0 .. MaxPour]
    BY <1>8 DEF TypeOK, Pour, MixingAssumption
  <2>2. QED
    BY <1>8, <2>1 DEF TypeOK, Pour
<1>9. CASE ScanBarcode(c)
  BY <1>9 DEF TypeOK, ScanBarcode, Verified
<1>10. CASE UNCHANGED vars
  BY <1>10 DEF TypeOK, vars
<1>11. QED
  BY <1>1, <1>2, <1>3, <1>4, <1>5, <1>6, <1>7, <1>8, <1>9, <1>10 DEF Notice

LEMMA NextType == ASSUME TypeOK, MixingAssumption, [Next]_vars PROVE TypeOK'
<1>1. Cans # {}
  BY DEF Cans
<1>2. QED
  BY <1>1, UiType, OtherType DEF Next

-----------------------------------------------------------------------------
(* Lights.                                                                 *)
LEMMA NextLights == ASSUME TypeOK, LightsAreTrue, [Next]_vars PROVE LightsAreTrue'
<1> USE DEF startVars, guideVars, screenVars, engineVars, shelfVars, scaleVars
<1>1. CASE Ui
  <2>1. UNCHANGED removed
    BY <1>1 DEF Ui, Enter, StartSession, StartFromPaintNow, AdvanceToPickBase, RetryTare,
                ConfirmPour, ConfirmInVain, ConfirmMix, StartPotLife, CompleteSession, NextPage,
                Back, Abort, Leave, HandleSignal, HandleState, HandleTare, SessionStarts
  <2>2. lit' = lit \/ lit' = {}
    BY <1>1 DEF Ui, Enter, StartSession, StartFromPaintNow, AdvanceToPickBase, PickBase,
                RetryTare, ConfirmPour, Confirm, ConfirmPicked, ConfirmReturned,
                ConfirmBaseWeighed, ConfirmHardenerWeighed, ConfirmInVain, ConfirmMix,
                StartPotLife, CompleteSession, NextPage, Back, Abort, Leave, HandleSignal,
                HandleState, HandleTare
  <2>3. QED
    BY <2>1, <2>2 DEF LightsAreTrue
<1>2. CASE RfidHealth \/ UNCHANGED vars
  BY <1>2 DEF LightsAreTrue, RfidHealth, vars
<1>3. ASSUME NEW c \in Cans, TareDone(c) \/ TareFailed(c) \/ TakeCan(c) \/ ReturnCan(c)
                             \/ Pour(c) \/ ScanBarcode(c)
      PROVE  LightsAreTrue'
  BY <1>3 DEF LightsAreTrue, TareDone, TareFailed, TakeCan, ReturnCan, Pour, ScanBarcode
<1>4. ASSUME NEW c \in Cans, NoticeRemoval(c) PROVE LightsAreTrue'
  BY <1>4 DEF LightsAreTrue, NoticeRemoval
<1>5. ASSUME NEW c \in Cans, NoticeCan(c) PROVE LightsAreTrue'
  <2>1. lit' = {} \/ lit' = lit \ {c}
    BY <1>5 DEF NoticeCan, ConfirmReturned
  <2>2. removed' = removed \ {c}
    BY <1>5 DEF NoticeCan
  <2>3. QED
    BY <2>1, <2>2 DEF LightsAreTrue
<1>6. QED
  BY <1>1, <1>2, <1>3, <1>4, <1>5 DEF Next, Notice

-----------------------------------------------------------------------------
(* The pouring page.                                                       *)
pourVars == <<page, stale, phase, state, mail, retry, tares, button, inside, offset, baseActual,
              guideVars>>

LEMMA PouringKept ==
  ASSUME Pouring, UNCHANGED pourVars
  PROVE  Pouring'
BY DEF pourVars, guideVars, Pouring, Situation, Asking, Taring, Tared, Retrying, Advanced,
       Contents, Guidance, noTare, total

LEMMA Elsewhere == ASSUME page' # "pour" \/ stale' PROVE Pouring'
BY DEF Pouring

LEMMA PressedPour == ASSUME mayPress PROVE page = "pour" /\ button
BY DEF mayPress, Buttons, SelectPage, RecipePage, PourPage, ResultsPage, ThinnerPage,
       PotLifePage, CompletePage

(* The states are told apart.                                              *)
LEMMA Distinct ==
  /\ \A c \in Cans : /\ Pick[c] \in {"pick_base", "pick_hardener"}
                     /\ Weigh[c] \in {"weigh_base", "weigh_hardener"}
                     /\ Return[c] \in {"return_base", "return_hardener"}
                     /\ After[c] \in {"pick_hardener", "confirm_mix"}
  /\ \A c, d \in Cans : /\ Pick[c] = Pick[d] => c = d
                        /\ Weigh[c] = Weigh[d] => c = d
                        /\ Return[c] = Return[d] => c = d
                        /\ After[c] = After[d] => c = d
  /\ Pick["base"] = "pick_base" /\ Pick["hardener"] = "pick_hardener"
  /\ Weigh["base"] = "weigh_base" /\ Weigh["hardener"] = "weigh_hardener"
  /\ Return["base"] = "return_base" /\ Return["hardener"] = "return_hardener"
  /\ After["base"] = "pick_hardener" /\ After["hardener"] = "confirm_mix"
  /\ Pours = {"pick_base", "pick_hardener", "weigh_base", "weigh_hardener", "return_base",
              "return_hardener"}
  /\ Picks = {"pick_base", "pick_hardener"} /\ Weighs = {"weigh_base", "weigh_hardener"}
  /\ Returns = {"return_base", "return_hardener"}
BY DEF Cans, Pick, Weigh, Return, After, Pours, Picks, Weighs, Returns

(* The base is asked for.                                                  *)
LEMMA PickBasePouring ==
  ASSUME TypeOK, NEW known \in BOOLEAN, PickBase(known), total' = 0,
         inside' \in [Cans -> 0 .. MaxPour],
         UNCHANGED <<mail, retry, tares>>
  PROVE  Pouring'
<1> SUFFICES ASSUME ~stale' PROVE Situation' /\ Contents' /\ Guidance'
  BY DEF Pouring
<1>1. known /\ mail = <<>> /\ retry = "none" /\ \A c \in Cans : ~ (tares[c] > 0)
  BY DEF PickBase
<1>2. noTare
  BY <1>1 DEF noTare, TypeOK
<1>3. phase' = "pick_base" /\ state' = "pick_base" /\ target' = "base" /\ verified' = {}
  BY <1>1 DEF PickBase
<1>4. Situation'
  BY <1>1, <1>2, <1>3, Distinct DEF Situation, Asking, noTare
<1>5. Contents'
  <2>1. inside'["base"] \in Nat /\ inside'["hardener"] \in Nat
    BY DEF Cans
  <2>2. inside'["base"] = 0 /\ inside'["hardener"] = 0
    BY <2>1 DEF total
  <2>3. QED
    BY <1>3, <2>2 DEF Contents
<1>6. Guidance'
  BY <1>3 DEF Guidance
<1>7. QED
  BY <1>4, <1>5, <1>6

LEMMA SessionStartsEmpty ==
  ASSUME NEW kind, SessionStarts(kind)
  PROVE  total' = 0 /\ UNCHANGED <<mail, retry, tares>>
BY DEF SessionStarts, total, Cans

LEMMA RetryTarePouring == ASSUME TypeOK, Pouring, RetryTare PROVE Pouring'
<1> SUFFICES ASSUME ~stale' PROVE Situation' /\ Contents' /\ Guidance'
  BY DEF Pouring
<1>1. page = "pour" /\ ~stale /\ retry # "none"
  BY PressedPour DEF RetryTare
<1>2. PICK c \in Cans : Retrying(c)
  BY <1>1 DEF Pouring, Situation, Asking, Taring, Tared, Advanced
<1>3. retry = c
  BY <1>2 DEF Retrying
<1>4. \A d \in Cans : tares'[d] = IF d = c THEN 1 ELSE 0
  BY <1>2, <1>3 DEF RetryTare, Retrying, noTare, TypeOK
<1>5. Taring(c)'
  BY <1>2, <1>4 DEF RetryTare, Retrying, Taring, engineVars
<1>6. ~ Asking /\ ~ Asking'
  BY <1>2, <1>3, <1>4 DEF Asking, Retrying, noTare, Cans
<1>7. Contents'
  BY <1>1, <1>6 DEF RetryTare, Pouring, Contents, engineVars, scaleVars
<1>8. Guidance'
  BY <1>1 DEF RetryTare, Pouring, Guidance, engineVars, guideVars
<1>9. QED
  BY <1>5, <1>7, <1>8 DEF Situation

(* Confirmed is what the screen asks for, and what follows is asked next;  *)
(* a can that was picked makes the scale be tared first.                   *)
LEMMA ConfirmPourPouring == ASSUME TypeOK, MixingAssumption, Pouring, ConfirmPour PROVE Pouring'
<1> SUFFICES ASSUME page' = "pour", ~stale' PROVE Situation' /\ Contents' /\ Guidance'
  BY DEF Pouring
<1>1. page = "pour" /\ button /\ ~stale /\ retry = "none" /\ phase = state
  BY PressedPour DEF ConfirmPour
<1>2. Asking
  <2>1. \A c \in Cans : ~ Advanced(c)
    BY <1>1, Distinct DEF Advanced, Cans
  <2>2. QED
    BY <1>1, <2>1 DEF Pouring, Situation, Taring, Tared, Retrying, Cans
<1>3. Contents /\ Guidance
  BY <1>1 DEF Pouring
<1>4. /\ UNCHANGED <<mail, retry, inside, offset>>
      /\ Show(state') /\ Confirm
  BY DEF ConfirmPour, scaleVars
<1>5. ASSUME NEW c \in Cans, phase = Pick[c], ConfirmPicked(c)
      PROVE  Situation' /\ Contents' /\ Guidance'
  <2>1. state' = Weigh[c] /\ UNCHANGED baseActual
    BY <1>5 DEF ConfirmPicked
  <2>2. phase' = Weigh[c] /\ ~button'
    BY <1>4, <2>1, Distinct DEF Show
  <2>3. \A d \in Cans : tares'[d] = IF d = c THEN 1 ELSE 0
    BY <1>2, <1>4, <2>1, Distinct DEF Show, Asking, noTare
  <2>4. Taring(c)'
    BY <1>2, <1>4, <2>1, <2>2, <2>3 DEF Taring, Asking
  <2>5. ~ Asking'
    BY <2>3 DEF Asking, noTare
  <2>6. Contents'
    BY <1>3, <1>4, <1>5, <1>2, <2>1, <2>5, Distinct DEF Contents, Cans, Asking
  <2>7. /\ guide' = guide /\ verified' = verified
        /\ target' = IF c = "hardener" THEN "hardener" ELSE target
    <3>1. ShowGuide(state') /\ Weigh[c] \notin Returns /\ Weigh[c] # "idle"
      BY <1>4, <2>1, Distinct DEF Show
    <3>2. Weigh[c] = "weigh_hardener" <=> c = "hardener"
      BY DEF Cans, Weigh
    <3>3. guide' = guide /\ verified' = verified
      BY <2>1, <3>1 DEF ShowGuide, TypeOK
    <3>4. QED
      BY <2>1, <3>1, <3>2, <3>3 DEF ShowGuide
  <2>8. Guidance'
    BY <1>2, <1>3, <1>5, <2>1, <2>7, Distinct DEF Guidance, Asking, Cans
  <2>9. QED
    BY <2>4, <2>6, <2>8 DEF Situation
<1>6. ASSUME NEW c \in Cans, phase = Return[c], ConfirmReturned(c)
      PROVE  Situation' /\ Contents' /\ Guidance'
  <2>1. c = "base"
    <3>1. CASE c = "hardener"
      <4>1. state' = "confirm_mix"
        BY <1>6, <3>1 DEF ConfirmReturned
      <4>2. page' = "results"
        BY <1>1, <1>4, <4>1 DEF Show
      <4>3. QED
        BY <4>2
    <3>2. QED
      BY <3>1 DEF Cans
  <2>2. state' = "pick_hardener" /\ UNCHANGED baseActual
    BY <1>6, <2>1 DEF ConfirmReturned
  <2>3. phase' = "pick_hardener"
    BY <1>4, <2>2, Distinct DEF Show
  <2>4. noTare'
    BY <1>2, <1>4, <2>2, Distinct DEF Show, Asking, noTare
  <2>5. Asking'
    BY <1>2, <1>4, <2>2, <2>3, <2>4, Distinct DEF Asking
  <2>6. Contents'
    BY <1>2, <1>3, <1>4, <1>6, <2>1, <2>2, Distinct DEF Contents, Asking
  <2>7. guide' = guide /\ verified' = verified /\ target' = target
    BY <1>4, <2>2, Distinct DEF Show, ShowGuide, TypeOK
  <2>8. state = "return_base"
    BY <1>1, <1>6, <2>1, Distinct
  <2>9. \A d \in Cans : d \in verified => d = "base"
    BY <1>3, <2>8 DEF Guidance, Cans
  <2>10. Guidance'
    BY <1>3, <2>2, <2>7, <2>8, <2>9, Distinct DEF Guidance, Cans
  <2>11. QED
    BY <2>5, <2>6, <2>10 DEF Situation
<1>7. CASE phase = "weigh_base" /\ ConfirmBaseWeighed
  <2>1. state = "weigh_base" /\ state' = "return_base" /\ baseActual' = reading
    BY <1>7 DEF ConfirmBaseWeighed
  <2>2. phase' = "return_base"
    BY <1>4, <2>1, Distinct DEF Show
  <2>3. noTare'
    BY <1>2, <1>4, <2>1, Distinct DEF Show, Asking, noTare
  <2>4. Asking'
    BY <1>2, <1>4, <2>1, <2>2, <2>3, Distinct DEF Asking
  <2>5. baseActual' = inside["base"]
    <3>1. inside["hardener"] = 0 /\ offset = 0
      BY <1>2, <1>3, <2>1 DEF Contents
    <3>2. inside["base"] \in Int
      BY DEF TypeOK, Cans
    <3>3. QED
      BY <2>1, <3>1, <3>2 DEF reading
  <2>6. Contents'
    BY <1>4, <2>1, <2>5 DEF Contents
  <2>7. verified' = verified /\ target' = target
    BY <1>4, <2>1, Distinct DEF Show, ShowGuide
  <2>8. Guidance'
    BY <1>3, <2>1, <2>7, Distinct DEF Guidance, Cans
  <2>9. QED
    BY <2>4, <2>6, <2>8 DEF Situation
<1>8. CASE phase = "weigh_hardener" /\ ConfirmHardenerWeighed
  <2>1. state = "weigh_hardener" /\ state' = "return_hardener"
    BY <1>8 DEF ConfirmHardenerWeighed
  <2>2. phase' = "return_hardener"
    BY <1>4, <2>1, Distinct DEF Show
  <2>3. noTare'
    BY <1>2, <1>4, <2>1, Distinct DEF Show, Asking, noTare
  <2>4. Asking'
    BY <1>2, <1>4, <2>1, <2>2, <2>3, Distinct DEF Asking
  <2>5. Contents'
    BY <2>1 DEF Contents
  <2>6. verified' = verified /\ target' = target
    BY <1>4, <2>1, Distinct DEF Show, ShowGuide
  <2>7. Guidance'
    BY <1>3, <2>1, <2>6, Distinct DEF Guidance, Cans
  <2>8. QED
    BY <2>4, <2>5, <2>7 DEF Situation
<1>9. QED
  BY <1>4, <1>5, <1>6, <1>7, <1>8 DEF Confirm

(* A press that the engine ignores.                                        *)
LEMMA ConfirmInVainPouring == ASSUME TypeOK, Pouring, ConfirmInVain PROVE Pouring'
<1> SUFFICES ASSUME ~stale' PROVE Pouring'
  BY DEF Pouring
<1>1. page = "pour" /\ ~stale /\ retry = "none" /\ phase # state
  BY PressedPour DEF ConfirmInVain
<1>2. PICK c \in Cans : Advanced(c)
  BY <1>1, Distinct DEF Pouring, Situation, Asking, Taring, Tared, Retrying
<1>3. phase \notin Weighs
  BY <1>2, Distinct DEF Advanced
<1>4. guide' = guide
  BY <1>3 DEF ConfirmInVain, TypeOK
<1>5. QED
  BY <1>4, PouringKept DEF pourVars, ConfirmInVain, guideVars, engineVars, scaleVars

LEMMA HandleStatePouring == ASSUME TypeOK, Pouring, HandleState PROVE Pouring'
<1> SUFFICES ASSUME page' = "pour", ~stale' PROVE Situation' /\ Contents' /\ Guidance'
  BY DEF Pouring
<1>1. page = "pour" /\ ~stale
  BY DEF HandleState, Show
<1>2. mail # <<>> /\ Head(mail).kind = "state" /\ mail' = Tail(mail)
  BY DEF HandleState
<1>3. PICK c \in Cans : Advanced(c)
  <2>1. \A c \in Cans : ~ Tared(c)
    <3>1. SUFFICES ASSUME NEW c \in Cans, Tared(c) PROVE FALSE
      OBVIOUS
    <3>2. Head(mail).kind \in {"tared", "not_tared"}
      BY <3>1, OneSignal DEF Tared
    <3>3. QED
      BY <1>2, <3>2
  <2>2. QED
    BY <1>1, <1>2, <2>1 DEF Pouring, Situation, Asking, Taring, Retrying
<1>4. Head(mail).of = After[c] /\ mail' = <<>>
  BY <1>2, <1>3, OneSignal DEF Advanced
<1>5. Show(After[c]) /\ UNCHANGED <<engineVars, retry, scaleVars>>
  BY <1>4 DEF HandleState
<1>6. c = "base"
  <2>1. CASE c = "hardener"
    <3>1. After[c] = "confirm_mix" /\ state' = "confirm_mix"
      BY <1>3, <1>5, <2>1, Distinct DEF Advanced, engineVars
    <3>2. page' = "results"
      BY <1>1, <1>5, <3>1 DEF Show
    <3>3. QED
      BY <3>2
  <2>2. QED
    BY <2>1 DEF Cans
<1>7. After[c] = "pick_hardener" /\ state = "pick_hardener" /\ state' = "pick_hardener"
  BY <1>3, <1>5, <1>6, Distinct DEF Advanced, engineVars
<1>8. phase' = "pick_hardener" /\ noTare'
  BY <1>3, <1>5, <1>7, Distinct DEF Show, Advanced, noTare
<1>9. Asking'
  BY <1>3, <1>4, <1>5, <1>7, <1>8, Distinct DEF Asking, Advanced
<1>10. Contents'
  BY <1>1, <1>5, <1>7 DEF Pouring, Contents, engineVars, scaleVars
<1>11. guide' = guide /\ verified' = verified /\ target' = target
  BY <1>5, <1>7, Distinct DEF Show, ShowGuide, TypeOK
<1>12. Guidance'
  BY <1>1, <1>7, <1>11 DEF Pouring, Guidance
<1>13. QED
  BY <1>9, <1>10, <1>12 DEF Situation

(* The scale has been tared, and the can can be poured; or it is to be     *)
(* tried again.                                                            *)
LEMMA HandleTarePouring == ASSUME TypeOK, Pouring, HandleTare PROVE Pouring'
<1> SUFFICES ASSUME page' = "pour", ~stale' PROVE Situation' /\ Contents' /\ Guidance'
  BY DEF Pouring
<1>1. /\ page = "pour" /\ ~stale
      /\ UNCHANGED <<verified, engineVars, tares, scaleVars>>
  BY DEF HandleTare
<1>2. mail # <<>> /\ Head(mail).kind # "state" /\ mail' = Tail(mail)
  BY DEF HandleTare
<1>3. PICK c \in Cans : Tared(c)
  <2>1. \A c \in Cans : ~ Advanced(c)
    <3>1. SUFFICES ASSUME NEW c \in Cans, Advanced(c) PROVE FALSE
      OBVIOUS
    <3>2. Head(mail).kind = "state"
      BY <3>1, OneSignal DEF Advanced
    <3>3. QED
      BY <1>2, <3>2
  <2>2. QED
    BY <1>1, <1>2, <2>1 DEF Pouring, Situation, Asking, Taring, Retrying
<1>4. Contents /\ Guidance /\ state = Weigh[c] /\ phase = Weigh[c] /\ state' = state
  BY <1>1, <1>3 DEF Pouring, Tared, engineVars
<1>5. ~ Asking
  BY <1>2 DEF Asking
<1>6. noTare'
  BY <1>1, <1>3 DEF Tared, noTare
<1>7. state \in {"weigh_base", "weigh_hardener"} /\ state \in Pours /\ state # "idle"
  BY <1>4, Distinct
<1>8. state = "weigh_hardener" <=> c = "hardener"
  BY <1>4 DEF Weigh, Cans
<1>9. Head(mail).of = c /\ mail' = <<>>
  <2>1. PICK kind \in {"tared", "not_tared"} : mail = <<[kind |-> kind, of |-> c]>>
    BY <1>3 DEF Tared
  <2>2. Head(mail) = [kind |-> kind, of |-> c] /\ Tail(mail) = <<>>
    BY <2>1, OneSignal
  <2>3. QED
    BY <1>2, <2>2
<1>10. CASE Head(mail).kind = "not_tared"
  <2>1. retry' = c /\ UNCHANGED <<phase, target, guide>>
    BY <1>9, <1>10 DEF HandleTare
  <2>2. Retrying(c)'
    BY <1>4, <1>6, <1>9, <2>1 DEF Retrying
  <2>3. ~ Asking'
    BY <2>1 DEF Asking, Cans
  <2>4. Contents'
    BY <1>1, <1>4, <1>5, <2>3 DEF Contents, engineVars, scaleVars
  <2>5. Guidance'
    BY <1>1, <1>4, <2>1 DEF Guidance
  <2>6. QED
    BY <2>2, <2>4, <2>5 DEF Situation
<1>11. CASE Head(mail).kind # "not_tared"
  <2>1. /\ phase' = state /\ retry' = retry
        /\ target' = IF c = "hardener" THEN c ELSE target
        /\ guide => guide'
    BY <1>4, <1>7, <1>9, <1>11 DEF HandleTare
  <2>2. retry = "none"
    BY <1>3 DEF Tared
  <2>3. Asking'
    BY <1>4, <1>6, <1>7, <1>9, <2>1, <2>2 DEF Asking
  <2>4. offset = total
    <3>1. mail # <<[kind |-> "not_tared", of |-> c]>>
      BY <1>11, OneSignal
    <3>2. QED
      BY <1>3, <3>1 DEF Tared
  <2>5. Contents'
    <3>1. CASE c = "hardener"
      BY <1>1, <1>4, <1>8, <3>1 DEF Contents, engineVars, scaleVars
    <3>2. CASE c = "base"
      <4>1. state = "weigh_base"
        BY <1>7, <1>8, <3>2
      <4>2. offset = 0
        BY <1>4, <1>5, <2>4, <4>1 DEF Contents, total
      <4>3. inside["base"] = 0 /\ inside["hardener"] = 0
        BY <1>4, <1>5, <4>1 DEF Contents
      <4>4. state' = "weigh_base" /\ inside' = inside /\ offset' = 0
        BY <1>1, <1>4, <4>1, <4>2 DEF scaleVars
      <4>5. QED
        BY <4>3, <4>4 DEF Contents
    <3>3. QED
      BY <3>1, <3>2 DEF Cans
  <2>6. target' = target
    BY <1>4, <1>8, <2>1 DEF Guidance
  <2>7. Guidance'
    BY <1>1, <1>4, <2>1, <2>6 DEF Guidance
  <2>8. QED
    BY <2>3, <2>5, <2>7 DEF Situation
<1>12. QED
  BY <1>10, <1>11

(* The pages before the pouring page, and those after it.                  *)
LEMMA UiPouring == ASSUME TypeOK, MixingAssumption, EmptyAtFirst, Pouring, Ui PROVE Pouring'
<1>1. CASE Enter \/ StartSession \/ Back \/ Abort
  BY <1>1, Elsewhere DEF Enter, StartSession, Back, Abort, Leave
<1>2. CASE ConfirmMix \/ StartPotLife \/ CompleteSession
  BY <1>2, Elsewhere DEF ConfirmMix, StartPotLife, CompleteSession, NextPage
<1>3. CASE StartFromPaintNow
  <2>1. inside' \in [Cans -> 0 .. MaxPour]
    BY <1>3, StartType DEF StartFromPaintNow
  <2>2. total' = 0 /\ UNCHANGED <<mail, retry, tares>>
    BY <1>3, SessionStartsEmpty DEF StartFromPaintNow
  <2>3. QED
    BY <1>3, <2>1, <2>2, PickBasePouring DEF StartFromPaintNow
<1>4. CASE AdvanceToPickBase
  <2>1. page = "recipe"
    BY <1>4 DEF AdvanceToPickBase, Buttons, SelectPage, PourPage, ResultsPage, ThinnerPage,
                PotLifePage, CompletePage
  <2>2. inside' = inside /\ UNCHANGED <<mail, retry, tares>>
    BY <1>4 DEF AdvanceToPickBase, scaleVars
  <2>3. total' = 0
    BY <2>1, <2>2 DEF EmptyAtFirst, total
  <2>4. inside' \in [Cans -> 0 .. MaxPour]
    BY <2>2 DEF TypeOK
  <2>5. PickBase(origin = loaded) /\ (origin = loaded) \in BOOLEAN
    BY <1>4 DEF AdvanceToPickBase
  <2>6. QED
    BY <2>2, <2>3, <2>4, <2>5, PickBasePouring
<1>5. QED
  BY <1>1, <1>2, <1>3, <1>4, RetryTarePouring, ConfirmPourPouring, ConfirmInVainPouring,
     HandleStatePouring, HandleTarePouring DEF Ui, HandleSignal

LEMMA TarePouring ==
  ASSUME TypeOK, Pouring, NEW c \in Cans, TareDone(c) \/ TareFailed(c)
  PROVE  Pouring'
<1> SUFFICES ASSUME page' = "pour", ~stale' PROVE Situation' /\ Contents' /\ Guidance'
  BY DEF Pouring
<1>1. /\ tares[c] > 0 /\ tares' = [tares EXCEPT ![c] = tares[c] - 1]
      /\ page = "pour" /\ ~stale
      /\ UNCHANGED <<phase, state, button, retry, guideVars, inside, baseActual>>
  BY DEF TareDone, TareFailed, engineVars, screenVars
<1>2. PICK d \in Cans : Taring(d)
  BY <1>1 DEF Pouring, Situation, Asking, Tared, Retrying, Advanced, noTare
<1>3. d = c
  BY <1>1, <1>2 DEF Taring
<1>4. noTare'
  BY <1>1, <1>2, <1>3 DEF Taring, noTare, TypeOK
<1>5. Tared(c)'
  <2>1. total' = total
    BY <1>1 DEF total
  <2>2. \/ mail' = <<[kind |-> "tared", of |-> c]>> /\ offset' = total
        \/ mail' = <<[kind |-> "not_tared", of |-> c]>>
    BY <1>2, OneSignal DEF TareDone, TareFailed, Taring, total
  <2>3. QED
    BY <1>1, <1>2, <1>3, <1>4, <2>1, <2>2 DEF Tared, Taring
<1>6. ~ Asking /\ ~ Asking'
  <2>1. mail' # <<>>
    BY <1>5, OneSignal DEF Tared
  <2>2. QED
    BY <1>1, <2>1 DEF Asking, noTare
<1>7. Contents'
  BY <1>1, <1>6 DEF Pouring, Contents
<1>8. Guidance'
  BY <1>1 DEF Pouring, Guidance, guideVars
<1>9. QED
  BY <1>5, <1>7, <1>8 DEF Situation

(* A can that is back: the engine goes on, and the screen hears of it.     *)
LEMMA NoticeCanPouring == ASSUME TypeOK, Pouring, NEW c \in Cans, NoticeCan(c) PROVE Pouring'
<1> SUFFICES ASSUME page' = "pour", ~stale' PROVE Pouring'
  BY DEF Pouring
<1>1. /\ page = "pour" /\ ~stale
      /\ UNCHANGED <<page, stale, phase, button, retry, tares, guideVars, inside, offset>>
  BY DEF NoticeCan, screenVars, scaleVars
<1>2. CASE ~ (c \in removed /\ state = Return[c])
  BY <1>1, <1>2, PouringKept DEF NoticeCan, pourVars
<1>3. CASE c \in removed /\ state = Return[c]
  <2>1. ConfirmReturned(c) /\ mail' = Append(mail, [kind |-> "state", of |-> state'])
    BY <1>1, <1>3 DEF NoticeCan, NotifyFromHw
  <2>2. Asking
    BY <1>1, <1>3, Distinct DEF Pouring, Situation, Taring, Tared, Retrying, Advanced
  <2>3. state' = After[c] /\ UNCHANGED baseActual
    BY <2>1, Distinct DEF ConfirmReturned, Cans
  <2>4. mail' = <<[kind |-> "state", of |-> After[c]]>>
    BY <2>1, <2>2, <2>3, OneSignal DEF Asking
  <2>5. Advanced(c)'
    BY <1>1, <1>3, <2>2, <2>3, <2>4 DEF Advanced, Asking, noTare
  <2>6. Contents /\ Guidance
    BY <1>1 DEF Pouring
  <2>7. Contents'
    BY <1>1, <1>3, <2>3, <2>6, Distinct DEF Contents, Cans
  <2>8. c = "base" => \A d \in Cans : d \in verified => d = "base"
    BY <1>3, <2>6, Distinct DEF Guidance, Cans
  <2>9. Guidance'
    BY <1>1, <1>3, <2>3, <2>6, <2>8, Distinct DEF Guidance, guideVars, Cans
  <2>10. QED
    BY <2>5, <2>7, <2>9 DEF Pouring, Situation
<1>4. QED
  BY <1>2, <1>3

LEMMA PourPouring == ASSUME TypeOK, Pouring, NEW c \in Cans, Pour(c) PROVE Pouring'
<1> SUFFICES ASSUME ~stale' PROVE Situation' /\ Contents' /\ Guidance'
  BY DEF Pouring
<1>1. /\ page = "pour" /\ ~stale /\ button /\ retry = "none"
      /\ phase = Weigh[c] /\ state = Weigh[c]
      /\ UNCHANGED <<page, stale, phase, state, mail, retry, tares, button, offset, baseActual,
                     guideVars>>
  BY PressedPour DEF Pour, engineVars, screenVars
<1>2. Asking
  BY <1>1, Distinct DEF Pouring, Situation, Taring, Tared, Retrying, Advanced, Cans
<1>3. Asking' /\ Contents /\ Guidance
  BY <1>1, <1>2 DEF Pouring, Asking, noTare
<1>4. \A d \in Cans : d # c => inside'[d] = inside[d]
  BY DEF Pour, TypeOK
<1>5. Contents'
  BY <1>1, <1>2, <1>3, <1>4, Distinct DEF Contents, Cans
<1>6. Guidance'
  BY <1>1, <1>3 DEF Guidance, guideVars
<1>7. QED
  BY <1>3, <1>5, <1>6 DEF Situation

LEMMA ScanPouring == ASSUME TypeOK, Pouring, NEW c \in Cans, ScanBarcode(c) PROVE Pouring'
<1> SUFFICES ASSUME page' = "pour", ~stale' PROVE Situation' /\ Contents' /\ Guidance'
  BY DEF Pouring
<1>1. /\ page = "pour" /\ ~stale /\ state \in {Pick[c], Weigh[c]}
      /\ verified' = verified \cup {c} /\ guide' = TRUE
      /\ UNCHANGED <<phase, state, mail, retry, tares, button, inside, offset, baseActual, target>>
  BY DEF ScanBarcode, Verified, engineVars, scaleVars
<1>2. Situation /\ Contents /\ Guidance
  BY <1>1 DEF Pouring
<1>3. Situation'
  BY <1>1, <1>2 DEF Situation, Asking, Taring, Tared, Retrying, Advanced, noTare, total
<1>4. Contents'
  BY <1>1, <1>2 DEF Contents, Asking, noTare
<1>5. state \in {"pick_base", "weigh_base", "return_base"} => c # "hardener"
  BY <1>1, Distinct DEF Cans
<1>6. Guidance'
  BY <1>1, <1>2, <1>5 DEF Guidance
<1>7. QED
  BY <1>3, <1>4, <1>6

LEMMA NextPouring ==
  ASSUME TypeOK, MixingAssumption, EmptyAtFirst, Pouring, [Next]_vars
  PROVE  Pouring'
<1> USE DEF startVars, guideVars, screenVars, engineVars, shelfVars, scaleVars, pourVars
<1>1. CASE RfidHealth \/ UNCHANGED vars
  BY <1>1, PouringKept DEF RfidHealth, vars
<1>2. ASSUME NEW c \in Cans, NoticeRemoval(c) \/ TakeCan(c) \/ ReturnCan(c) PROVE Pouring'
  BY <1>2, PouringKept DEF NoticeRemoval, TakeCan, ReturnCan
<1>3. QED
  BY <1>1, <1>2, UiPouring, TarePouring, NoticeCanPouring, PourPouring, ScanPouring
     DEF Next, Notice

LEMMA NextEmpty ==
  ASSUME TypeOK, EmptyAtFirst, [Next]_vars
  PROVE  EmptyAtFirst'
<1> SUFFICES ASSUME page' = "recipe" PROVE total' = 0
  BY DEF EmptyAtFirst
<1> USE DEF startVars, guideVars, screenVars, engineVars, shelfVars, scaleVars
<1>1. CASE StartSession
  BY <1>1, SessionStartsEmpty DEF StartSession
<1>2. ASSUME UNCHANGED <<page, inside>> PROVE total' = 0
  BY <1>2 DEF EmptyAtFirst, total
<1>3. CASE Ui /\ ~ StartSession
  <2>1. CASE HandleState
    BY <1>2, <2>1 DEF HandleState, Show
  <2>2. CASE ConfirmPour
    BY <1>2, <2>2 DEF ConfirmPour, Show
  <2>3. CASE Ui /\ ~ StartSession /\ ~ HandleState /\ ~ ConfirmPour
    BY <1>2, <2>3 DEF Ui, Enter, StartFromPaintNow, AdvanceToPickBase, PickBase, RetryTare,
       ConfirmInVain, ConfirmMix, StartPotLife, CompleteSession, NextPage, Back, Abort, Leave,
       HandleSignal, HandleTare
  <2>4. QED
    BY <1>3, <2>1, <2>2, <2>3
<1>4. ASSUME NEW c \in Cans, Pour(c) PROVE total' = 0
  BY <1>4, PressedPour DEF Pour
<1>5. CASE RfidHealth \/ UNCHANGED vars
  BY <1>2, <1>5 DEF RfidHealth, vars
<1>6. ASSUME NEW c \in Cans,
             TareDone(c) \/ TareFailed(c) \/ Notice(c) \/ TakeCan(c) \/ ReturnCan(c)
               \/ ScanBarcode(c)
      PROVE  total' = 0
  BY <1>2, <1>6 DEF TareDone, TareFailed, Notice, NoticeRemoval, NoticeCan, TakeCan, ReturnCan,
                    ScanBarcode
<1>7. QED
  BY <1>1, <1>3, <1>4, <1>5, <1>6 DEF Next

-----------------------------------------------------------------------------
LEMMA InitIInv == MixingAssumption /\ Init => IInv
<1> SUFFICES ASSUME MixingAssumption, Init PROVE IInv
  OBVIOUS
<1>1. MaxPour \in Nat /\ MaxSessions \in Nat
  BY DEF MixingAssumption
<1>2. offset \in 0 .. 2 * MaxPour /\ sessions \in 0 .. MaxSessions
  BY <1>1 DEF Init
<1>3. inside \in [Cans -> 0 .. MaxPour] /\ tares \in [Cans -> Nat]
  BY <1>1 DEF Init
<1>4. state \in States /\ phase \in Pours /\ target \in Cans
  BY CansAre, Distinct DEF Init, Cans
<1>5. mail \in Seq(Signal)
  BY DEF Init
<1>6. tracked \subseteq Cans /\ rfid \in Health
  BY DEF Init
<1>7. inSpec \in BOOLEAN /\ stale \in BOOLEAN /\ button \in BOOLEAN /\ guide \in BOOLEAN
  BY DEF Init
<1>8. TypeOK
  BY <1>2, <1>3, <1>4, <1>5, <1>6, <1>7 DEF Init, TypeOK
<1>9. EmptyAtFirst /\ Pouring /\ LightsAreTrue
  BY DEF Init, EmptyAtFirst, Pouring, LightsAreTrue
<1>10. QED
  BY <1>8, <1>9 DEF IInv

LEMMA NextIInv == MixingAssumption /\ IInv /\ [Next]_vars => IInv'
BY NextType, NextEmpty, NextPouring, NextLights DEF IInv

LEMMA ScreenLemma == IInv => ScreenFollowsEngine
<1> SUFFICES ASSUME IInv, page = "pour", mail = <<>>, ~stale PROVE phase = state
  BY DEF ScreenFollowsEngine
<1>1. \A c \in Cans : ~ Advanced(c)
  BY OneSignal DEF Advanced
<1>2. QED
  BY <1>1 DEF IInv, Pouring, Situation, Asking, Taring, Tared, Retrying

LEMMA GuidedLemma == IInv => PourIsGuided
<1> SUFFICES ASSUME IInv, NEW c \in Cans, mayPress, state = Weigh[c], ~stale
             PROVE  target = c /\ (guide \/ c \notin verified)
  BY DEF PourIsGuided
<1>1. Guidance
  BY PressedPour DEF IInv, Pouring
<1>2. target = c
  BY <1>1, Distinct DEF Guidance, Cans
<1>3. QED
  BY <1>1, <1>2 DEF Guidance

(* Whatever brings the button up for picking a can finds RFID down.        *)
LEMMA PicksLemma == IInv /\ [Next]_vars => [PicksByHand]_vars
<1> SUFFICES ASSUME IInv, Next, ~ manualPick, manualPick', ~ stale, rfid PROVE FALSE
  BY DEF PicksByHand
<1>1. page' = "pour" /\ phase' \in Picks /\ button'
  BY DEF manualPick
<1>2. ASSUME UNCHANGED <<page, phase, button>> PROVE FALSE
  BY <1>2 DEF manualPick
<1>3. ASSUME NEW known \in BOOLEAN, PickBase(known) PROVE FALSE
  BY <1>1, <1>3 DEF PickBase, ManualFallback
<1>4. CASE StartFromPaintNow \/ AdvanceToPickBase
  <2>1. (state = "idle") \in BOOLEAN /\ (origin = loaded) \in BOOLEAN
    OBVIOUS
  <2>2. QED
    BY <1>3, <1>4, <2>1 DEF StartFromPaintNow, AdvanceToPickBase
<1>5. CASE RetryTare
  BY <1>1, <1>5 DEF RetryTare
<1>6. ASSUME NEW s \in Weighs \cup Returns \cup {"pick_hardener", "confirm_mix"}, Show(s),
             s = "confirm_mix" => page' # "pour"
      PROVE  FALSE
  <2>1. s \in Pours /\ phase' = s
    BY <1>1, <1>6, Distinct DEF Show
  <2>2. s = "pick_hardener"
    BY <1>1, <1>6, <2>1, Distinct
  <2>3. button' = ManualFallback
    BY <1>6, <2>2, Distinct DEF Show
  <2>4. QED
    BY <1>1, <2>3 DEF ManualFallback
<1>7. CASE ConfirmPour
  <2>1. page = "pour" /\ Show(state') /\ Confirm
    BY <1>7, PressedPour DEF ConfirmPour
  <2>2. state' \in Weighs \cup Returns \cup {"pick_hardener", "confirm_mix"}
    BY <2>1, Distinct DEF Confirm, ConfirmPicked, ConfirmReturned, ConfirmBaseWeighed,
                          ConfirmHardenerWeighed
  <2>3. state' = "confirm_mix" => page' # "pour"
    BY <2>1 DEF Show
  <2>4. QED
    BY <1>6, <2>1, <2>2, <2>3
<1>8. CASE HandleSignal
  <2>1. page = "pour"
    BY <1>1, <1>8 DEF HandleSignal, HandleState, Show, HandleTare
  <2>2. mail # <<>> /\ Situation
    BY <1>8, <2>1 DEF HandleSignal, HandleState, HandleTare, IInv, Pouring
  <2>3. PICK c \in Cans : Tared(c) \/ Advanced(c)
    BY <2>2 DEF Situation, Asking, Taring, Retrying
  <2>4. CASE Advanced(c)
    <3>1. Head(mail) = [kind |-> "state", of |-> After[c]]
      BY <2>4, OneSignal DEF Advanced
    <3>2. HandleState
      BY <1>8, <3>1 DEF HandleSignal, HandleTare
    <3>3. Show(After[c]) /\ state' = After[c]
      BY <2>4, <3>1, <3>2 DEF HandleState, Advanced, engineVars
    <3>4. After[c] = "confirm_mix" => page' # "pour"
      BY <2>1, <3>3 DEF Show
    <3>5. QED
      BY <1>6, <3>3, <3>4, Distinct
  <2>5. CASE Tared(c)
    <3>1. PICK kind \in {"tared", "not_tared"} : mail = <<[kind |-> kind, of |-> c]>>
      BY <2>5 DEF Tared
    <3>2. Head(mail) = [kind |-> kind, of |-> c]
      BY <3>1, OneSignal
    <3>3. HandleTare
      BY <1>8, <3>1, <3>2 DEF HandleSignal, HandleState
    <3>4. phase' = Weigh[c]
      BY <2>5, <3>2, <3>3 DEF HandleTare, Tared
    <3>5. QED
      BY <1>1, <3>4, Distinct
  <2>6. QED
    BY <2>3, <2>4, <2>5
<1>9. CASE Enter \/ StartSession \/ ConfirmInVain \/ ConfirmMix \/ StartPotLife
             \/ CompleteSession \/ Back \/ Abort
  BY <1>1, <1>2, <1>9 DEF Enter, StartSession, ConfirmInVain, ConfirmMix, StartPotLife,
       CompleteSession, NextPage, Back, Abort, Leave
<1>10. CASE RfidHealth
  BY <1>2, <1>10 DEF RfidHealth, screenVars
<1>11. ASSUME NEW c \in Cans,
              TareDone(c) \/ TareFailed(c) \/ Notice(c) \/ TakeCan(c) \/ ReturnCan(c)
                \/ Pour(c) \/ ScanBarcode(c)
       PROVE  FALSE
  BY <1>2, <1>11 DEF TareDone, TareFailed, Notice, NoticeRemoval, NoticeCan, TakeCan, ReturnCan,
                     Pour, ScanBarcode, screenVars
<1>12. QED
  BY <1>4, <1>5, <1>7, <1>8, <1>9, <1>10, <1>11 DEF Next, Ui

-----------------------------------------------------------------------------
LEMMA Inductive ==
  ASSUME MixingAssumption
  PROVE  Spec => []IInv
<1>1. Init => IInv
  BY InitIInv
<1>2. IInv /\ [Next]_vars => IInv'
  BY NextIInv
<1>3. QED
  BY <1>1, <1>2, PTL DEF Spec

(* The session, the screen and the shelf keep their types: the queue, for  *)
(* one, never holds a signal that no handler knows.                        *)
THEOREM MixingTypeCorrect == ASSUME MixingAssumption PROVE Spec => []TypeOK
<1>1. IInv => TypeOK
  BY DEF IInv
<1>2. QED
  BY <1>1, Inductive, PTL

(* The weight recorded for the base is what was poured of it, whatever the *)
(* tares, the aborts and the sessions before (confirm_base_weighed).       *)
THEOREM BaseIsWeighed == ASSUME MixingAssumption PROVE Spec => []BaseWeightIsTrue
<1>1. IInv => BaseWeightIsTrue
  BY DEF IInv, Pouring, Contents, BaseWeightIsTrue
<1>2. QED
  BY <1>1, Inductive, PTL

(* Once its queue is empty the pouring page shows the engine's state.      *)
THEOREM ScreenInStep == ASSUME MixingAssumption PROVE Spec => []ScreenFollowsEngine
BY ScreenLemma, Inductive, PTL

(* No light stays on for a can that is on the shelf.                       *)
THEOREM NoLightForNothing == ASSUME MixingAssumption PROVE Spec => []LightsAreTrue
<1>1. IInv => LightsAreTrue
  BY DEF IInv
<1>2. QED
  BY <1>1, Inductive, PTL

(* Who pours sees the weight against the amount of the can at hand, or is  *)
(* asked for its barcode.                                                  *)
THEOREM PouringGuided == ASSUME MixingAssumption PROVE Spec => []PourIsGuided
BY GuidedLemma, Inductive, PTL

(* The button for picking a can by hand comes up only without RFID.        *)
THEOREM PickedByReader == ASSUME MixingAssumption PROVE Spec => NoManualPick
<1>1. IInv /\ [Next]_vars => [PicksByHand]_vars
  BY PicksLemma
<1>2. QED
  BY <1>1, Inductive, PTL DEF Spec, NoManualPick
=============================================================================
