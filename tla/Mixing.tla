-------------------------------- MODULE Mixing --------------------------------
(***************************************************************************)
(* A mixing session: the state machine of core/mixing_engine.py, the       *)
(* screen of ui_qt/screens/mixing.py that drives it, and what they share   *)
(* with the rest of the program: the hardware thread, whose events advance *)
(* the engine and reach the screen as queued signals; the threads that     *)
(* tare the scale and report back in the same way; the mixing scale; and   *)
(* the tracker's view of the two cans.                                     *)
(*                                                                         *)
(* The crew does what the screen says: it takes and returns a can and it   *)
(* pours when told to.  It may abort, or leave the screen, when it likes.  *)
(* It mixes one recipe, for which the shelf holds one can of each.  As     *)
(* ui_qt/app.py sets it up, the engine has no inventory to light a slot    *)
(* with and no database to save a session in, and the tracker no active    *)
(* session.                                                                *)
(***************************************************************************)
EXTENDS Integers, Sequences

CONSTANTS
  MaxPour,                    \* a bound on what is poured of each component
  RatioBase, RatioHardener,   \* the recipe
  Tolerance,                  \* tolerance_pct
  Health,                     \* the values rfid.is_healthy() takes
  MaxSessions   \* bound: how often the crew starts a session

(* What the constants may be.                                              *)
MixingAssumption == /\ MaxPour \in Nat /\ Tolerance \in Nat /\ MaxSessions \in Nat
                    /\ RatioBase \in Nat \ {0} /\ RatioHardener \in Nat \ {0}
                    /\ Health \subseteq BOOLEAN /\ Health # {}

Cans == {"base", "hardener"}
Pick   == [base |-> "pick_base",   hardener |-> "pick_hardener"]
Weigh  == [base |-> "weigh_base",  hardener |-> "weigh_hardener"]
Return == [base |-> "return_base", hardener |-> "return_hardener"]

Picks   == {Pick[c] : c \in Cans}
Weighs  == {Weigh[c] : c \in Cans}
Returns == {Return[c] : c \in Cans}
Pours   == Picks \cup Weighs \cup Returns    \* the states of the pouring page
States  == Pours \cup {"idle", "select_product", "confirm_mix", "add_thinner",
                       "pot_life_active"}

VARIABLES
  state,      \* current_state: session.state, or idle without a session
  baseActual, hardenerActual, inSpec,   \* fields of the session
  lit,        \* the cans whose slots have their LED on
  page,       \* the page of the screen, or away
  phase,      \* _weighing_phase
  button,     \* is the pour button visible?
  retry,      \* _tare_retry_phase
  guide,      \* does _weight_timer run, and with it the display of the weight?
  target,     \* the can whose amount _weight_target is
  verified,   \* the cans whose barcode has been scanned (_barcode_verified_*)
  tares,      \* the tare threads under way
  mail,       \* signals queued for the UI thread
  rfid,       \* rfid.is_healthy()
  out,        \* the cans that are off the shelf
  removed,    \* the cans whose slots are REMOVED
  tracked,    \* the cans in _previous_tags
  inside,     \* what the container holds of each can
  offset,     \* the tare offset of the scale
  sessions,   \* how often one has been started
  origin,     \* the recipe of the session: one the crew chose, or one handed over
  loaded,     \* the recipe in _recipes: that of the last start
  stale       \* history: was the base asked for with a tare or a signal under way?

engineVars == <<state, baseActual, hardenerActual, inSpec, lit>>
startVars  == <<sessions, origin, loaded>>
guideVars  == <<guide, target, verified>>
screenVars == <<page, phase, button, retry, guideVars>>
shelfVars  == <<rfid, out, removed, tracked>>
scaleVars  == <<inside, offset>>
vars == <<engineVars, startVars, screenVars, tares, mail, shelfVars, scaleVars, stale>>

Signal == [kind : {"state"}, of : States]
            \cup [kind : {"tared", "not_tared"}, of : Cans]

TypeOK ==
  /\ state \in States
  /\ baseActual \in Int /\ hardenerActual \in Int /\ inSpec \in BOOLEAN
  /\ lit \subseteq Cans
  /\ sessions \in 0 .. MaxSessions /\ stale \in BOOLEAN
  /\ origin \in {"chosen", "handed"} /\ loaded \in {"chosen", "handed", "another"}
  /\ page \in {"away", "select", "recipe", "pour", "results", "thinner", "pot_life", "complete"}
  /\ phase \in Pours /\ button \in BOOLEAN /\ retry \in Cans \cup {"none"}
  /\ guide \in BOOLEAN /\ target \in Cans /\ verified \subseteq Cans
  /\ tares \in [Cans -> Nat]
  /\ mail \in Seq(Signal)
  /\ rfid \in Health
  /\ out \subseteq Cans /\ removed \subseteq Cans /\ tracked \subseteq Cans
  /\ inside \in [Cans -> 0 .. MaxPour] /\ offset \in 0 .. 2 * MaxPour

Init ==
  /\ state = "idle" /\ baseActual = 0 /\ hardenerActual = 0 /\ inSpec = FALSE
  /\ lit = {}
  /\ sessions = 0 /\ stale = FALSE /\ origin = "chosen" /\ loaded = "chosen"
  /\ page = "away" /\ phase = "weigh_base" /\ button = TRUE /\ retry = "none"
  /\ guide = FALSE /\ target = "base" /\ verified = {}
  /\ tares = [c \in Cans |-> 0] /\ mail = <<>>
  /\ rfid \in Health
  /\ out = {} /\ removed = {} /\ tracked = IF rfid THEN Cans ELSE {}
  /\ inside = [c \in Cans |-> 0] /\ offset \in 0 .. MaxPour

-----------------------------------------------------------------------------
(* The engine.                                                             *)

reading == inside["base"] + inside["hardener"] - offset

Abs(n) == IF n < 0 THEN -n ELSE n

(* |b/h - RatioBase/RatioHardener| is at most Tolerance percent of the     *)
(* recipe's ratio; without hardener the ratio counts as 0.                 *)
WithinTolerance(b, h) ==
  IF h > 0 THEN 100 * Abs(b * RatioHardener - h * RatioBase) <= Tolerance * h * RatioBase
           ELSE Tolerance >= 100

(* confirm_base_picked, confirm_hardener_picked.                           *)
ConfirmPicked(c) ==
  /\ state = Pick[c] /\ state' = Weigh[c]
  /\ UNCHANGED <<baseActual, hardenerActual, inSpec, lit>>

(* confirm_base_weighed.                                                   *)
ConfirmBaseWeighed ==
  /\ state = "weigh_base" /\ state' = "return_base"
  /\ baseActual' = reading
  /\ lit' = {}
  /\ UNCHANGED <<hardenerActual, inSpec>>

(* confirm_hardener_weighed.                                               *)
ConfirmHardenerWeighed ==
  /\ state = "weigh_hardener" /\ state' = "return_hardener"
  /\ hardenerActual' = reading - baseActual
  /\ inSpec' = (origin = loaded /\ WithinTolerance(baseActual, reading - baseActual))
  /\ lit' = {}
  /\ UNCHANGED baseActual

ConfirmReturned_KeepsLights(c) ==
  /\ state = Return[c]
  /\ state' = IF c = "base" THEN "pick_hardener" ELSE "confirm_mix"
  /\ UNCHANGED <<lit, baseActual, hardenerActual, inSpec>>
(* confirm_base_returned, confirm_hardener_returned.                       *)
ConfirmReturned(c) ==
  /\ state = Return[c]
  /\ state' = IF c = "base" THEN "pick_hardener" ELSE "confirm_mix"
  /\ lit' = {}
  /\ UNCHANGED <<baseActual, hardenerActual, inSpec>>

-----------------------------------------------------------------------------
(* The screen.  With RFID down it shows the button for every step.         *)
ManualFallback_Never == FALSE
ManualFallback == ~rfid

(* The weight is shown until the can is to go back.                        *)
ShowGuide(s) ==
  /\ guide' = (guide /\ s \notin Returns)
  /\ target' = IF s = "weigh_hardener" /\ state' # "idle" THEN "hardener" ELSE target
  /\ UNCHANGED verified

(* _on_engine_state_change.                                                *)
Show_AnyPhase(s) ==
  /\ phase' = s
  /\ button' = IF s \in Weighs THEN FALSE
               ELSE IF s \in Returns \cup {"pick_hardener"} THEN ManualFallback ELSE button
  /\ tares' = [c \in Cans |-> IF s = Weigh[c] THEN tares[c] + 1 ELSE tares[c]]
  /\ page' = IF s = "confirm_mix" /\ state' # "idle" /\ page # "away" THEN "results" ELSE page
  /\ ShowGuide(s)
Show_KeepsButton(s) ==
  /\ phase' = IF s \in Pours THEN s ELSE phase
  /\ button' = IF s \in Returns \cup {"pick_hardener"} THEN ManualFallback ELSE TRUE
  /\ tares' = [c \in Cans |-> IF s = Weigh[c] THEN tares[c] + 1 ELSE tares[c]]
  /\ page' = IF s = "confirm_mix" /\ state' # "idle" /\ page # "away" THEN "results" ELSE page
  /\ ShowGuide(s)
Show(s) ==
  /\ phase' = IF s \in Pours THEN s ELSE phase
  /\ button' = IF s \in Weighs THEN FALSE
               ELSE IF s \in Returns \cup {"pick_hardener"} THEN ManualFallback ELSE button
  /\ tares' = [c \in Cans |-> IF s = Weigh[c] THEN tares[c] + 1 ELSE tares[c]]
  /\ page' = IF s = "confirm_mix" /\ state' # "idle" /\ page # "away" THEN "results" ELSE page
  /\ ShowGuide(s)

(* The buttons of each page (_build_select_page and the others), next to   *)
(* the BACK of their header.                                               *)
SelectPage   == {"start"}
RecipePage   == {"cancel", "tare_and_pour"}
PourPage     == {"abort"} \cup (IF button THEN {"confirm_pour"} ELSE {})
ResultsPage  == {"confirm_mix"}
ThinnerPage  == {"method", "skip"}
PotLifePage  == {"complete"}
CompletePage == {"home"}

Buttons == CASE page = "select"   -> SelectPage
             [] page = "recipe"   -> RecipePage
             [] page = "pour"     -> PourPage
             [] page = "results"  -> ResultsPage
             [] page = "thinner"  -> ThinnerPage
             [] page = "pot_life" -> PotLifePage
             [] page = "complete" -> CompletePage
             [] OTHER             -> {}

(* on_enter shows the first page, also when a session is under way.        *)
Enter ==
  /\ page = "away" /\ page' = "select"
  /\ UNCHANGED <<engineVars, startVars, phase, button, retry, guideVars, tares, mail, shelfVars,
                 scaleVars, stale>>

(* load_recipes, which forgets all others, and start_session, which refuses *)
(* while there is a session; the crew puts an empty container on the scale.*)
(* Each recipe that is handed over gets a name of its own.                 *)
SessionStarts(kind) ==
  /\ sessions < MaxSessions /\ sessions' = sessions + 1
  /\ IF state = "idle"
       THEN /\ origin' = kind /\ loaded' = kind
            /\ baseActual' = 0 /\ hardenerActual' = 0 /\ inSpec' = FALSE
       ELSE /\ loaded' = IF kind = "chosen" THEN kind ELSE "another"
            /\ UNCHANGED <<origin, baseActual, hardenerActual, inSpec>>
  /\ inside' = [c \in Cans |-> 0]
  /\ UNCHANGED <<retry, guide, tares, mail, shelfVars, offset>>

(* _on_start.                                                              *)
StartSession ==
  /\ "start" \in Buttons /\ page' = "recipe"
  /\ SessionStarts("chosen")
  /\ state' = IF state = "idle" THEN "select_product" ELSE state
  /\ UNCHANGED <<lit, phase, button, target, verified, stale>>

(* The pouring page for the base can, and show_recipe and                  *)
(* advance_to_pick_base, which do nothing for a session whose recipe is    *)
(* not loaded.  A tare, a signal or the offer to try again of before is    *)
(* not forgotten by that.                                                  *)
PickBase(known) ==
  /\ page' = "pour" /\ phase' = "pick_base" /\ button' = ManualFallback
  /\ IF known THEN state' = "pick_base" /\ lit' = {} ELSE UNCHANGED <<state, lit>>
  /\ target' = "base" /\ verified' = {}
  /\ stale' = (\/ stale \/ ~known \/ mail # <<>> \/ retry # "none"
               \/ \E c \in Cans : tares[c] > 0)

(* _on_tare_and_pour.                                                      *)
AdvanceToPickBase ==
  /\ "tare_and_pour" \in Buttons
  /\ PickBase(origin = loaded)
  /\ UNCHANGED <<baseActual, hardenerActual, inSpec, startVars, retry, guide, tares, mail,
                 shelfVars, scaleVars>>

(* Paint Now hands its amounts over, and the screen starts with them       *)
(* (_auto_start_from_paint_now).                                           *)
StartFromPaintNow ==
  /\ page = "away"
  /\ SessionStarts("handed") /\ PickBase(state = "idle")

mayPress == "confirm_pour" \in Buttons

RetryTare ==
  /\ mayPress /\ retry # "none"
  /\ tares' = [tares EXCEPT ![retry] = tares[retry] + 1]
  /\ retry' = "none" /\ button' = FALSE
  /\ UNCHANGED <<engineVars, startVars, page, phase, guideVars, mail, shelfVars, scaleVars, stale>>

(* The operation of the engine that phase stands for.                      *)
Confirm ==
  \/ \E c \in Cans : \/ phase = Pick[c] /\ ConfirmPicked(c)
                     \/ phase = Return[c] /\ ConfirmReturned(c)
  \/ phase = "weigh_base" /\ ConfirmBaseWeighed
  \/ phase = "weigh_hardener" /\ ConfirmHardenerWeighed

(* _on_confirm_pour.  The engine ignores it in any other state.            *)
ConfirmPour ==
  /\ mayPress /\ retry = "none" /\ phase = state
  /\ Confirm
  /\ Show(state')
  /\ UNCHANGED <<startVars, retry, mail, shelfVars, scaleVars, stale>>

ConfirmInVain ==
  /\ mayPress /\ retry = "none" /\ phase # state
  /\ guide' = (guide /\ phase \notin Weighs)
  /\ UNCHANGED <<engineVars, startVars, page, phase, button, retry, target, verified, tares, mail,
                 shelfVars, scaleVars, stale>>

(* A page that follows whatever the engine makes of the press.             *)
NextPage(b, next) ==
  /\ b \in Buttons /\ page' = next
  /\ UNCHANGED <<baseActual, hardenerActual, inSpec, startVars, phase, button, guideVars, retry,
                 tares, mail, shelfVars, scaleVars, stale>>

ConfirmMix ==
  /\ NextPage("confirm_mix", "thinner")
  /\ state' = IF state = "confirm_mix" THEN "add_thinner" ELSE state
  /\ UNCHANGED lit

(* add_thinner, skip_thinner and _start_pot_life.                          *)
StartPotLife ==
  /\ NextPage("method", "pot_life") \/ NextPage("skip", "pot_life")
  /\ state' = IF state = "add_thinner" THEN "pot_life_active" ELSE state
  /\ UNCHANGED lit

CompleteSession ==
  /\ NextPage("complete", "complete")
  /\ state' = "idle" /\ lit' = {}

(* on_leave.                                                               *)
Leave ==
  /\ page' = "away" /\ lit' = {} /\ guide' = FALSE
  /\ UNCHANGED <<baseActual, hardenerActual, inSpec, startVars, phase, button, retry, target,
                 verified, tares, mail, shelfVars, scaleVars, stale>>

(* The header's BACK and BACK TO HOME leave a session as it is.            *)
Back == page # "away" /\ Leave /\ UNCHANGED state

(* The abort buttons: _on_abort, and abort_session.                        *)
Abort == Buttons \cap {"cancel", "abort"} # {} /\ Leave /\ state' = "idle"

(* A queued _engine_state_changed.                                         *)
HandleState ==
  /\ mail # <<>> /\ Head(mail).kind = "state" /\ mail' = Tail(mail)
  /\ UNCHANGED <<engineVars, startVars, retry, shelfVars, scaleVars, stale>>
  /\ Show(Head(mail).of)

(* After the tare the weight is shown at once while RFID vouches for the   *)
(* can; else its barcode is asked for (_show_barcode_required).            *)
Guided == rfid

(* A queued _tare_finished: _on_tare_complete.                             *)
HandleTare ==
  /\ mail # <<>> /\ Head(mail).kind # "state" /\ mail' = Tail(mail)
  /\ LET c == Head(mail).of
     IN IF Head(mail).kind = "not_tared"
          THEN button' = TRUE /\ retry' = c /\ UNCHANGED <<phase, target, guide>>
          ELSE /\ button' = (button \/ state # "idle")
               /\ phase' = IF state # "idle" /\ c = "hardener" THEN Weigh[c] ELSE phase
               /\ target' = IF state # "idle" /\ c = "hardener" THEN c ELSE target
               /\ guide' = (guide \/ (state # "idle" /\ Guided))
               /\ UNCHANGED retry
  /\ UNCHANGED <<verified, engineVars, startVars, page, tares, shelfVars, scaleVars, stale>>

HandleSignal == HandleState \/ HandleTare

(* A scanned barcode counts for the can the session is about, whichever    *)
(* product it is of: a mismatch warns and goes on (_barcode_verify_mixing, *)
(* on_barcode_verified).                                                   *)
Verified_OnWeighing(c) ==
  /\ verified' = verified \cup {c}
  /\ guide' = (guide \/ state = Weigh[c])
Verified(c) == verified' = verified \cup {c} /\ guide' = TRUE

ScanBarcode(c) ==
  /\ state \in {Pick[c], Weigh[c]} /\ c \notin verified
  /\ Verified(c)
  /\ UNCHANGED <<engineVars, startVars, page, phase, button, retry, target, tares, mail,
                 shelfVars, scaleVars, stale>>

(* _do_tare_async in its own thread.                                       *)
TareDone(c) ==
  /\ tares[c] > 0
  /\ tares' = [tares EXCEPT ![c] = tares[c] - 1]
  /\ offset' = inside["base"] + inside["hardener"]
  /\ mail' = Append(mail, [kind |-> "tared", of |-> c])
  /\ UNCHANGED <<engineVars, startVars, screenVars, shelfVars, inside, stale>>

(* The answer of the scale may be all that is missing.                     *)
TareFailed(c) ==
  /\ tares[c] > 0
  /\ tares' = [tares EXCEPT ![c] = tares[c] - 1]
  /\ offset' \in {offset, inside["base"] + inside["hardener"]}
  /\ mail' = Append(mail, [kind |-> "not_tared", of |-> c])
  /\ UNCHANGED <<engineVars, startVars, screenVars, shelfVars, inside, stale>>

-----------------------------------------------------------------------------
(* The hardware thread: the tracker's poll, and the engine's handlers of   *)
(* its events.                                                             *)

(* The callback of the screen, while the screen is open.                   *)
NotifyFromHw_Never == mail' = mail
NotifyFromHw == mail' = IF page = "away" THEN mail
                        ELSE Append(mail, [kind |-> "state", of |-> state'])

(* A can has gone: without an active session that is UNAUTHORIZED_REMOVAL, *)
(* and only CAN_REMOVED makes the engine advance.                          *)
NoticeRemoval(c) ==
  /\ rfid /\ c \in tracked \cap out
  /\ tracked' = tracked \ {c} /\ removed' = removed \cup {c}
  /\ lit' = lit \cup {c}
  /\ UNCHANGED <<state, baseActual, hardenerActual, inSpec, startVars, screenVars, tares, mail,
                 rfid, out, scaleVars, stale>>

(* A can is on the shelf that was not in the last reading: CAN_RETURNED if *)
(* its slot is REMOVED.                                                    *)
NoticeCan(c) ==
  /\ rfid /\ c \notin tracked \cup out
  /\ tracked' = tracked \cup {c} /\ removed' = removed \ {c}
  /\ IF c \in removed /\ state = Return[c]
       THEN ConfirmReturned(c) /\ NotifyFromHw
       ELSE lit' = lit \ {c} /\ UNCHANGED <<state, baseActual, hardenerActual, inSpec, mail>>
  /\ UNCHANGED <<startVars, screenVars, tares, rfid, out, scaleVars, stale>>

(* RFID comes or goes; a poll without it forgets the tags.                 *)
RfidHealth ==
  /\ rfid' \in Health \ {rfid}
  /\ tracked' = {}
  /\ UNCHANGED <<engineVars, startVars, screenVars, tares, mail, out, removed, scaleVars, stale>>

Notice(c) == NoticeRemoval(c) \/ NoticeCan(c)

-----------------------------------------------------------------------------
(* The crew.                                                               *)
TakeCan(c) ==
  /\ page = "pour" /\ phase = Pick[c] /\ c \notin out
  /\ out' = out \cup {c}
  /\ UNCHANGED <<engineVars, startVars, screenVars, tares, mail, rfid, removed, tracked, scaleVars, stale>>

ReturnCan(c) ==
  /\ c \in out /\ (state = "idle" \/ phase = Return[c])
  /\ out' = out \ {c}
  /\ UNCHANGED <<engineVars, startVars, screenVars, tares, mail, rfid, removed, tracked, scaleVars, stale>>

Pour(c) ==
  /\ mayPress /\ retry = "none" /\ phase = Weigh[c] /\ state = Weigh[c]
  /\ inside[c] < MaxPour
  /\ inside' = [inside EXCEPT ![c] = inside[c] + 1]
  /\ UNCHANGED <<engineVars, startVars, screenVars, tares, mail, shelfVars, offset, stale>>

Ui == Enter \/ StartSession \/ StartFromPaintNow \/ AdvanceToPickBase \/ RetryTare
        \/ ConfirmPour \/ ConfirmInVain \/ ConfirmMix \/ StartPotLife \/ CompleteSession
        \/ Back \/ Abort \/ HandleSignal

Next == \/ Ui \/ RfidHealth
        \/ \E c \in Cans : \/ TareDone(c) \/ TareFailed(c) \/ Notice(c)
                           \/ TakeCan(c) \/ ReturnCan(c) \/ Pour(c)
                           \/ ScanBarcode(c)

Spec == Init /\ [][Next]_vars

(* The threads run, the crew follows the screen, and a tare that is tried  *)
(* again and again succeeds.                                               *)
ScreenGoesOn == HandleSignal \/ RetryTare \/ ConfirmPour
CrewFollows  == \E c \in Cans : Notice(c) \/ TakeCan(c) \/ ReturnCan(c)
TareSucceeds == \E c \in Cans : TareDone(c)

FairSpec == Spec /\ WF_vars(ScreenGoesOn \/ CrewFollows) /\ SF_vars(TareSucceeds)

-----------------------------------------------------------------------------
(* Bound: what comes of a mix-up is not explored.                          *)
NotStale == ~stale

(* What the screen owes is not owed after the base was asked for, for a    *)
(* second time, with a tare or a signal under way: those act on what is    *)
(* asked for now.                                                          *)

(* What is recorded as the base's weight is what was poured of it.         *)
BaseWeightIsTrue ==
  state \in {"return_base", "pick_hardener", "weigh_hardener"} /\ page = "pour" /\ ~stale
    => baseActual = inside["base"]

(* With nothing in its queue, the pouring page shows the engine's state,   *)
(* also when it is shown again after it was left.                          *)
ScreenFollowsEngine == page = "pour" /\ mail = <<>> /\ ~stale => phase = state

(* While the crew may pour a can, the screen shows the weight against the  *)
(* amount of that can, or still waits for its barcode.                     *)
PourIsGuided ==
  \A c \in Cans :
    mayPress /\ retry = "none" /\ mail = <<>> /\ phase = Weigh[c] /\ state = Weigh[c] /\ ~stale
      => target = c /\ (guide \/ c \notin verified)

(* A can is picked by hand only when RFID is down: the button for it does  *)
(* not come up while RFID works (_on_tare_and_pour, _on_tare_complete).    *)
manualPick == page = "pour" /\ phase \in Picks /\ button
PicksByHand == ~manualPick /\ manualPick' /\ ~stale => ~rfid
NoManualPick == [][PicksByHand]_vars

(* A slot is lit, as an alarm, only while its can is missing: the engine,  *)
(* which puts all lights out, leaves none behind.                          *)
LightsAreTrue == lit \subseteq removed

(* A session that asks for the base can gets to the result, unless the     *)
(* crew aborts it or leaves the screen: every step of it can be confirmed. *)
SessionProceeds == state = "pick_base" ~> state \in {"confirm_mix", "idle"} \/ page # "pour"

(* The mix is called in spec exactly if what was poured is.                *)
SpecIsTrue ==
  state \in {"return_hardener", "confirm_mix"} /\ page = "pour" =>
    (inSpec <=> WithinTolerance(inside["base"], inside["hardener"]))
=============================================================================
