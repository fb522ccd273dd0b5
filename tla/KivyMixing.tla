------------------------------ MODULE KivyMixing ------------------------------
(***************************************************************************)
(* Mixing with the Kivy interface: Paint Now (ui/screens/paint_now.py),    *)
(* which leaves its result in app.paint_now_context, and the mixing screen *)
(* (ui/screens/mixing.py), which looks at the engine every 0.3 s and       *)
(* rebuilds itself when its state has changed, or when a press asked for   *)
(* it.  In between, the buttons of the old page can still be pressed.      *)
(*                                                                         *)
(* The tracker is polled by the same thread; a can that is moved is seen   *)
(* at once here.  In test mode the drivers are simulated, and cans are     *)
(* moved by the demo screen.                                               *)
(***************************************************************************)
EXTENDS Integers, FiniteSets

CONSTANTS
  Mixed,       \* the products of the chart that there are recipes for
  Unmixed,     \* those that there are none for
  Surfaces,    \* what is entered for the surface, in m2
  MaxSessions  \* bound: sessions started

Charted == Mixed \cup Unmixed
KivyAssumption == "none" \notin Charted /\ Surfaces \subseteq Nat /\ MaxSessions \in Nat

Cans == {"base", "hardener"}
Pick   == [base |-> "pick_base",   hardener |-> "pick_hardener"]
Weigh  == [base |-> "weigh_base",  hardener |-> "weigh_hardener"]
Return == [base |-> "return_base", hardener |-> "return_hardener"]
States == {"idle", "select_product", "show_recipe", "confirm_mix", "add_thinner",
           "pot_life_active", "return_cans"}
            \cup {Pick[c] : c \in Cans} \cup {Weigh[c] : c \in Cans} \cup {Return[c] : c \in Cans}

VARIABLES
  mode,          \* app.mode
  screen,        \* the screen on top
  step,          \* of Paint Now: _step
  layer, m2,     \* _selected_layer, and _m2_value; 0: None
  calc,          \* _calc_grams, as the product and surface it is for
  ctx,           \* app.paint_now_context
  state,         \* engine.current_state
  job,           \* what the session is to mix
  active,        \* inventory.active_session
  shelf,         \* the cans on the shelf
  shown,         \* _last_state, or none
  page,          \* what the screen is built for
  weighing,      \* _thinner_weighing
  chosen,        \* was a method chosen in this session?
  late,          \* simulated returns that will complete a session
  hasty,         \* was the session completed by hand before that?
  sessions       \* how many have been started

wizardVars == <<step, layer, m2, calc>>
engineVars == <<state, job, active>>
pageVars   == <<shown, page, weighing>>
testVars   == <<late, hasty>>
vars == <<mode, screen, wizardVars, ctx, engineVars, shelf, pageVars, chosen, testVars, sessions>>

None == "none"
NoCalc == <<None, 0>>
NoContext == [product |-> None, target |-> NoCalc]
NoJob == [product |-> None, target |-> NoCalc, told |-> NoCalc]

TypeOK ==
  /\ mode \in {"test", "live"} /\ screen \in {"other", "paint_now", "mixing"}
  /\ step \in {"view_layers", "enter_m2", "show_quantities"}
  /\ layer \in Charted \cup {None} /\ m2 \in Surfaces \cup {0}
  /\ calc \in {NoCalc} \cup (Charted \X Surfaces)
  /\ ctx.product \in Charted \cup {None}
  /\ state \in States /\ active \in BOOLEAN /\ shelf \subseteq Cans
  /\ shown \in States \cup {None} /\ weighing \in BOOLEAN /\ chosen \in BOOLEAN
  /\ late \in 0 .. 1 /\ hasty \in BOOLEAN /\ sessions \in 0 .. MaxSessions

Init == /\ mode \in {"test", "live"} /\ shelf = Cans /\ sessions = 0
        /\ screen = "other" /\ step = "view_layers" /\ layer = None /\ m2 = 0 /\ calc = NoCalc
        /\ ctx = NoContext
        /\ state = "idle" /\ job = NoJob /\ active = FALSE
        /\ shown = None /\ page = "idle" /\ weighing = FALSE /\ chosen = FALSE
        /\ late = 0 /\ hasty = FALSE

(* The program ends, and is started again.                                 *)
Restart ==
  /\ screen' = "other" /\ step' = "view_layers" /\ layer' = None /\ m2' = 0 /\ calc' = NoCalc
  /\ ctx' = NoContext
  /\ state' = "idle" /\ job' = NoJob /\ active' = FALSE
  /\ shown' = None /\ page' = "idle" /\ weighing' = FALSE /\ chosen' = FALSE
  /\ late' = 0 /\ hasty' = FALSE
  /\ UNCHANGED <<mode, shelf, sessions>>

-----------------------------------------------------------------------------
(* The pages, and what can be pressed on them.                             *)
IdlePage         == {"start"}
ErrorPage        == {"start"}
SelectPage       == {"amount"}
RecipePage       == {"confirm_recipe"}
PickPage         == IF mode = "test" THEN {"simulate_pick"} ELSE {}
WeighPage(c)     == {"confirm_weight"} \cup (IF c = "base" THEN {"tare"} ELSE {})
ConfirmPage      == {"confirm_mix"}
ThinnerPage      == {"method", "skip"}
ThinnerWeighPage == {"cancel_thinner", "confirm_thinner"}
PotLifePage      == {"return_cans"}
ReturnCansPage   == {"complete"} \cup (IF mode = "test" /\ late = 0 THEN {"simulate_return"} ELSE {})

(* Nothing is built for return_base and return_hardener.                   *)
PageOf(s, w) == IF s = "add_thinner" /\ w THEN "thinner_weigh"
                ELSE IF \E c \in Cans : s = Return[c] THEN "blank"
                ELSE s

Buttons ==
  CASE page = "idle" -> IdlePage
    [] page = "error" -> ErrorPage
    [] page = "select_product" -> SelectPage
    [] page = "show_recipe" -> RecipePage
    [] page \in {Pick[c] : c \in Cans} -> PickPage
    [] page = "weigh_base" -> WeighPage("base")
    [] page = "weigh_hardener" -> WeighPage("hardener")
    [] page = "confirm_mix" -> ConfirmPage
    [] page = "add_thinner" -> ThinnerPage
    [] page = "thinner_weigh" -> ThinnerWeighPage
    [] page = "pot_life_active" -> PotLifePage
    [] page = "return_cans" -> ReturnCansPage
    [] OTHER -> {}

Pressed(b) == screen = "mixing" /\ b \in Buttons

(* _refresh.                                                               *)
WeighingOn_Always == weighing
WeighingOn == weighing /\ state = "add_thinner"

Refreshed(last) ==
  IF state = last
    THEN UNCHANGED pageVars
    ELSE /\ shown' = state
         /\ weighing' = WeighingOn
         /\ page' = PageOf(state, WeighingOn)

Refresh ==
  /\ screen = "mixing"
  /\ Refreshed(shown)
  /\ UNCHANGED <<mode, screen, wizardVars, ctx, engineVars, shelf, chosen, testVars, sessions>>

(* on_enter.                                                               *)
EnterMixing ==
  /\ screen = "other" /\ screen' = "mixing"
  /\ Refreshed(None)
  /\ UNCHANGED <<mode, wizardVars, ctx, engineVars, shelf, chosen, testVars, sessions>>

(* on_leave; a session goes on.                                            *)
GoBack ==
  /\ screen = "mixing" /\ screen' = "other"
  /\ UNCHANGED <<mode, wizardVars, ctx, engineVars, shelf, pageVars, chosen, testVars, sessions>>

-----------------------------------------------------------------------------
(* Paint Now.                                                              *)
wizardRest == <<mode, engineVars, shelf, chosen, testVars, sessions>>

EnterPaintNow ==
  /\ screen = "other" /\ screen' = "paint_now"
  /\ step' = "view_layers" /\ layer' = None /\ m2' = 0
  /\ UNCHANGED <<calc, ctx, pageVars, wizardRest>>

(* _select_area and _select_layer.                                         *)
SelectLayer(p) ==
  /\ screen = "paint_now" /\ step = "view_layers" /\ step' = "enter_m2"
  /\ layer' = p
  /\ UNCHANGED <<screen, m2, calc, ctx, pageVars, wizardRest>>

(* _calculate, and what _build_show_quantities stores.                     *)
Calculate(n) ==
  /\ screen = "paint_now" /\ step = "enter_m2" /\ step' = "show_quantities"
  /\ m2' = n /\ calc' = <<layer, n>>
  /\ UNCHANGED <<screen, layer, ctx, pageVars, wizardRest>>

WizardBack ==
  /\ screen = "paint_now"
  /\ CASE step = "view_layers" -> screen' = "other" /\ UNCHANGED step
       [] step = "enter_m2" -> step' = "view_layers" /\ UNCHANGED screen
       [] step = "show_quantities" -> step' = "enter_m2" /\ UNCHANGED screen
  /\ UNCHANGED <<layer, m2, calc, ctx, pageVars, wizardRest>>

(* _go_to_mixing.                                                          *)
GoToMixing(surface) ==
  /\ m2' = surface
  /\ ctx' = [product |-> layer, target |-> IF surface > 0 THEN calc ELSE NoCalc]
  /\ screen' = "mixing" /\ Refreshed(None)
  /\ UNCHANGED <<step, layer, calc, wizardRest>>

Skipped_Kept == m2
Skipped == 0

(* _skip_to_mix.                                                           *)
SkipToMix == screen = "paint_now" /\ step = "enter_m2" /\ GoToMixing(Skipped)

StartMixing == screen = "paint_now" /\ step = "show_quantities" /\ GoToMixing(m2)

-----------------------------------------------------------------------------
(* The presses.                                                            *)

(* _start_mix, with the recipe of the context or one made up from the      *)
(* chart (_build_fallback_recipe).                                         *)
StartMix ==
  /\ Pressed("start") /\ sessions < MaxSessions
  /\ active' = TRUE
  /\ IF state = "idle"
       THEN /\ sessions' = sessions + 1
            /\ job' = [product |-> ctx.product, target |-> ctx.target, told |-> ctx.target]
            /\ state' = IF ctx.target = NoCalc THEN "select_product" ELSE "show_recipe"
            /\ shown' = None /\ chosen' = FALSE
            /\ UNCHANGED page
       ELSE /\ page' = "error"
            /\ UNCHANGED <<sessions, job, state, shown, chosen>>
  /\ UNCHANGED <<mode, screen, wizardVars, ctx, shelf, weighing, testVars>>

(* A press that moves the engine on, if it is where the button belongs.    *)
Step(from, to) ==
  /\ state' = IF state = from THEN to ELSE state
  /\ shown' = None
  /\ UNCHANGED <<mode, screen, wizardVars, ctx, job, active, page, testVars, sessions>>

(* _select_amount: show_recipe asks only whether there is a session.       *)
SelectAmount ==
  /\ Pressed("amount")
  /\ shown' = None
  /\ IF state = "idle"
       THEN UNCHANGED <<state, job>>
       ELSE state' = "show_recipe" /\ job' = [job EXCEPT !.target = <<job.product, 1>>]
  /\ UNCHANGED <<mode, screen, wizardVars, ctx, active, shelf, page, weighing, chosen, testVars,
                 sessions>>

ConfirmRecipe == /\ Pressed("confirm_recipe") /\ Step("show_recipe", "pick_base")
                 /\ UNCHANGED <<shelf, weighing, chosen>>

SimulatePick(c) == /\ Pressed("simulate_pick") /\ page = Pick[c]
                   /\ shelf' = shelf \ {c} /\ Step(Pick[c], Weigh[c])
                   /\ UNCHANGED <<weighing, chosen>>

(* _tare sets the weight of a simulated scale first.  No other driver has  *)
(* such an operation, and nothing catches what is raised.                  *)
Tare ==
  /\ Pressed("tare")
  /\ IF mode = "test" THEN UNCHANGED vars
                      ELSE Restart

ConfirmedFrom_Anywhere(c) == state
ConfirmedFrom(c) == Weigh[c]

(* _confirm_weight.                                                        *)
ConfirmWeight(c) == /\ Pressed("confirm_weight") /\ page = Weigh[c]
                    /\ Step(ConfirmedFrom(c), Return[c])
                    /\ UNCHANGED <<shelf, weighing, chosen>>

ConfirmMix == /\ Pressed("confirm_mix") /\ Step("confirm_mix", "add_thinner")
              /\ UNCHANGED <<shelf, weighing, chosen>>

(* _add_thinner.                                                           *)
ChooseMethod == /\ Pressed("method") /\ Step("none", "none")
                /\ weighing' = TRUE /\ chosen' = TRUE
                /\ UNCHANGED shelf

SkipThinner == /\ Pressed("skip") /\ Step("add_thinner", "pot_life_active")
               /\ weighing' = FALSE /\ UNCHANGED <<shelf, chosen>>

ConfirmThinner == /\ Pressed("confirm_thinner") /\ state # "idle"
                  /\ Step("add_thinner", "pot_life_active")
                  /\ weighing' = FALSE /\ UNCHANGED <<shelf, chosen>>

CancelThinner == /\ Pressed("cancel_thinner") /\ Step("none", "none")
                 /\ weighing' = FALSE /\ UNCHANGED <<shelf, chosen>>

(* return_cans_phase asks only whether there is a session.                 *)
ReturnCans == /\ Pressed("return_cans")
              /\ Step(IF state = "idle" THEN "none" ELSE state, "return_cans")
              /\ UNCHANGED <<shelf, weighing, chosen>>

Completed ==
  /\ state' = "idle" /\ job' = NoJob /\ active' = FALSE /\ ctx' = NoContext /\ shown' = None
  /\ UNCHANGED <<mode, screen, wizardVars, shelf, page, weighing, chosen, sessions>>

CompleteSession == Pressed("complete") /\ Completed /\ hasty' = (late > 0) /\ UNCHANGED late

(* _simulate_return_cans, which completes the session a second later.      *)
SimulateReturn ==
  /\ Pressed("simulate_return")
  /\ shelf' = Cans /\ late' = late + 1 /\ hasty' = (state = "idle")
  /\ UNCHANGED <<mode, screen, wizardVars, ctx, engineVars, pageVars, chosen, sessions>>

CompleteLate == late > 0 /\ late' = late - 1 /\ Completed /\ hasty' = FALSE

-----------------------------------------------------------------------------
(* A can is taken, when the page says so, or put back, and the tracker     *)
(* tells the engine, which knows it by its recipe, or by the tag that was  *)
(* taken.  In test mode it is put back on the demo screen.                 *)
MayTake(c) == mode = "live" /\ page = Pick[c]
MayPut     == mode = "live" \/ screen = "other"

TakeCan(c) ==
  /\ MayTake(c) /\ c \in shelf /\ shelf' = shelf \ {c}
  /\ state' = IF active /\ state = Pick[c] /\ job.product \notin Unmixed THEN Weigh[c] ELSE state
  /\ UNCHANGED <<mode, screen, wizardVars, ctx, job, active, pageVars, chosen, testVars, sessions>>

PutCan(c) ==
  /\ MayPut /\ c \notin shelf /\ shelf' = shelf \cup {c}
  /\ state' = IF state # Return[c] THEN state
              ELSE IF c = "base" THEN "pick_hardener" ELSE "confirm_mix"
  /\ UNCHANGED <<mode, screen, wizardVars, ctx, job, active, pageVars, chosen, testVars, sessions>>

Press == \/ StartMix \/ SelectAmount \/ ConfirmRecipe \/ Tare \/ ConfirmMix \/ ChooseMethod
         \/ SkipThinner \/ ConfirmThinner \/ CancelThinner \/ ReturnCans \/ SimulateReturn
         \/ CompleteSession
         \/ \E c \in Cans : SimulatePick(c) \/ ConfirmWeight(c)

PaintNow == \/ EnterPaintNow \/ WizardBack \/ SkipToMix \/ StartMixing
            \/ \E p \in Charted : SelectLayer(p)
            \/ \E n \in Surfaces : Calculate(n)

Next == \/ Press \/ PaintNow \/ Refresh \/ EnterMixing \/ GoBack \/ CompleteLate
        \/ \E c \in Cans : TakeCan(c) \/ PutCan(c)

Spec == Init /\ [][Next]_vars

-----------------------------------------------------------------------------
(* The page is the engine's as it was last looked at, and no error stays   *)
(* on the screen; thinner is weighed when a method was chosen in this      *)
(* session; the tracker knows of a session while there is one; and the     *)
(* amount that is asked for was calculated for the product that is mixed.  *)
PageIsTrue ==
  /\ screen = "mixing" /\ shown # None => page = PageOf(shown, weighing)
  /\ page = "thinner_weigh" => chosen
  /\ active <=> state # "idle"
  /\ ctx.target # NoCalc => ctx.target[1] = ctx.product
  /\ state \notin {"idle", "select_product"} /\ job.told # NoCalc => job.target = job.told

(* A press moves the session only from the page it belongs to, however     *)
(* late it comes - the error page has a button that starts one, too -, and *)
(* a session is completed only when the cans are asked back, unless it was *)
(* completed by hand while a simulated return ran.                         *)
PressBelongs ==
  /\ Press /\ state' # state /\ state' # "idle" =>
       (page = "error" /\ state = "idle") \/ \E w \in BOOLEAN : page = PageOf(state, w)
  /\ CompleteSession \/ CompleteLate => state \in {"idle", "return_cans"} \/ hasty
PressesBelong == [][PressBelongs]_vars
=============================================================================
