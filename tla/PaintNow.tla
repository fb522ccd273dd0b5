------------------------------- MODULE PaintNow -------------------------------
(***************************************************************************)
(* Paint Now (ui_qt/screens/paint_now.py): the crew chooses an area of the *)
(* vessel, one of its layers and a surface, is told how much paint that    *)
(* takes, and starts a mix of it.  The amounts are handed over in          *)
(* app.pending_mix, which the mixing screen takes when it opens; the       *)
(* screen is loaded when it is first asked for, which may fail.            *)
(*                                                                         *)
(* Surfaces are hundredths of a square metre and amounts hundredths of a   *)
(* litre, of which one weighs 13 g.                                        *)
(***************************************************************************)
EXTENDS Integers

CONSTANTS
  Products, NoProduct,
  Layers,            \* the chart: the layers of each area, a set of products
  Coverage,          \* coverage_m2_per_liter of each product; 0: not given
  DefaultCoverage,
  Ratio,             \* <<base, hardener>> of the products with two components
  DefaultRatio,
  Alike,             \* the products whose names contain that of each product
  Known,             \* the products in the database
  Surfaces,          \* what is entered for m2; 0 stands for nothing useful
  MaxPresses         \* bound: calculations and starts

Areas == DOMAIN Layers

PaintAssumption ==
  /\ NoProduct \notin Products /\ Surfaces \subseteq Nat /\ MaxPresses \in Nat
  /\ \A a \in Areas : Layers[a] \subseteq Products
  /\ Coverage \in [Products -> Nat] /\ DefaultCoverage \in Nat \ {0}
  /\ \A p \in DOMAIN Ratio : Ratio[p] \in (Nat \ {0}) \X Nat
  /\ Alike \in [Products -> SUBSET Products]

NoArea == "none"
Steps == {"select_area", "view_layers", "enter_m2", "show_quantities"}

VARIABLES
  screen,      \* the screen on top
  step,        \* _step
  area, layer, \* _selected_area, and the product of _selected_layer
  m2,          \* _m2_value
  quantities,  \* _quantities: what is shown to be needed
  pending,     \* app.pending_mix
  session,     \* what the mixing engine is to mix
  loaded,      \* has the mixing screen been loaded?
  starts,      \* how often START MIXING was pressed
  sessions,    \* how many sessions there have been
  presses      \* counts towards MaxPresses

wizardVars == <<step, area, layer, m2, quantities>>
vars == <<screen, wizardVars, pending, session, loaded, starts, sessions, presses>>

NoQuantities == [product |-> NoProduct, surface |-> 0, litres |-> 0, hardener |-> 0]
NoMix == [product |-> NoProduct, base |-> NoProduct, grams |-> 0, ratio |-> <<0, 0>>,
          told |-> NoQuantities]

TypeOK ==
  /\ screen \in {"home", "paint_now", "mixing"}
  /\ step \in Steps /\ area \in Areas \cup {NoArea} /\ layer \in Products \cup {NoProduct}
  /\ m2 \in Surfaces \cup {0}
  /\ quantities.product \in Products \cup {NoProduct}
  /\ pending.product \in Products \cup {NoProduct}
  /\ session.base \in Products \cup {NoProduct}
  /\ loaded \in BOOLEAN
  /\ starts \in 0 .. MaxPresses /\ sessions \in 0 .. MaxPresses /\ presses \in 0 .. MaxPresses

Init ==
  /\ screen = "home"
  /\ step = "select_area" /\ area = NoArea /\ layer = NoProduct
  /\ m2 = 0 /\ quantities = NoQuantities
  /\ pending = NoMix /\ session = NoMix /\ loaded = FALSE
  /\ starts = 0 /\ sessions = 0 /\ presses = 0

-----------------------------------------------------------------------------
(* What each step offers (_rebuild_body and the builders it calls).        *)
AreasOffered == IF step = "select_area" THEN Areas ELSE {}
LayersOffered == IF step = "view_layers" THEN Layers[area] ELSE {}
AsksSurface == step = "enter_m2"
OffersStart == step = "show_quantities" /\ quantities # NoQuantities

Before == [view_layers |-> "select_area", enter_m2 |-> "view_layers",
           show_quantities |-> "enter_m2"]

(* on_enter.                                                               *)
EnterPaintNow ==
  /\ screen = "home" /\ screen' = "paint_now"
  /\ step' = "select_area" /\ area' = NoArea /\ layer' = NoProduct
  /\ m2' = 0 /\ quantities' = NoQuantities
  /\ UNCHANGED <<pending, session, loaded, starts, sessions, presses>>

SelectArea(a) ==
  /\ screen = "paint_now" /\ a \in AreasOffered
  /\ area' = a /\ step' = "view_layers"
  /\ UNCHANGED <<screen, layer, m2, quantities, pending, session, loaded, starts, sessions,
                 presses>>

SelectLayer(p) ==
  /\ screen = "paint_now" /\ p \in LayersOffered
  /\ layer' = p /\ step' = "enter_m2"
  /\ UNCHANGED <<screen, area, m2, quantities, pending, session, loaded, starts, sessions,
                 presses>>

(* _calculate_quantities.                                                  *)
Round(a, b) == (2 * a + b) \div (2 * b)
CoverageOf(p) == IF Coverage[p] > 0 THEN Coverage[p] ELSE DefaultCoverage
RatioOf(p) == IF p \in DOMAIN Ratio THEN Ratio[p] ELSE DefaultRatio

Needed(p, surface) ==
  [product |-> p, surface |-> surface, litres |-> Round(surface, CoverageOf(p)),
   hardener |-> IF p \in DOMAIN Ratio
                  THEN Round(surface * Ratio[p][2], CoverageOf(p) * Ratio[p][1]) ELSE 0]

(* _on_calculate: what is not a positive number leaves the page as it is,  *)
(* but for the surface.                                                    *)
Calculated_Once(surface) ==
  IF quantities = NoQuantities THEN Needed(layer, surface) ELSE quantities
Calculated(surface) == Needed(layer, surface)

Calculate(surface) ==
  /\ screen = "paint_now" /\ AsksSurface /\ presses < MaxPresses
  /\ presses' = presses + 1 /\ m2' = surface
  /\ IF surface = 0 THEN UNCHANGED <<step, quantities>>
                    ELSE /\ quantities' = Calculated(surface)
                         /\ step' = "show_quantities"
  /\ UNCHANGED <<screen, area, layer, pending, session, loaded, starts, sessions>>

GoBack ==
  /\ screen = "paint_now"
  /\ IF step = "select_area" THEN screen' = "home" /\ UNCHANGED step
                             ELSE step' = Before[step] /\ UNCHANGED screen
  /\ UNCHANGED <<area, layer, m2, quantities, pending, session, loaded, starts, sessions, presses>>

-----------------------------------------------------------------------------
(* The names of the chart are looked up by what contains them; a product   *)
(* that is not found is expected under the chart's name.                   *)
Found(p) == Alike[p] \cap Known
Expected(p) == IF Found(p) = {} THEN {p} ELSE Found(p)

Consumed_Kept(mix) == pending' = mix
Consumed(mix) == pending' = NoMix

(* on_enter of the mixing screen, and _auto_start_from_paint_now.  While   *)
(* there is a session no other is started; the recipe it is on is replaced *)
(* by then, so that its amounts stay.                                      *)
OpenMixing(mix) ==
  /\ loaded' = TRUE /\ screen' = "mixing" /\ Consumed(mix)
  /\ IF mix.grams = 0 \/ session # NoMix
       THEN UNCHANGED <<session, sessions>>
       ELSE /\ \E q \in Expected(mix.product) : session' = [mix EXCEPT !.base = q]
            /\ sessions' = sessions + 1

(* go_screen, when the mixing screen cannot be loaded.                     *)
MixingFails(mix) == /\ ~loaded /\ pending' = mix
                    /\ UNCHANGED <<screen, session, loaded, sessions>>

(* _on_start_mixing.                                                       *)
StartMixing ==
  LET mix == [product |-> quantities.product, base |-> NoProduct,
              grams |-> 13 * quantities.litres, ratio |-> RatioOf(quantities.product),
              told |-> quantities]
  IN /\ screen = "paint_now" /\ OffersStart /\ presses < MaxPresses
     /\ presses' = presses + 1 /\ starts' = starts + 1
     /\ OpenMixing(mix) \/ MixingFails(mix)
     /\ UNCHANGED wizardVars

EnterMixing ==
  /\ screen = "home"
  /\ OpenMixing(pending) \/ MixingFails(pending)
  /\ UNCHANGED <<wizardVars, starts, presses>>

(* The screen is left, backwards or to the home screen: the session is     *)
(* completed or aborted, or stays under way.                               *)
LeaveMixing ==
  /\ screen = "mixing" /\ session' \in {NoMix, session}
  /\ \/ screen' = "home" /\ UNCHANGED <<wizardVars, pending, loaded, starts, sessions, presses>>
     \/ screen' = "paint_now"
        /\ step' = "select_area" /\ area' = NoArea /\ layer' = NoProduct
        /\ m2' = 0 /\ quantities' = NoQuantities
        /\ UNCHANGED <<pending, loaded, starts, sessions, presses>>

Next == \/ EnterPaintNow \/ GoBack \/ StartMixing \/ EnterMixing \/ LeaveMixing
        \/ \E a \in Areas : SelectArea(a)
        \/ \E p \in Products : SelectLayer(p)
        \/ \E surface \in Surfaces : Calculate(surface)

Spec == Init /\ [][Next]_vars

-----------------------------------------------------------------------------
(* What is mixed is what the crew was told last: the paint for the surface *)
(* of the layer on the page, and hardener in its ratio, as far as rounding *)
(* to hundredths of a litre allows.                                        *)
(* The can that is expected is that product's, unless the name is part of  *)
(* another's.  No press of START MIXING makes two sessions.                *)
MixIsAsTold ==
  /\ screen = "paint_now" /\ step = "show_quantities" =>
       quantities = Needed(layer, m2)
  /\ session # NoMix =>
       /\ session.told = Needed(session.product, session.told.surface)
       /\ session.grams = 13 * session.told.litres
       /\ session.product \in DOMAIN Ratio =>
            2 * (session.told.hardener * session.ratio[1] - session.told.litres * session.ratio[2])
              \in -(session.ratio[1] + session.ratio[2]) .. session.ratio[1] + session.ratio[2]
       /\ Alike[session.product] \cap Known \subseteq {session.product}
            => session.base = session.product
  /\ sessions <= starts
=============================================================================
