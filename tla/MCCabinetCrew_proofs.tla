------------------------ MODULE MCCabinetCrew_proofs -------------------------
(***************************************************************************)
(* More about the parts of MCCabinet: those that the crew works with,      *)
(* Paint Now, Kivy's mixing, the screen that loads the shelf, the scanner  *)
(* and what is scanned; and the types of all the parts.                    *)
(***************************************************************************)
EXTENDS MCCabinet_proofs, FiniteSetTheorems

-----------------------------------------------------------------------------
(* Paint Now.  The cells by the names that PaintNow gives them; one that was *)
(* taken has the word paint before it.                                     *)
screen == c1
paintStep == c2
area == c3
layer == c4
m2 == c5
quantities == c6
pending == c7
session == c8
paintLoaded == c9
starts == c10
sessions == c11
presses == c12

USE PaintConstants DEF screen, paintStep, area, layer, m2, quantities, pending, session,
    paintLoaded, starts, sessions, presses, Paint!PaintAssumption

(* What is handed over, or mixed, is what the crew was told.               *)
AsTold(mix) ==
  /\ mix = [product |-> mix.product, base |-> mix.base, grams |-> mix.grams, ratio |-> mix.ratio,
            told |-> mix.told]
  /\ mix.product \in Paints /\ mix.told.surface \in PaintSurfaces
  /\ mix.told = Paint!Needed(mix.product, mix.told.surface)
  /\ mix.grams = 13 * mix.told.litres /\ mix.ratio = Paint!RatioOf(mix.product)

(* The pages that follow a choice have it; a mix that was handed over is   *)
(* still to make its session.                                              *)
WizardHolds ==
  /\ paintStep # "select_area" => area \in Paint!Areas
  /\ paintStep \in {"enter_m2", "show_quantities"} => layer \in Paints
  /\ paintStep = "show_quantities" => m2 \in PaintSurfaces /\ quantities = Paint!Needed(layer, m2)
HandedOver ==
  /\ pending = Paint!NoMix \/ AsTold(pending)
  /\ sessions <= starts /\ (pending.grams # 0 => sessions < starts) /\ starts <= presses
Mixes ==
  \/ session = Paint!NoMix
  \/ /\ AsTold(session)
     /\ session.base \in Paints
     /\ Paint!Found(session.product) \subseteq {session.product}
          => session.base = session.product

PaintInv == Paint!TypeOK /\ WizardHolds /\ HandedOver /\ Mixes

(* Rounding: what is rounded is half a unit off at most.                   *)
LEMMA RoundBounds ==
  ASSUME NEW a \in Nat, NEW b \in Nat \ {0}
  PROVE  /\ Paint!Round(a, b) \in Nat
         /\ 2 * b * Paint!Round(a, b) <= 2 * a + b /\ 2 * a + b < 2 * b * Paint!Round(a, b) + 2 * b
<1> DEFINE n == 2 * a + b
           d == 2 * b
<1>1. n \in Nat /\ d \in Nat \ {0} /\ Paint!Round(a, b) = n \div d
  BY DEF Paint!Round
<1> HIDE DEF n, d
<1>2. n \div d \in Nat /\ d * (n \div d) <= n /\ n < d * (n \div d) + d
  BY <1>1
<1> QED
  BY <1>1, <1>2 DEF n, d

LEMMA MonotoneTimes ==
  ASSUME NEW b \in Nat, NEW x \in Int, NEW y \in Int, x <= y PROVE b * x <= b * y
<1>1. y - x \in Nat
  OBVIOUS
<1>2. b * (y - x) \in Nat
  BY <1>1
<1> QED
  BY <1>2

LEMMA Cancelled ==
  ASSUME NEW c \in Nat \ {0}, NEW x \in Int, NEW y \in Int, c * x <= c * y PROVE x <= y
<1> SUFFICES ASSUME y + 1 <= x PROVE FALSE
  OBVIOUS
<1>1. c * (y + 1) <= c * x
  BY MonotoneTimes
<1>2. c * (y + 1) = c * y + c
  OBVIOUS
<1> QED
  BY <1>1, <1>2

LEMMA RatioKept ==
  ASSUME NEW c \in Nat \ {0}, NEW a \in Nat \ {0}, NEW b \in Nat, NEW s \in Nat
  PROVE  2 * (Paint!Round(s * b, c * a) * a - Paint!Round(s, c) * b) \in -(a + b) .. a + b
<1> DEFINE h == Paint!Round(s * b, c * a)
           q == Paint!Round(s, c)
           z == 2 * (h * a - q * b)
<1>1. q \in Nat /\ 2 * c * q <= 2 * s + c /\ 2 * s + c < 2 * c * q + 2 * c
  BY RoundBounds
<1>2. s * b \in Nat /\ c * a \in Nat \ {0}
  <2>1. s * b \in Nat /\ c * a \in Nat
    OBVIOUS
  <2>2. c * 1 <= c * a
    BY MonotoneTimes
  <2> QED
    BY <2>1, <2>2
<1>3. /\ h \in Nat
      /\ 2 * (c * a) * h <= 2 * (s * b) + c * a
      /\ 2 * (s * b) + c * a < 2 * (c * a) * h + 2 * (c * a)
  BY <1>2, RoundBounds
<1> HIDE DEF h, q
<1>4. b * (2 * c * q) <= b * (2 * s + c)
  BY <1>1, MonotoneTimes
<1>5. b * (2 * s + c) <= b * (2 * c * q + 2 * c)
  BY <1>1, MonotoneTimes
<1>6. z \in Int /\ c * z = 2 * (c * a) * h - b * (2 * c * q)
  BY <1>1, <1>3
<1>7. /\ b * (2 * s + c) = 2 * (s * b) + c * b
      /\ b * (2 * c * q + 2 * c) = b * (2 * c * q) + 2 * (c * b)
      /\ b * (2 * c * q) \in Int /\ c * b \in Int /\ c * a \in Int /\ 2 * (c * a) * h \in Int
  BY <1>1, <1>3
<1>8. c * z <= c * a + c * b /\ -(c * a + c * b) <= c * z
  BY <1>2, <1>3, <1>4, <1>5, <1>6, <1>7
<1>9. c * (a + b) = c * a + c * b /\ c * (-(a + b)) = -(c * a + c * b)
  OBVIOUS
<1>10. z <= a + b /\ -(a + b) <= z
  BY <1>6, <1>8, <1>9, Cancelled
<1> QED
  BY <1>6, <1>10 DEF h, q

LEMMA NeededTypes ==
  ASSUME NEW p \in Paints, NEW s \in PaintSurfaces
  PROVE  /\ Paint!Needed(p, s).product = p /\ Paint!Needed(p, s).surface = s
         /\ Paint!Needed(p, s).litres \in Nat /\ Paint!Needed(p, s) # Paint!NoQuantities
         /\ p \in DOMAIN PaintRatio =>
              2 * (Paint!Needed(p, s).hardener * Paint!RatioOf(p)[1] - Paint!Needed(p,
                  s).litres * Paint!RatioOf(p)[2])
                \in -(Paint!RatioOf(p)[1] + Paint!RatioOf(p)[2]) .. Paint!RatioOf(p)[1] + Paint!RatioOf(p)[2]
<1>1. Paint!CoverageOf(p) \in Nat \ {0}
  BY DEF Paint!CoverageOf
<1>2. /\ Paint!Needed(p, s).product = p /\ Paint!Needed(p, s).surface = s
      /\ Paint!Needed(p, s).litres = Paint!Round(s, Paint!CoverageOf(p))
      /\ p \in DOMAIN PaintRatio =>
           Paint!Needed(p, s).hardener = Paint!Round(s * PaintRatio[p][2],
               Paint!CoverageOf(p) * PaintRatio[p][1])
  BY DEF Paint!Needed
<1>3. Paint!Needed(p, s).litres \in Nat
  BY <1>1, <1>2, RoundBounds
<1>4. Paint!Needed(p, s) # Paint!NoQuantities
  BY <1>2 DEF Paint!NoQuantities
<1>5. ASSUME p \in DOMAIN PaintRatio
      PROVE  2 * (Paint!Needed(p, s).hardener * Paint!RatioOf(p)[1] - Paint!Needed(p,
          s).litres * Paint!RatioOf(p)[2])
               \in -(Paint!RatioOf(p)[1] + Paint!RatioOf(p)[2]) .. Paint!RatioOf(p)[1] + Paint!RatioOf(p)[2]
  <2>1. Paint!RatioOf(p) = PaintRatio[p] /\ PaintRatio[p][1] \in Nat \ {0}
        /\ PaintRatio[p][2] \in Nat
    BY <1>5 DEF Paint!RatioOf
  <2> QED
    BY <1>1, <1>2, <1>5, <2>1, RatioKept
<1> QED
  BY <1>2, <1>3, <1>4, <1>5

LEMMA PaintInit == Paint!Init => PaintInv
<1> SUFFICES ASSUME Paint!Init PROVE PaintInv
  OBVIOUS
<1>1. /\ pending.product = NoProduct /\ session.base = NoProduct /\ quantities.product = NoProduct
      /\ pending.grams = 0
  BY DEF Paint!Init, Paint!NoMix, Paint!NoQuantities
<1>a. starts \in 0 .. MaxPresses /\ sessions \in 0 .. MaxPresses /\ presses \in 0 .. MaxPresses
  BY DEF Paint!Init
<1>2. Paint!TypeOK
  BY <1>1, <1>a DEF Paint!Init, Paint!TypeOK, Paint!Steps
<1>3. HandedOver
  BY <1>1 DEF Paint!Init, HandedOver
<1>4. WizardHolds /\ Mixes
  BY DEF Paint!Init, WizardHolds, Mixes
<1> QED
  BY <1>2, <1>3, <1>4 DEF PaintInv

(* What is handed over is mixed when the mixing screen opens, or kept.     *)
LEMMA OpenKeeps ==
  ASSUME PaintInv, NEW mix, mix = Paint!NoMix \/ AsTold(mix),
         starts' \in 0 .. MaxPresses, starts' <= presses',
         sessions <= starts', mix.grams # 0 => sessions < starts',
         Paint!OpenMixing(mix) \/ Paint!MixingFails(mix)
  PROVE  /\ HandedOver' /\ Mixes'
         /\ pending'.product \in Paints \cup {NoProduct}
         /\ session'.base \in Paints \cup {NoProduct}
         /\ screen' \in {screen, "mixing"} /\ paintLoaded' \in BOOLEAN
         /\ sessions' \in 0 .. MaxPresses
<1>1. /\ sessions \in 0 .. MaxPresses /\ session.base \in Paints \cup {NoProduct} /\ Mixes
      /\ paintLoaded \in BOOLEAN
  BY DEF PaintInv, Paint!TypeOK
<1>2. Paint!NoMix.product = NoProduct /\ Paint!NoMix.grams = 0 /\ Paint!NoMix.base = NoProduct
  BY DEF Paint!NoMix
<1>3. CASE Paint!MixingFails(mix)
  <2>1. pending' = mix /\ UNCHANGED <<screen, session, paintLoaded, sessions>>
    BY <1>3 DEF Paint!MixingFails
  <2>2. HandedOver'
    BY <2>1 DEF HandedOver, AsTold
  <2>3. Mixes'
    BY <1>1, <2>1 DEF Mixes, AsTold
  <2> QED
    BY <1>1, <1>2, <2>1, <2>2, <2>3 DEF AsTold
<1>4. CASE Paint!OpenMixing(mix)
  <2>1. pending' = Paint!NoMix /\ paintLoaded' = TRUE /\ screen' = "mixing"
    BY <1>4 DEF Paint!OpenMixing, Paint!Consumed
  <2>2. CASE mix.grams = 0 \/ session # Paint!NoMix
    <3>1. session' = session /\ sessions' = sessions
      BY <1>4, <2>2 DEF Paint!OpenMixing
    <3>2. sessions' <= starts'
      BY <1>1, <3>1
    <3>3. HandedOver'
      BY <1>2, <2>1, <3>2, <1>1, <3>1 DEF HandedOver
    <3> QED
      BY <1>1, <1>2, <2>1, <3>1, <3>3 DEF Mixes, AsTold
  <2>3. CASE mix.grams # 0 /\ session = Paint!NoMix
    <3>1. PICK q \in Paint!Expected(mix.product) : session' = [mix EXCEPT !.base = q]
      BY <1>4, <2>3 DEF Paint!OpenMixing
    <3>2. sessions' = sessions + 1 /\ AsTold(mix)
      BY <1>2, <1>4, <2>3 DEF Paint!OpenMixing
    <3>3. q \in Paints /\ (Paint!Found(mix.product) \subseteq {mix.product} => q = mix.product)
      BY <3>2 DEF Paint!Expected, Paint!Found, AsTold
    <3>4. /\ session'.product = mix.product /\ session'.base = q /\ session'.grams = mix.grams
          /\ session'.ratio = mix.ratio /\ session'.told = mix.told
          /\ session' = [product |-> mix.product, base |-> q, grams |-> mix.grams,
                         ratio |-> mix.ratio, told |-> mix.told]
      <4>1. [mix EXCEPT !.base = q] = [product |-> mix.product, base |-> q, grams |-> mix.grams,
                                       ratio |-> mix.ratio, told |-> mix.told]
        BY <3>2 DEF AsTold
      <4> QED
        BY <3>1, <4>1
    <3>5. Mixes'
      BY <3>2, <3>3, <3>4 DEF Mixes, AsTold
    <3>6. sessions' <= starts' /\ sessions' \in 0 .. MaxPresses
      BY <1>1, <2>3, <3>2
    <3>7. HandedOver'
      <4>1. pending' = Paint!NoMix /\ pending'.grams = 0
        BY <1>2, <2>1
      <4> QED
        BY <3>6, <4>1 DEF HandedOver
    <3> QED
      BY <1>2, <2>1, <3>3, <3>4, <3>5, <3>6, <3>7
  <2> QED
    BY <2>2, <2>3
<1> QED
  BY <1>3, <1>4

LEMMA PaintStep == PaintInv /\ [Paint!Next]_(Paint!vars) => PaintInv'
<1> SUFFICES ASSUME PaintInv, [Paint!Next]_(Paint!vars) PROVE PaintInv'
  OBVIOUS
<1>0. Paint!TypeOK /\ WizardHolds /\ HandedOver /\ Mixes
  BY DEF PaintInv
<1>1. ASSUME UNCHANGED <<pending, session, paintLoaded, starts, sessions>>,
             screen' \in {"home", "paint_now", "mixing"}, presses' \in 0 .. MaxPresses,
                 presses <= presses',
             paintStep' \in Paint!Steps, area' \in Paint!Areas \cup {Paint!NoArea},
                 layer' \in Paints \cup {NoProduct},
             m2' \in PaintSurfaces \cup {0}, quantities'.product \in Paints \cup {NoProduct},
                 WizardHolds'
      PROVE  PaintInv'
  <2>1. HandedOver' /\ Mixes'
    BY <1>0, <1>1 DEF HandedOver, Mixes, AsTold, Paint!TypeOK
  <2>2. Paint!TypeOK'
    BY <1>0, <1>1 DEF Paint!TypeOK
  <2> QED
    BY <1>1, <2>1, <2>2 DEF PaintInv
<1>2. CASE Paint!EnterPaintNow
  <2>1. quantities'.product = NoProduct
    BY <1>2 DEF Paint!EnterPaintNow, Paint!NoQuantities
  <2> QED
    BY <1>0, <1>1, <1>2, <2>1 DEF Paint!EnterPaintNow, Paint!TypeOK, WizardHolds, Paint!Steps
<1>3. ASSUME NEW a \in Paint!Areas, Paint!SelectArea(a) PROVE PaintInv'
  BY <1>0, <1>1, <1>3
     DEF Paint!SelectArea, Paint!AreasOffered, Paint!TypeOK, WizardHolds, Paint!Steps
<1>4. ASSUME NEW p \in Paints, Paint!SelectLayer(p) PROVE PaintInv'
  BY <1>0, <1>1, <1>4
     DEF Paint!SelectLayer, Paint!LayersOffered, Paint!TypeOK, WizardHolds, Paint!Steps
<1>5. ASSUME NEW surface \in PaintSurfaces, Paint!Calculate(surface) PROVE PaintInv'
  <2>1. layer \in Paints /\ area \in Paint!Areas /\ screen = "paint_now" /\ paintStep = "enter_m2"
    BY <1>0, <1>5 DEF Paint!Calculate, Paint!AsksSurface, WizardHolds
  <2>2. UNCHANGED <<screen, area, layer, pending, session, paintLoaded, starts, sessions>>
        /\ m2' = surface
    BY <1>5 DEF Paint!Calculate
  <2>3. presses' \in 0 .. MaxPresses /\ presses <= presses'
    BY <1>0, <1>5 DEF Paint!Calculate, Paint!TypeOK
  <2>4. \/ UNCHANGED <<paintStep, quantities>>
        \/ quantities' = Paint!Needed(layer, surface) /\ paintStep' = "show_quantities"
    BY <1>5 DEF Paint!Calculate, Paint!Calculated
  <2>5. quantities'.product \in Paints \cup {NoProduct}
    BY <1>0, <2>1, <2>4, NeededTypes DEF Paint!TypeOK
  <2>6. WizardHolds'
    BY <1>0, <2>1, <2>2, <2>4 DEF WizardHolds
  <2>7. paintStep' \in Paint!Steps
    BY <2>1, <2>4 DEF Paint!Steps
  <2> QED
    BY <1>0, <1>1, <2>1, <2>2, <2>3, <2>5, <2>6, <2>7 DEF Paint!TypeOK
<1>6. CASE Paint!GoBack
  <2>1. \/ paintStep' = paintStep /\ screen' = "home" /\ paintStep = "select_area"
        \/ paintStep # "select_area" /\ paintStep' = Paint!Before[paintStep] /\ screen' = screen
    BY <1>6 DEF Paint!GoBack
  <2>2. paintStep = "enter_m2" => Paint!Before[paintStep] = "view_layers"
    BY DEF Paint!Before
  <2>3. paintStep = "show_quantities" => Paint!Before[paintStep] = "enter_m2"
    BY DEF Paint!Before
  <2>4. paintStep = "view_layers" => Paint!Before[paintStep] = "select_area"
    BY DEF Paint!Before
  <2>5. paintStep' \in Paint!Steps /\ screen' \in {"home", "paint_now", "mixing"}
        /\ paintStep' # "show_quantities"
    BY <1>0, <2>1, <2>2, <2>3, <2>4 DEF Paint!TypeOK, Paint!Steps
  <2>6. UNCHANGED <<area, layer, m2, quantities, pending, session, paintLoaded, starts, sessions,
      presses>>
    BY <1>6 DEF Paint!GoBack
  <2>7. WizardHolds'
    BY <1>0, <2>1, <2>2, <2>3, <2>4, <2>5, <2>6 DEF WizardHolds, Paint!TypeOK, Paint!Steps
  <2> QED
    BY <1>0, <1>1, <2>5, <2>6, <2>7 DEF Paint!TypeOK
<1>7. CASE Paint!StartMixing
  <2> DEFINE mix == [product |-> quantities.product, base |-> NoProduct,
                     grams |-> 13 * quantities.litres, ratio |-> Paint!RatioOf(quantities.product),
                     told |-> quantities]
  <2>1. /\ paintStep = "show_quantities" /\ presses < MaxPresses /\ presses' = presses + 1
        /\ starts' = starts + 1 /\ (Paint!OpenMixing(mix) \/ Paint!MixingFails(mix))
        /\ UNCHANGED Paint!wizardVars
        /\ screen = "paint_now"
    BY <1>7 DEF Paint!StartMixing, Paint!OffersStart
  <2>2. layer \in Paints /\ m2 \in PaintSurfaces /\ quantities = Paint!Needed(layer, m2)
    BY <1>0, <2>1 DEF WizardHolds
  <2>3. quantities.product = layer /\ quantities.surface = m2 /\ quantities.litres \in Nat
    BY <2>2, NeededTypes
  <2>4. AsTold(mix)
    BY <2>2, <2>3 DEF AsTold
  <2>5. /\ starts' \in 0 .. MaxPresses /\ starts' <= presses' /\ presses' \in 0 .. MaxPresses
        /\ sessions <= starts' /\ (mix.grams # 0 => sessions < starts')
    BY <1>0, <2>1 DEF Paint!TypeOK, HandedOver
  <2> HIDE DEF mix
  <2>6. /\ HandedOver' /\ Mixes' /\ pending'.product \in Paints \cup {NoProduct}
        /\ session'.base \in Paints \cup {NoProduct} /\ screen' \in {screen, "mixing"}
        /\ paintLoaded' \in BOOLEAN /\ sessions' \in 0 .. MaxPresses
    BY <2>1, <2>4, <2>5, OpenKeeps
  <2>7. Paint!TypeOK'
    BY <1>0, <2>1, <2>5, <2>6 DEF Paint!TypeOK, Paint!wizardVars
  <2>8. WizardHolds'
    BY <1>0, <2>1 DEF WizardHolds, Paint!wizardVars
  <2> QED
    BY <2>6, <2>7, <2>8 DEF PaintInv
<1>8. CASE Paint!EnterMixing
  <2>1. /\ screen = "home" /\ (Paint!OpenMixing(pending) \/ Paint!MixingFails(pending))
        /\ UNCHANGED <<Paint!wizardVars, starts, presses>>
    BY <1>8 DEF Paint!EnterMixing
  <2>2. /\ starts' \in 0 .. MaxPresses /\ starts' <= presses'
        /\ sessions <= starts' /\ (pending.grams # 0 => sessions < starts')
        /\ pending = Paint!NoMix \/ AsTold(pending)
    BY <1>0, <2>1 DEF Paint!TypeOK, HandedOver
  <2>6. /\ HandedOver' /\ Mixes' /\ pending'.product \in Paints \cup {NoProduct}
        /\ session'.base \in Paints \cup {NoProduct} /\ screen' \in {screen, "mixing"}
        /\ paintLoaded' \in BOOLEAN /\ sessions' \in 0 .. MaxPresses
    BY <2>1, <2>2, OpenKeeps
  <2>7. Paint!TypeOK'
    BY <1>0, <2>1, <2>6 DEF Paint!TypeOK, Paint!wizardVars
  <2>8. WizardHolds'
    BY <1>0, <2>1 DEF WizardHolds, Paint!wizardVars
  <2> QED
    BY <2>6, <2>7, <2>8 DEF PaintInv
<1>9. CASE Paint!LeaveMixing
  <2>1. /\ session' \in {Paint!NoMix, session} /\ screen' \in {"home", "paint_now"}
        /\ UNCHANGED <<pending, paintLoaded, starts, sessions, presses>>
        /\ \/ UNCHANGED Paint!wizardVars
           \/ /\ paintStep' = "select_area" /\ area' = Paint!NoArea /\ layer' = NoProduct
              /\ m2' = 0 /\ quantities' = Paint!NoQuantities
    BY <1>9 DEF Paint!LeaveMixing
  <2>2. HandedOver'
    BY <1>0, <2>1 DEF HandedOver, AsTold
  <2>3. Mixes' /\ session'.base \in Paints \cup {NoProduct}
    BY <1>0, <2>1 DEF Mixes, AsTold, Paint!NoMix
  <2>4. WizardHolds'
    BY <1>0, <2>1 DEF WizardHolds, Paint!wizardVars
  <2>5. Paint!TypeOK'
    <3>1. CASE UNCHANGED Paint!wizardVars
      BY <1>0, <2>1, <2>3, <3>1 DEF Paint!TypeOK, Paint!wizardVars
    <3>2. CASE /\ paintStep' = "select_area" /\ area' = Paint!NoArea /\ layer' = NoProduct
               /\ m2' = 0 /\ quantities' = Paint!NoQuantities
      BY <1>0, <2>1, <2>3, <3>2 DEF Paint!TypeOK, Paint!Steps, Paint!NoQuantities
    <3> QED
      BY <2>1, <3>1, <3>2
  <2> QED
    BY <2>2, <2>3, <2>4, <2>5 DEF PaintInv
<1>10. CASE UNCHANGED Paint!vars
  BY <1>0, <1>1, <1>10 DEF Paint!vars, Paint!wizardVars, Paint!TypeOK, WizardHolds
<1> QED
  BY <1>2, <1>3, <1>4, <1>5, <1>6, <1>7, <1>8, <1>9, <1>10 DEF Paint!Next

LEMMA PaintShows == PaintInv => Paint!MixIsAsTold
<1> SUFFICES ASSUME PaintInv PROVE Paint!MixIsAsTold
  OBVIOUS
<1>1. paintStep = "show_quantities" => quantities = Paint!Needed(layer, m2)
  BY DEF PaintInv, WizardHolds
<1>2. sessions <= starts
  BY DEF PaintInv, HandedOver, Paint!TypeOK
<1>3. ASSUME session # Paint!NoMix
      PROVE  /\ session.told = Paint!Needed(session.product, session.told.surface)
             /\ session.grams = 13 * session.told.litres
             /\ session.product \in DOMAIN PaintRatio =>
                  2 * (session.told.hardener * session.ratio[1] - session.told.litres * session.ratio[2])
                    \in -(session.ratio[1] + session.ratio[2]) .. session.ratio[1] + session.ratio[2]
             /\ PaintsAlike[session.product] \cap KnownPaints \subseteq {session.product}
                  => session.base = session.product
  <2>1. /\ AsTold(session)
        /\ Paint!Found(session.product) \subseteq {session.product}
            => session.base = session.product
    BY <1>3 DEF PaintInv, Mixes
  <2>2. /\ session.product \in Paints /\ session.told.surface \in PaintSurfaces
        /\ session.told = Paint!Needed(session.product, session.told.surface)
        /\ session.grams = 13 * session.told.litres
        /\ session.ratio = Paint!RatioOf(session.product)
    BY <2>1 DEF AsTold
  <2>3. session.product \in DOMAIN PaintRatio =>
          2 * (session.told.hardener * session.ratio[1] - session.told.litres * session.ratio[2])
            \in -(session.ratio[1] + session.ratio[2]) .. session.ratio[1] + session.ratio[2]
    BY <2>2, NeededTypes
  <2> QED
    BY <2>1, <2>2, <2>3 DEF Paint!Found
<1> QED
  BY <1>1, <1>2, <1>3 DEF Paint!MixIsAsTold

HIDE PaintConstants DEF screen, paintStep, area, layer, m2, quantities, pending, session,
    paintLoaded, starts, sessions, presses, Paint!PaintAssumption

LEMMA PaintInvariant == CabinetSpec => [](focus = "paint" => PaintInv)
<1>1. CabinetInit => (focus = "paint" => PaintInv)
  BY PaintInit DEF CabinetInit
<1>2. (focus = "paint" => PaintInv) /\ [CabinetNext]_cells => (focus = "paint" => PaintInv)'
  <2>1. [CabinetNext]_cells /\ focus = "paint" => [Paint!Next]_(Paint!vars)
    BY DEF CabinetNext, cells, Paint!vars, Paint!wizardVars
  <2> QED
    BY <2>1, PaintStep, FocusStays
<1> QED
  BY <1>1, <1>2, PTL DEF CabinetSpec

-----------------------------------------------------------------------------
(* Mixing with Kivy.  The cells by the names that KivyMixing gives them; one *)
(* that was taken has the word kivy before it.                             *)
mode == c1
kivyScreen == c2
kivyStep == c3
kivyLayer == c4
kivyM2 == c5
calc == c6
ctx == c7
kivyState == c8
job == c9
active == c10
shelf == c11
kivyShown == c12
kivyPage == c13
weighing == c14
kivyChosen == c15
late == c16
hasty == c17
kivySessions == c18

USE KivyConstants DEF mode, kivyScreen, kivyStep, kivyLayer, kivyM2, calc, ctx, kivyState, job,
    active, shelf, kivyShown, kivyPage, weighing, kivyChosen, late, hasty, kivySessions,
    Kivy!KivyAssumption

(* The page is of the state that was looked at, which an idle engine does  *)
(* not leave unseen.                                                       *)
PageFollows ==
  /\ kivyShown # Kivy!None => kivyPage = Kivy!PageOf(kivyShown, weighing)
  /\ kivyShown = "idle" => kivyState = "idle"

(* Thinner is weighed in this session only: a session starts from a page   *)
(* on which none is.                                                       *)
ThinnerChosen ==
  /\ weighing \/ kivyPage = "thinner_weigh" => kivyChosen
  /\ kivyPage \in {"idle", "error"} => ~weighing

(* How far the engine may be ahead of a page whose buttons move it from    *)
(* any state.                                                              *)
PageLags ==
  /\ kivyPage = "select_product" => kivyState \in {"idle", "select_product", "show_recipe"}
  /\ kivyPage = "pot_life_active" => kivyState \in {"idle", "pot_life_active", "return_cans"}
  /\ kivyPage = "return_cans" => kivyState \in {"idle", "return_cans"}

(* A late return completes the session whose cans came back, or one that   *)
(* was started after that was completed by hand.                           *)
LateIsTold == late > 0 => hasty \/ kivyState = "return_cans"

(* The amount is of the product, all the way from the surface.             *)
AmountsHold ==
  /\ kivyStep # "view_layers" => kivyLayer \in Kivy!Charted
  /\ kivyStep = "show_quantities" => calc = <<kivyLayer, kivyM2>>
  /\ ctx.target # Kivy!NoCalc => ctx.target[1] = ctx.product
  /\ job = [product |-> job.product, target |-> job.target, told |-> job.told]
  /\ kivyState # "idle" /\ (kivyState = "select_product" \/ kivyPage = "select_product")
      => job.told = Kivy!NoCalc
  /\ kivyState \notin {"idle", "select_product"} /\ job.told # Kivy!NoCalc => job.target = job.told

KivyInv ==
  /\ Kivy!TypeOK /\ (active <=> kivyState # "idle")
  /\ PageFollows /\ ThinnerChosen /\ PageLags /\ LateIsTold /\ AmountsHold

LEMMA KivyNames ==
  /\ Kivy!Pick["base"] = "pick_base" /\ Kivy!Pick["hardener"] = "pick_hardener"
  /\ Kivy!Weigh["base"] = "weigh_base" /\ Kivy!Weigh["hardener"] = "weigh_hardener"
  /\ Kivy!Return["base"] = "return_base" /\ Kivy!Return["hardener"] = "return_hardener"
  /\ Kivy!States = {"idle", "select_product", "show_recipe", "confirm_mix", "add_thinner",
               "pot_life_active", "return_cans", "pick_base", "pick_hardener", "weigh_base",
               "weigh_hardener", "return_base", "return_hardener"}
<1>1. /\ Kivy!Pick["base"] = "pick_base" /\ Kivy!Pick["hardener"] = "pick_hardener"
      /\ Kivy!Weigh["base"] = "weigh_base" /\ Kivy!Weigh["hardener"] = "weigh_hardener"
      /\ Kivy!Return["base"] = "return_base" /\ Kivy!Return["hardener"] = "return_hardener"
  BY DEF Kivy!Pick, Kivy!Weigh, Kivy!Return
<1> QED
  BY <1>1 DEF Kivy!States, Kivy!Cans

(* The page on which a button is.                                          *)
LEMMA ButtonPages ==
  /\ Kivy!Pressed("start") => kivyPage \in {"idle", "error"}
  /\ Kivy!Pressed("amount") => kivyPage = "select_product"
  /\ Kivy!Pressed("confirm_recipe") => kivyPage = "show_recipe"
  /\ Kivy!Pressed("confirm_mix") => kivyPage = "confirm_mix"
  /\ Kivy!Pressed("method") \/ Kivy!Pressed("skip") => kivyPage = "add_thinner"
  /\ Kivy!Pressed("cancel_thinner") \/ Kivy!Pressed("confirm_thinner")
      => kivyPage = "thinner_weigh"
  /\ Kivy!Pressed("return_cans") => kivyPage = "pot_life_active"
  /\ Kivy!Pressed("complete") \/ Kivy!Pressed("simulate_return") => kivyPage = "return_cans"
  /\ Kivy!Pressed("simulate_return") => late = 0
<1>1. ASSUME kivyPage \notin {"idle", "error", "select_product", "show_recipe", "pick_base",
                          "pick_hardener", "weigh_base", "weigh_hardener", "confirm_mix",
                          "add_thinner", "thinner_weigh", "pot_life_active", "return_cans"}
      PROVE  Kivy!Buttons = {}
  BY <1>1, KivyNames DEF Kivy!Buttons, Kivy!Cans
<1>2. /\ kivyPage = "idle" => Kivy!Buttons = Kivy!IdlePage
      /\ kivyPage = "error" => Kivy!Buttons = Kivy!ErrorPage
      /\ kivyPage = "select_product" => Kivy!Buttons = Kivy!SelectPage
      /\ kivyPage = "show_recipe" => Kivy!Buttons = Kivy!RecipePage
  BY KivyNames DEF Kivy!Buttons, Kivy!Cans
<1>3. /\ kivyPage \in {"pick_base", "pick_hardener"} => Kivy!Buttons = Kivy!PickPage
      /\ kivyPage = "weigh_base" => Kivy!Buttons = Kivy!WeighPage("base")
      /\ kivyPage = "weigh_hardener" => Kivy!Buttons = Kivy!WeighPage("hardener")
      /\ kivyPage = "confirm_mix" => Kivy!Buttons = Kivy!ConfirmPage
  BY KivyNames DEF Kivy!Buttons, Kivy!Cans
<1>4. /\ kivyPage = "add_thinner" => Kivy!Buttons = Kivy!ThinnerPage
      /\ kivyPage = "thinner_weigh" => Kivy!Buttons = Kivy!ThinnerWeighPage
      /\ kivyPage = "pot_life_active" => Kivy!Buttons = Kivy!PotLifePage
      /\ kivyPage = "return_cans" => Kivy!Buttons = Kivy!ReturnCansPage
  BY KivyNames DEF Kivy!Buttons, Kivy!Cans
<1> QED
  BY <1>1, <1>2, <1>3, <1>4
     DEF Kivy!Pressed, Kivy!IdlePage, Kivy!ErrorPage, Kivy!SelectPage, Kivy!RecipePage,
         Kivy!PickPage,
     Kivy!WeighPage, Kivy!ConfirmPage, Kivy!ThinnerPage, Kivy!ThinnerWeighPage, Kivy!PotLifePage,
         Kivy!ReturnCansPage

LEMMA KivyInit == Kivy!Init => KivyInv
<1> SUFFICES ASSUME Kivy!Init PROVE KivyInv
  OBVIOUS
<1>1. late \in 0 .. 1 /\ kivySessions \in 0 .. KivySessions /\ late = 0
  BY DEF Kivy!Init
<1>2. ctx.product = Kivy!None /\ ctx.target = Kivy!NoCalc /\ job.told = Kivy!NoCalc
      /\ job = [product |-> job.product, target |-> job.target, told |-> job.told]
  BY DEF Kivy!Init, Kivy!NoContext, Kivy!NoJob
<1>3. Kivy!TypeOK
  BY <1>1, <1>2, KivyNames DEF Kivy!Init, Kivy!TypeOK
<1>4. PageFollows /\ ThinnerChosen /\ PageLags /\ (active <=> kivyState # "idle")
  BY DEF Kivy!Init, PageFollows, ThinnerChosen, PageLags
<1>5. LateIsTold /\ AmountsHold
  BY <1>1, <1>2 DEF Kivy!Init, LateIsTold, AmountsHold
<1> QED
  BY <1>3, <1>4, <1>5 DEF KivyInv

(* PageOf, taken apart.                                                    *)
LEMMA PageOfStates ==
  ASSUME NEW s \in Kivy!States, NEW w \in BOOLEAN
  PROVE  /\ Kivy!PageOf(s, w) \in {"idle", "error"} => s = "idle"
         /\ Kivy!PageOf(s, w) = "thinner_weigh" => w
         /\ \A p \in {"select_product", "pot_life_active", "return_cans"} : Kivy!PageOf(s,
                    w) = p => s = p
         /\ Kivy!PageOf("idle", w) = "idle"
BY KivyNames DEF Kivy!PageOf, Kivy!Cans

(* A page that is looked at anew, or is left as it is.                     *)
LEMMA RefreshedKeeps ==
  ASSUME KivyInv, NEW past, Kivy!Refreshed(past), past \in {kivyShown, Kivy!None},
         kivyState' = kivyState, kivyChosen' = kivyChosen,
         job' = job
  PROVE  /\ kivyShown' \in Kivy!States \cup {Kivy!None} /\ weighing' \in BOOLEAN
         /\ PageFollows' /\ ThinnerChosen' /\ PageLags'
         /\ (kivyState # "idle" /\ (kivyState = "select_product"
                    \/ kivyPage = "select_product") => job.told = Kivy!NoCalc)'
<1>1. kivyState \in Kivy!States /\ weighing \in BOOLEAN
      /\ kivyShown \in Kivy!States \cup {Kivy!None} /\ Kivy!WeighingOn \in BOOLEAN
  BY DEF KivyInv, Kivy!TypeOK, Kivy!WeighingOn
<1>2. CASE kivyState = past
  <2>1. kivyShown' = kivyShown /\ kivyPage' = kivyPage /\ weighing' = weighing
    BY <1>2 DEF Kivy!Refreshed, Kivy!pageVars
  <2> QED
    BY <1>1, <2>1 DEF KivyInv, PageFollows, ThinnerChosen, PageLags, AmountsHold
<1>3. CASE kivyState # past
  <2>1. kivyShown' = kivyState /\ weighing' = Kivy!WeighingOn
        /\ kivyPage' = Kivy!PageOf(kivyState, Kivy!WeighingOn)
    BY <1>3 DEF Kivy!Refreshed
  <2>2. Kivy!WeighingOn => weighing /\ kivyState = "add_thinner"
    BY DEF Kivy!WeighingOn
  <2>3. PageFollows' /\ kivyShown' \in Kivy!States \cup {Kivy!None} /\ weighing' \in BOOLEAN
    BY <1>1, <2>1 DEF PageFollows
  <2>4. /\ kivyPage' \in {"idle", "error"} => kivyState = "idle"
        /\ kivyPage' = "thinner_weigh" => Kivy!WeighingOn
        /\ \A p \in {"select_product", "pot_life_active", "return_cans"} : kivyPage' = p
            => kivyState = p
    BY <1>1, <2>1, PageOfStates
  <2>5. ThinnerChosen' /\ PageLags'
    BY <2>1, <2>2, <2>4 DEF KivyInv, ThinnerChosen, PageLags
  <2>6. (kivyState # "idle" /\ (kivyState = "select_product"
             \/ kivyPage = "select_product") => job.told = Kivy!NoCalc)'
    BY <2>4 DEF KivyInv, AmountsHold
  <2> QED
    BY <2>3, <2>5, <2>6
<1> QED
  BY <1>2, <1>3

(* The actions, one by one.                                                *)
LEMMA KivyStartMix ==
  ASSUME KivyInv, Kivy!StartMix PROVE KivyInv'
<1> USE KivyNames, ButtonPages, PageOfStates
<1>1. Kivy!TypeOK'
  <2>1. late' \in 0 .. 1 /\ kivySessions' \in 0 .. KivySessions
    BY DEF KivyInv, Kivy!TypeOK, Kivy!wizardVars, Kivy!engineVars, Kivy!pageVars, Kivy!testVars,
           Kivy!StartMix, Kivy!NoJob
  <2>2. ctx'.product \in Kivy!Charted \cup {Kivy!None}
    BY DEF KivyInv, Kivy!TypeOK, Kivy!wizardVars, Kivy!engineVars, Kivy!pageVars, Kivy!testVars,
           Kivy!StartMix, Kivy!NoJob
  <2>3. /\ (mode \in {"test", "live"} /\ kivyScreen \in {"other", "paint_now", "mixing"})'
        /\ (kivyStep \in {"view_layers", "enter_m2", "show_quantities"})'
        /\ (kivyLayer \in Kivy!Charted \cup {Kivy!None} /\ kivyM2 \in KivySurfaces \cup {0})'
    BY DEF KivyInv, Kivy!TypeOK, Kivy!wizardVars, Kivy!engineVars, Kivy!pageVars, Kivy!testVars,
           Kivy!StartMix, Kivy!NoJob
  <2>4. (calc \in {Kivy!NoCalc} \cup (Kivy!Charted \X KivySurfaces))'
    BY DEF KivyInv, Kivy!TypeOK, Kivy!wizardVars, Kivy!engineVars, Kivy!pageVars, Kivy!testVars,
           Kivy!StartMix, Kivy!NoJob
  <2>5. /\ (kivyState \in Kivy!States /\ active \in BOOLEAN /\ shelf \subseteq Kivy!Cans)'
        /\ (kivyShown \in Kivy!States
                   \cup {Kivy!None} /\ weighing \in BOOLEAN /\ kivyChosen \in BOOLEAN)'
    BY DEF KivyInv, Kivy!TypeOK, Kivy!wizardVars, Kivy!engineVars, Kivy!pageVars, Kivy!testVars,
           Kivy!StartMix, Kivy!NoJob
  <2>6. hasty' \in BOOLEAN
    BY DEF KivyInv, Kivy!TypeOK, Kivy!testVars, Kivy!StartMix
  <2> QED
    BY <2>1, <2>2, <2>3, <2>4, <2>5, <2>6 DEF Kivy!TypeOK
<1>2. (active <=> kivyState # "idle")'
  BY DEF KivyInv, Kivy!TypeOK, Kivy!wizardVars, Kivy!engineVars, Kivy!pageVars, Kivy!testVars,
         Kivy!StartMix, Kivy!NoJob
<1>3. PageFollows'
  <2>1. CASE kivyState = "idle"
    BY <2>1 DEF KivyInv, PageFollows, Kivy!None, Kivy!pageVars, Kivy!StartMix
  <2>2. CASE kivyState # "idle"
    <3>1. kivyShown = Kivy!None
      BY <2>2 DEF KivyInv, Kivy!TypeOK, PageFollows, Kivy!StartMix
    <3> QED
      BY <2>2, <3>1 DEF Kivy!None, PageFollows, Kivy!StartMix
  <2> QED
    BY <2>1, <2>2
<1>4. ThinnerChosen'
  BY DEF KivyInv, Kivy!TypeOK, ThinnerChosen, Kivy!wizardVars, Kivy!engineVars, Kivy!pageVars,
         Kivy!testVars, Kivy!StartMix, Kivy!NoJob
<1>5. PageLags' /\ LateIsTold'
  BY DEF KivyInv, Kivy!TypeOK, PageLags, LateIsTold, Kivy!wizardVars, Kivy!engineVars,
         Kivy!pageVars, Kivy!testVars, Kivy!StartMix, Kivy!NoJob
<1>6. AmountsHold'
  BY DEF KivyInv, Kivy!TypeOK, PageLags, AmountsHold, Kivy!wizardVars, Kivy!engineVars,
         Kivy!pageVars, Kivy!testVars, Kivy!StartMix, Kivy!NoJob
<1> QED
  BY <1>1, <1>2, <1>3, <1>4, <1>5, <1>6 DEF KivyInv

LEMMA KivySelectAmount ==
  ASSUME KivyInv, Kivy!SelectAmount PROVE KivyInv'
<1> USE KivyNames, ButtonPages
<1>1. Kivy!TypeOK'
  BY DEF KivyInv, Kivy!TypeOK, Kivy!wizardVars, Kivy!engineVars, Kivy!pageVars, Kivy!testVars,
         Kivy!SelectAmount
<1>2. (active <=> kivyState # "idle")'
  BY DEF KivyInv, Kivy!TypeOK, Kivy!wizardVars, Kivy!engineVars, Kivy!pageVars, Kivy!testVars,
         Kivy!SelectAmount
<1>3. PageFollows'
  BY DEF KivyInv, PageFollows, Kivy!None, Kivy!wizardVars, Kivy!engineVars, Kivy!pageVars,
         Kivy!testVars, Kivy!SelectAmount
<1>4. ThinnerChosen'
  BY DEF KivyInv, Kivy!TypeOK, ThinnerChosen, Kivy!wizardVars, Kivy!engineVars, Kivy!pageVars,
         Kivy!testVars, Kivy!SelectAmount
<1>5. PageLags' /\ LateIsTold'
  BY DEF KivyInv, Kivy!TypeOK, PageLags, LateIsTold, Kivy!wizardVars, Kivy!engineVars,
         Kivy!pageVars, Kivy!testVars, Kivy!SelectAmount
<1>6. AmountsHold'
  BY DEF KivyInv, Kivy!TypeOK, PageLags, AmountsHold, Kivy!wizardVars, Kivy!engineVars,
         Kivy!pageVars, Kivy!testVars, Kivy!SelectAmount
<1> QED
  BY <1>1, <1>2, <1>3, <1>4, <1>5, <1>6 DEF KivyInv

LEMMA KivyConfirmRecipe ==
  ASSUME KivyInv, Kivy!ConfirmRecipe PROVE KivyInv'
<1> USE KivyNames, ButtonPages
<1>1. Kivy!TypeOK'
  BY DEF KivyInv, Kivy!TypeOK, Kivy!wizardVars, Kivy!engineVars, Kivy!pageVars, Kivy!testVars,
         Kivy!Step, Kivy!ConfirmRecipe
<1>2. (active <=> kivyState # "idle")'
  BY DEF KivyInv, Kivy!TypeOK, Kivy!wizardVars, Kivy!engineVars, Kivy!pageVars, Kivy!testVars,
         Kivy!Step, Kivy!ConfirmRecipe
<1>3. PageFollows'
  BY DEF KivyInv, PageFollows, Kivy!None, Kivy!wizardVars, Kivy!engineVars, Kivy!pageVars,
         Kivy!testVars, Kivy!Step, Kivy!ConfirmRecipe
<1>4. ThinnerChosen'
  BY DEF KivyInv, Kivy!TypeOK, ThinnerChosen, Kivy!wizardVars, Kivy!engineVars, Kivy!pageVars,
         Kivy!testVars, Kivy!Step, Kivy!ConfirmRecipe
<1>5. PageLags' /\ LateIsTold'
  BY DEF KivyInv, Kivy!TypeOK, PageLags, LateIsTold, Kivy!wizardVars, Kivy!engineVars,
         Kivy!pageVars, Kivy!testVars, Kivy!Step, Kivy!ConfirmRecipe
<1>6. AmountsHold'
  BY DEF KivyInv, Kivy!TypeOK, PageLags, AmountsHold, Kivy!wizardVars, Kivy!engineVars,
         Kivy!pageVars, Kivy!testVars, Kivy!Step, Kivy!ConfirmRecipe
<1> QED
  BY <1>1, <1>2, <1>3, <1>4, <1>5, <1>6 DEF KivyInv

LEMMA KivyConfirmMix ==
  ASSUME KivyInv, Kivy!ConfirmMix PROVE KivyInv'
<1> USE KivyNames, ButtonPages
<1>1. Kivy!TypeOK'
  BY DEF KivyInv, Kivy!TypeOK, Kivy!wizardVars, Kivy!engineVars, Kivy!pageVars, Kivy!testVars,
         Kivy!Step, Kivy!ConfirmMix
<1>2. (active <=> kivyState # "idle")'
  BY DEF KivyInv, Kivy!TypeOK, Kivy!wizardVars, Kivy!engineVars, Kivy!pageVars, Kivy!testVars,
         Kivy!Step, Kivy!ConfirmMix
<1>3. PageFollows'
  BY DEF KivyInv, PageFollows, Kivy!None, Kivy!wizardVars, Kivy!engineVars, Kivy!pageVars,
         Kivy!testVars, Kivy!Step, Kivy!ConfirmMix
<1>4. ThinnerChosen'
  BY DEF KivyInv, Kivy!TypeOK, ThinnerChosen, Kivy!wizardVars, Kivy!engineVars, Kivy!pageVars,
         Kivy!testVars, Kivy!Step, Kivy!ConfirmMix
<1>5. PageLags' /\ LateIsTold'
  BY DEF KivyInv, Kivy!TypeOK, PageLags, LateIsTold, Kivy!wizardVars, Kivy!engineVars,
         Kivy!pageVars, Kivy!testVars, Kivy!Step, Kivy!ConfirmMix
<1>6. AmountsHold'
  BY DEF KivyInv, Kivy!TypeOK, PageLags, AmountsHold, Kivy!wizardVars, Kivy!engineVars,
         Kivy!pageVars, Kivy!testVars, Kivy!Step, Kivy!ConfirmMix
<1> QED
  BY <1>1, <1>2, <1>3, <1>4, <1>5, <1>6 DEF KivyInv

LEMMA KivyChooseMethod ==
  ASSUME KivyInv, Kivy!ChooseMethod PROVE KivyInv'
<1> USE KivyNames, ButtonPages
<1>1. Kivy!TypeOK'
  BY DEF KivyInv, Kivy!TypeOK, Kivy!wizardVars, Kivy!engineVars, Kivy!pageVars, Kivy!testVars,
         Kivy!Step, Kivy!ChooseMethod
<1>2. (active <=> kivyState # "idle")'
  BY DEF KivyInv, Kivy!TypeOK, Kivy!wizardVars, Kivy!engineVars, Kivy!pageVars, Kivy!testVars,
         Kivy!Step, Kivy!ChooseMethod
<1>3. PageFollows'
  BY DEF KivyInv, PageFollows, Kivy!None, Kivy!wizardVars, Kivy!engineVars, Kivy!pageVars,
         Kivy!testVars, Kivy!Step, Kivy!ChooseMethod
<1>4. ThinnerChosen'
  BY DEF KivyInv, Kivy!TypeOK, ThinnerChosen, Kivy!wizardVars, Kivy!engineVars, Kivy!pageVars,
         Kivy!testVars, Kivy!Step, Kivy!ChooseMethod
<1>5. PageLags' /\ LateIsTold'
  BY DEF KivyInv, Kivy!TypeOK, PageLags, LateIsTold, Kivy!wizardVars, Kivy!engineVars,
         Kivy!pageVars, Kivy!testVars, Kivy!Step, Kivy!ChooseMethod
<1>6. AmountsHold'
  BY DEF KivyInv, Kivy!TypeOK, PageLags, AmountsHold, Kivy!wizardVars, Kivy!engineVars,
         Kivy!pageVars, Kivy!testVars, Kivy!Step, Kivy!ChooseMethod
<1> QED
  BY <1>1, <1>2, <1>3, <1>4, <1>5, <1>6 DEF KivyInv

LEMMA KivySkipThinner ==
  ASSUME KivyInv, Kivy!SkipThinner PROVE KivyInv'
<1> USE KivyNames, ButtonPages
<1>1. Kivy!TypeOK'
  BY DEF KivyInv, Kivy!TypeOK, Kivy!wizardVars, Kivy!engineVars, Kivy!pageVars, Kivy!testVars,
         Kivy!Step, Kivy!SkipThinner
<1>2. (active <=> kivyState # "idle")'
  BY DEF KivyInv, Kivy!TypeOK, Kivy!wizardVars, Kivy!engineVars, Kivy!pageVars, Kivy!testVars,
         Kivy!Step, Kivy!SkipThinner
<1>3. PageFollows'
  BY DEF KivyInv, PageFollows, Kivy!None, Kivy!wizardVars, Kivy!engineVars, Kivy!pageVars,
         Kivy!testVars, Kivy!Step, Kivy!SkipThinner
<1>4. ThinnerChosen'
  BY DEF KivyInv, Kivy!TypeOK, ThinnerChosen, Kivy!wizardVars, Kivy!engineVars, Kivy!pageVars,
         Kivy!testVars, Kivy!Step, Kivy!SkipThinner
<1>5. PageLags' /\ LateIsTold'
  BY DEF KivyInv, Kivy!TypeOK, PageLags, LateIsTold, Kivy!wizardVars, Kivy!engineVars,
         Kivy!pageVars, Kivy!testVars, Kivy!Step, Kivy!SkipThinner
<1>6. AmountsHold'
  BY DEF KivyInv, Kivy!TypeOK, PageLags, AmountsHold, Kivy!wizardVars, Kivy!engineVars,
         Kivy!pageVars, Kivy!testVars, Kivy!Step, Kivy!SkipThinner
<1> QED
  BY <1>1, <1>2, <1>3, <1>4, <1>5, <1>6 DEF KivyInv

LEMMA KivyConfirmThinner ==
  ASSUME KivyInv, Kivy!ConfirmThinner PROVE KivyInv'
<1> USE KivyNames, ButtonPages
<1>1. Kivy!TypeOK'
  BY DEF KivyInv, Kivy!TypeOK, Kivy!wizardVars, Kivy!engineVars, Kivy!pageVars, Kivy!testVars,
         Kivy!Step, Kivy!ConfirmThinner
<1>2. (active <=> kivyState # "idle")'
  BY DEF KivyInv, Kivy!TypeOK, Kivy!wizardVars, Kivy!engineVars, Kivy!pageVars, Kivy!testVars,
         Kivy!Step, Kivy!ConfirmThinner
<1>3. PageFollows'
  BY DEF KivyInv, PageFollows, Kivy!None, Kivy!wizardVars, Kivy!engineVars, Kivy!pageVars,
         Kivy!testVars, Kivy!Step, Kivy!ConfirmThinner
<1>4. ThinnerChosen'
  BY DEF KivyInv, Kivy!TypeOK, ThinnerChosen, Kivy!wizardVars, Kivy!engineVars, Kivy!pageVars,
         Kivy!testVars, Kivy!Step, Kivy!ConfirmThinner
<1>5. PageLags' /\ LateIsTold'
  BY DEF KivyInv, Kivy!TypeOK, PageLags, LateIsTold, Kivy!wizardVars, Kivy!engineVars,
         Kivy!pageVars, Kivy!testVars, Kivy!Step, Kivy!ConfirmThinner
<1>6. AmountsHold'
  BY DEF KivyInv, Kivy!TypeOK, PageLags, AmountsHold, Kivy!wizardVars, Kivy!engineVars,
         Kivy!pageVars, Kivy!testVars, Kivy!Step, Kivy!ConfirmThinner
<1> QED
  BY <1>1, <1>2, <1>3, <1>4, <1>5, <1>6 DEF KivyInv

LEMMA KivyCancelThinner ==
  ASSUME KivyInv, Kivy!CancelThinner PROVE KivyInv'
<1> USE KivyNames, ButtonPages
<1>1. Kivy!TypeOK'
  BY DEF KivyInv, Kivy!TypeOK, Kivy!wizardVars, Kivy!engineVars, Kivy!pageVars, Kivy!testVars,
         Kivy!Step, Kivy!CancelThinner
<1>2. (active <=> kivyState # "idle")'
  BY DEF KivyInv, Kivy!TypeOK, Kivy!wizardVars, Kivy!engineVars, Kivy!pageVars, Kivy!testVars,
         Kivy!Step, Kivy!CancelThinner
<1>3. PageFollows'
  BY DEF KivyInv, PageFollows, Kivy!None, Kivy!wizardVars, Kivy!engineVars, Kivy!pageVars,
         Kivy!testVars, Kivy!Step, Kivy!CancelThinner
<1>4. ThinnerChosen'
  BY DEF KivyInv, Kivy!TypeOK, ThinnerChosen, Kivy!wizardVars, Kivy!engineVars, Kivy!pageVars,
         Kivy!testVars, Kivy!Step, Kivy!CancelThinner
<1>5. PageLags' /\ LateIsTold'
  BY DEF KivyInv, Kivy!TypeOK, PageLags, LateIsTold, Kivy!wizardVars, Kivy!engineVars,
         Kivy!pageVars, Kivy!testVars, Kivy!Step, Kivy!CancelThinner
<1>6. AmountsHold'
  BY DEF KivyInv, Kivy!TypeOK, PageLags, AmountsHold, Kivy!wizardVars, Kivy!engineVars,
         Kivy!pageVars, Kivy!testVars, Kivy!Step, Kivy!CancelThinner
<1> QED
  BY <1>1, <1>2, <1>3, <1>4, <1>5, <1>6 DEF KivyInv

LEMMA KivyReturnCans ==
  ASSUME KivyInv, Kivy!ReturnCans PROVE KivyInv'
<1> USE KivyNames, ButtonPages
<1>1. Kivy!TypeOK'
  BY DEF KivyInv, Kivy!TypeOK, Kivy!wizardVars, Kivy!engineVars, Kivy!pageVars, Kivy!testVars,
         Kivy!Step, Kivy!ReturnCans
<1>2. (active <=> kivyState # "idle")'
  BY DEF KivyInv, Kivy!TypeOK, Kivy!wizardVars, Kivy!engineVars, Kivy!pageVars, Kivy!testVars,
         Kivy!Step, Kivy!ReturnCans
<1>3. PageFollows'
  BY DEF KivyInv, PageFollows, Kivy!None, Kivy!wizardVars, Kivy!engineVars, Kivy!pageVars,
         Kivy!testVars, Kivy!Step, Kivy!ReturnCans
<1>4. ThinnerChosen'
  BY DEF KivyInv, Kivy!TypeOK, ThinnerChosen, Kivy!wizardVars, Kivy!engineVars, Kivy!pageVars,
         Kivy!testVars, Kivy!Step, Kivy!ReturnCans
<1>5. PageLags' /\ LateIsTold'
  BY DEF KivyInv, Kivy!TypeOK, PageLags, LateIsTold, Kivy!wizardVars, Kivy!engineVars,
         Kivy!pageVars, Kivy!testVars, Kivy!Step, Kivy!ReturnCans
<1>6. AmountsHold'
  BY DEF KivyInv, Kivy!TypeOK, PageLags, AmountsHold, Kivy!wizardVars, Kivy!engineVars,
         Kivy!pageVars, Kivy!testVars, Kivy!Step, Kivy!ReturnCans
<1> QED
  BY <1>1, <1>2, <1>3, <1>4, <1>5, <1>6 DEF KivyInv

LEMMA KivySimulatePick ==
  ASSUME KivyInv, NEW c \in Kivy!Cans, Kivy!SimulatePick(c) PROVE KivyInv'
<1> USE KivyNames, ButtonPages
<1>1. Kivy!TypeOK'
  BY DEF KivyInv, Kivy!TypeOK, Kivy!wizardVars, Kivy!engineVars, Kivy!pageVars, Kivy!testVars,
         Kivy!Step, Kivy!SimulatePick, Kivy!Cans
<1>2. (active <=> kivyState # "idle")'
  BY DEF KivyInv, Kivy!TypeOK, Kivy!wizardVars, Kivy!engineVars, Kivy!pageVars, Kivy!testVars,
         Kivy!Step, Kivy!SimulatePick, Kivy!Cans
<1>3. PageFollows'
  BY DEF KivyInv, PageFollows, Kivy!None, Kivy!wizardVars, Kivy!engineVars, Kivy!pageVars,
         Kivy!testVars, Kivy!Step, Kivy!SimulatePick, Kivy!Cans
<1>4. ThinnerChosen'
  BY DEF KivyInv, Kivy!TypeOK, ThinnerChosen, Kivy!wizardVars, Kivy!engineVars, Kivy!pageVars,
         Kivy!testVars, Kivy!Step, Kivy!SimulatePick, Kivy!Cans
<1>5. PageLags' /\ LateIsTold'
  BY DEF KivyInv, Kivy!TypeOK, PageLags, LateIsTold, Kivy!wizardVars, Kivy!engineVars,
         Kivy!pageVars, Kivy!testVars, Kivy!Step, Kivy!SimulatePick, Kivy!Cans
<1>6. AmountsHold'
  BY DEF KivyInv, Kivy!TypeOK, PageLags, AmountsHold, Kivy!wizardVars, Kivy!engineVars,
         Kivy!pageVars, Kivy!testVars, Kivy!Step, Kivy!SimulatePick, Kivy!Cans
<1> QED
  BY <1>1, <1>2, <1>3, <1>4, <1>5, <1>6 DEF KivyInv

LEMMA KivyConfirmWeight ==
  ASSUME KivyInv, NEW c \in Kivy!Cans, Kivy!ConfirmWeight(c) PROVE KivyInv'
<1> USE KivyNames, ButtonPages
<1>1. Kivy!TypeOK'
  BY DEF KivyInv, Kivy!TypeOK, Kivy!wizardVars, Kivy!engineVars, Kivy!pageVars, Kivy!testVars,
         Kivy!Step, Kivy!ConfirmWeight, Kivy!ConfirmedFrom, Kivy!Cans
<1>2. (active <=> kivyState # "idle")'
  BY DEF KivyInv, Kivy!TypeOK, Kivy!wizardVars, Kivy!engineVars, Kivy!pageVars, Kivy!testVars,
         Kivy!Step, Kivy!ConfirmWeight, Kivy!ConfirmedFrom, Kivy!Cans
<1>3. PageFollows'
  BY DEF KivyInv, PageFollows, Kivy!None, Kivy!wizardVars, Kivy!engineVars, Kivy!pageVars,
         Kivy!testVars, Kivy!Step, Kivy!ConfirmWeight, Kivy!ConfirmedFrom, Kivy!Cans
<1>4. ThinnerChosen'
  BY DEF KivyInv, Kivy!TypeOK, ThinnerChosen, Kivy!wizardVars, Kivy!engineVars, Kivy!pageVars,
         Kivy!testVars, Kivy!Step, Kivy!ConfirmWeight, Kivy!ConfirmedFrom, Kivy!Cans
<1>5. PageLags' /\ LateIsTold'
  BY DEF KivyInv, Kivy!TypeOK, PageLags, LateIsTold, Kivy!wizardVars, Kivy!engineVars,
         Kivy!pageVars, Kivy!testVars, Kivy!Step, Kivy!ConfirmWeight, Kivy!ConfirmedFrom, Kivy!Cans
<1>6. AmountsHold'
  BY DEF KivyInv, Kivy!TypeOK, PageLags, AmountsHold, Kivy!wizardVars, Kivy!engineVars,
         Kivy!pageVars, Kivy!testVars, Kivy!Step, Kivy!ConfirmWeight, Kivy!ConfirmedFrom, Kivy!Cans
<1> QED
  BY <1>1, <1>2, <1>3, <1>4, <1>5, <1>6 DEF KivyInv

LEMMA KivyCompleteSession ==
  ASSUME KivyInv, Kivy!CompleteSession PROVE KivyInv'
<1> USE KivyNames, ButtonPages
<1>1. Kivy!TypeOK'
  <2>1. late' \in 0 .. 1 /\ kivySessions' \in 0 .. KivySessions
    BY DEF KivyInv, Kivy!TypeOK, Kivy!wizardVars, Kivy!engineVars, Kivy!pageVars, Kivy!testVars,
           Kivy!CompleteSession, Kivy!Completed, Kivy!NoJob, Kivy!NoContext
  <2>2. ctx'.product \in Kivy!Charted \cup {Kivy!None}
    BY DEF KivyInv, Kivy!TypeOK, Kivy!wizardVars, Kivy!engineVars, Kivy!pageVars, Kivy!testVars,
           Kivy!CompleteSession, Kivy!Completed, Kivy!NoJob, Kivy!NoContext
  <2>3. /\ (mode \in {"test", "live"} /\ kivyScreen \in {"other", "paint_now", "mixing"})'
        /\ (kivyStep \in {"view_layers", "enter_m2", "show_quantities"})'
        /\ (kivyLayer \in Kivy!Charted \cup {Kivy!None} /\ kivyM2 \in KivySurfaces \cup {0})'
    BY DEF KivyInv, Kivy!TypeOK, Kivy!wizardVars, Kivy!engineVars, Kivy!pageVars, Kivy!testVars,
           Kivy!CompleteSession, Kivy!Completed, Kivy!NoJob, Kivy!NoContext
  <2>4. (calc \in {Kivy!NoCalc} \cup (Kivy!Charted \X KivySurfaces))'
    BY DEF KivyInv, Kivy!TypeOK, Kivy!wizardVars, Kivy!engineVars, Kivy!pageVars, Kivy!testVars,
           Kivy!CompleteSession, Kivy!Completed, Kivy!NoJob, Kivy!NoContext
  <2>5. /\ (kivyState \in Kivy!States /\ active \in BOOLEAN /\ shelf \subseteq Kivy!Cans)'
        /\ (kivyShown \in Kivy!States
                   \cup {Kivy!None} /\ weighing \in BOOLEAN /\ kivyChosen \in BOOLEAN)'
    BY DEF KivyInv, Kivy!TypeOK, Kivy!wizardVars, Kivy!engineVars, Kivy!pageVars, Kivy!testVars,
           Kivy!CompleteSession, Kivy!Completed, Kivy!NoJob, Kivy!NoContext
  <2>6. hasty' \in BOOLEAN
    BY DEF KivyInv, Kivy!TypeOK, Kivy!testVars, Kivy!CompleteSession
  <2> QED
    BY <2>1, <2>2, <2>3, <2>4, <2>5, <2>6 DEF Kivy!TypeOK
<1>2. (active <=> kivyState # "idle")'
  BY DEF KivyInv, Kivy!TypeOK, Kivy!wizardVars, Kivy!engineVars, Kivy!pageVars, Kivy!testVars,
         Kivy!CompleteSession, Kivy!Completed, Kivy!NoJob, Kivy!NoContext
<1>3. PageFollows'
  BY DEF KivyInv, PageFollows, Kivy!None, Kivy!wizardVars, Kivy!engineVars, Kivy!pageVars,
         Kivy!testVars, Kivy!CompleteSession, Kivy!Completed, Kivy!NoJob, Kivy!NoContext
<1>4. ThinnerChosen'
  BY DEF KivyInv, Kivy!TypeOK, ThinnerChosen, Kivy!wizardVars, Kivy!engineVars, Kivy!pageVars,
         Kivy!testVars, Kivy!CompleteSession, Kivy!Completed, Kivy!NoJob, Kivy!NoContext
<1>5. PageLags' /\ LateIsTold'
  BY DEF KivyInv, Kivy!TypeOK, PageLags, LateIsTold, Kivy!wizardVars, Kivy!engineVars,
         Kivy!pageVars, Kivy!testVars, Kivy!CompleteSession, Kivy!Completed, Kivy!NoJob,
             Kivy!NoContext
<1>6. AmountsHold'
  BY DEF KivyInv, Kivy!TypeOK, PageLags, AmountsHold, Kivy!wizardVars, Kivy!engineVars,
         Kivy!pageVars, Kivy!testVars, Kivy!CompleteSession, Kivy!Completed, Kivy!NoJob,
             Kivy!NoContext
<1> QED
  BY <1>1, <1>2, <1>3, <1>4, <1>5, <1>6 DEF KivyInv

LEMMA KivyCompleteLate ==
  ASSUME KivyInv, Kivy!CompleteLate PROVE KivyInv'
<1> USE KivyNames
<1>1. Kivy!TypeOK'
  <2>1. late' \in 0 .. 1 /\ kivySessions' \in 0 .. KivySessions
    BY DEF KivyInv, Kivy!TypeOK, Kivy!wizardVars, Kivy!engineVars, Kivy!pageVars, Kivy!testVars,
           Kivy!CompleteLate, Kivy!Completed, Kivy!NoJob, Kivy!NoContext
  <2>2. ctx'.product \in Kivy!Charted \cup {Kivy!None}
    BY DEF KivyInv, Kivy!TypeOK, Kivy!wizardVars, Kivy!engineVars, Kivy!pageVars, Kivy!testVars,
           Kivy!CompleteLate, Kivy!Completed, Kivy!NoJob, Kivy!NoContext
  <2>3. /\ (mode \in {"test", "live"} /\ kivyScreen \in {"other", "paint_now", "mixing"})'
        /\ (kivyStep \in {"view_layers", "enter_m2", "show_quantities"})'
        /\ (kivyLayer \in Kivy!Charted \cup {Kivy!None} /\ kivyM2 \in KivySurfaces \cup {0})'
    BY DEF KivyInv, Kivy!TypeOK, Kivy!wizardVars, Kivy!engineVars, Kivy!pageVars, Kivy!testVars,
           Kivy!CompleteLate, Kivy!Completed, Kivy!NoJob, Kivy!NoContext
  <2>4. (calc \in {Kivy!NoCalc} \cup (Kivy!Charted \X KivySurfaces))'
    BY DEF KivyInv, Kivy!TypeOK, Kivy!wizardVars, Kivy!engineVars, Kivy!pageVars, Kivy!testVars,
           Kivy!CompleteLate, Kivy!Completed, Kivy!NoJob, Kivy!NoContext
  <2>5. /\ (kivyState \in Kivy!States /\ active \in BOOLEAN /\ shelf \subseteq Kivy!Cans)'
        /\ (kivyShown \in Kivy!States
                   \cup {Kivy!None} /\ weighing \in BOOLEAN /\ kivyChosen \in BOOLEAN)'
    BY DEF KivyInv, Kivy!TypeOK, Kivy!wizardVars, Kivy!engineVars, Kivy!pageVars, Kivy!testVars,
           Kivy!CompleteLate, Kivy!Completed, Kivy!NoJob, Kivy!NoContext
  <2>6. hasty' \in BOOLEAN
    BY DEF KivyInv, Kivy!TypeOK, Kivy!testVars, Kivy!CompleteLate
  <2> QED
    BY <2>1, <2>2, <2>3, <2>4, <2>5, <2>6 DEF Kivy!TypeOK
<1>2. (active <=> kivyState # "idle")'
  BY DEF KivyInv, Kivy!TypeOK, Kivy!wizardVars, Kivy!engineVars, Kivy!pageVars, Kivy!testVars,
         Kivy!CompleteLate, Kivy!Completed, Kivy!NoJob, Kivy!NoContext
<1>3. PageFollows'
  BY DEF KivyInv, PageFollows, Kivy!None, Kivy!wizardVars, Kivy!engineVars, Kivy!pageVars,
         Kivy!testVars, Kivy!CompleteLate, Kivy!Completed, Kivy!NoJob, Kivy!NoContext
<1>4. ThinnerChosen'
  BY DEF KivyInv, Kivy!TypeOK, ThinnerChosen, Kivy!wizardVars, Kivy!engineVars, Kivy!pageVars,
         Kivy!testVars, Kivy!CompleteLate, Kivy!Completed, Kivy!NoJob, Kivy!NoContext
<1>5. PageLags' /\ LateIsTold'
  BY DEF KivyInv, Kivy!TypeOK, PageLags, LateIsTold, Kivy!wizardVars, Kivy!engineVars,
         Kivy!pageVars, Kivy!testVars, Kivy!CompleteLate, Kivy!Completed, Kivy!NoJob,
             Kivy!NoContext
<1>6. AmountsHold'
  BY DEF KivyInv, Kivy!TypeOK, PageLags, AmountsHold, Kivy!wizardVars, Kivy!engineVars,
         Kivy!pageVars, Kivy!testVars, Kivy!CompleteLate, Kivy!Completed, Kivy!NoJob,
             Kivy!NoContext
<1> QED
  BY <1>1, <1>2, <1>3, <1>4, <1>5, <1>6 DEF KivyInv

LEMMA KivySimulateReturn ==
  ASSUME KivyInv, Kivy!SimulateReturn PROVE KivyInv'
<1> USE KivyNames, ButtonPages
<1>1. Kivy!TypeOK'
  BY DEF KivyInv, Kivy!TypeOK, Kivy!wizardVars, Kivy!engineVars, Kivy!pageVars, Kivy!testVars,
         Kivy!SimulateReturn
<1>2. (active <=> kivyState # "idle")'
  BY DEF KivyInv, Kivy!TypeOK, Kivy!wizardVars, Kivy!engineVars, Kivy!pageVars, Kivy!testVars,
         Kivy!SimulateReturn
<1>3. PageFollows'
  BY DEF KivyInv, PageFollows, Kivy!None, Kivy!wizardVars, Kivy!engineVars, Kivy!pageVars,
         Kivy!testVars, Kivy!SimulateReturn
<1>4. ThinnerChosen'
  BY DEF KivyInv, Kivy!TypeOK, ThinnerChosen, Kivy!wizardVars, Kivy!engineVars, Kivy!pageVars,
         Kivy!testVars, Kivy!SimulateReturn
<1>5. PageLags' /\ LateIsTold'
  BY DEF KivyInv, Kivy!TypeOK, PageLags, LateIsTold, Kivy!wizardVars, Kivy!engineVars,
         Kivy!pageVars, Kivy!testVars, Kivy!SimulateReturn
<1>6. AmountsHold'
  BY DEF KivyInv, Kivy!TypeOK, PageLags, AmountsHold, Kivy!wizardVars, Kivy!engineVars,
         Kivy!pageVars, Kivy!testVars, Kivy!SimulateReturn
<1> QED
  BY <1>1, <1>2, <1>3, <1>4, <1>5, <1>6 DEF KivyInv

LEMMA KivyTakeCan ==
  ASSUME KivyInv, NEW c \in Kivy!Cans, Kivy!TakeCan(c) PROVE KivyInv'
<1> USE KivyNames
<1>1. Kivy!TypeOK'
  <2>1. kivyState' \in Kivy!States /\ shelf' \subseteq Kivy!Cans
    BY DEF KivyInv, Kivy!TypeOK, Kivy!Cans, Kivy!TakeCan
  <2>2. UNCHANGED <<mode, kivyScreen, Kivy!wizardVars, ctx, job, active, Kivy!pageVars,
      kivyChosen, Kivy!testVars, kivySessions>>
    BY DEF Kivy!TakeCan
  <2> QED
    BY <2>1, <2>2 DEF KivyInv, Kivy!TypeOK, Kivy!wizardVars, Kivy!pageVars, Kivy!testVars
<1>2. (active <=> kivyState # "idle")'
  BY DEF KivyInv, Kivy!TypeOK, Kivy!wizardVars, Kivy!engineVars, Kivy!pageVars, Kivy!testVars,
         Kivy!TakeCan, Kivy!MayTake, Kivy!Cans
<1>3. PageFollows'
  BY DEF KivyInv, PageFollows, Kivy!None, Kivy!wizardVars, Kivy!engineVars, Kivy!pageVars,
         Kivy!testVars, Kivy!TakeCan, Kivy!MayTake, Kivy!Cans
<1>4. ThinnerChosen'
  BY DEF KivyInv, Kivy!TypeOK, ThinnerChosen, Kivy!wizardVars, Kivy!engineVars, Kivy!pageVars,
         Kivy!testVars, Kivy!TakeCan, Kivy!MayTake, Kivy!Cans
<1>5. PageLags' /\ LateIsTold'
  BY DEF KivyInv, Kivy!TypeOK, PageLags, LateIsTold, Kivy!wizardVars, Kivy!engineVars,
         Kivy!pageVars, Kivy!testVars, Kivy!TakeCan, Kivy!MayTake, Kivy!Cans
<1>6. AmountsHold'
  BY DEF KivyInv, Kivy!TypeOK, PageLags, AmountsHold, Kivy!wizardVars, Kivy!engineVars,
         Kivy!pageVars, Kivy!testVars, Kivy!TakeCan, Kivy!MayTake, Kivy!Cans
<1> QED
  BY <1>1, <1>2, <1>3, <1>4, <1>5, <1>6 DEF KivyInv

LEMMA KivyPutCan ==
  ASSUME KivyInv, NEW c \in Kivy!Cans, Kivy!PutCan(c) PROVE KivyInv'
<1> USE KivyNames
<1>1. Kivy!TypeOK'
  <2>1. kivyState' \in Kivy!States /\ shelf' \subseteq Kivy!Cans
    BY DEF KivyInv, Kivy!TypeOK, Kivy!Cans, Kivy!PutCan
  <2>2. UNCHANGED <<mode, kivyScreen, Kivy!wizardVars, ctx, job, active, Kivy!pageVars,
      kivyChosen, Kivy!testVars, kivySessions>>
    BY DEF Kivy!PutCan
  <2> QED
    BY <2>1, <2>2 DEF KivyInv, Kivy!TypeOK, Kivy!wizardVars, Kivy!pageVars, Kivy!testVars
<1>2. (active <=> kivyState # "idle")'
  BY DEF KivyInv, Kivy!TypeOK, Kivy!wizardVars, Kivy!engineVars, Kivy!pageVars, Kivy!testVars,
         Kivy!PutCan, Kivy!MayPut, Kivy!Cans
<1>3. PageFollows'
  BY DEF KivyInv, PageFollows, Kivy!None, Kivy!wizardVars, Kivy!engineVars, Kivy!pageVars,
         Kivy!testVars, Kivy!PutCan, Kivy!MayPut, Kivy!Cans
<1>4. ThinnerChosen'
  BY DEF KivyInv, Kivy!TypeOK, ThinnerChosen, Kivy!wizardVars, Kivy!engineVars, Kivy!pageVars,
         Kivy!testVars, Kivy!PutCan, Kivy!MayPut, Kivy!Cans
<1>5. PageLags' /\ LateIsTold'
  BY DEF KivyInv, Kivy!TypeOK, PageLags, LateIsTold, Kivy!wizardVars, Kivy!engineVars,
         Kivy!pageVars, Kivy!testVars, Kivy!PutCan, Kivy!MayPut, Kivy!Cans
<1>6. AmountsHold'
  BY DEF KivyInv, Kivy!TypeOK, PageLags, AmountsHold, Kivy!wizardVars, Kivy!engineVars,
         Kivy!pageVars, Kivy!testVars, Kivy!PutCan, Kivy!MayPut, Kivy!Cans
<1> QED
  BY <1>1, <1>2, <1>3, <1>4, <1>5, <1>6 DEF KivyInv

LEMMA KivyRestart ==
  ASSUME KivyInv, Kivy!Restart PROVE KivyInv'
<1> USE KivyNames
<1>1. Kivy!TypeOK'
  <2>1. late' \in 0 .. 1 /\ kivySessions' \in 0 .. KivySessions
    BY DEF KivyInv, Kivy!TypeOK, Kivy!wizardVars, Kivy!engineVars, Kivy!pageVars, Kivy!testVars,
           Kivy!Restart, Kivy!NoJob, Kivy!NoContext
  <2>2. ctx'.product \in Kivy!Charted \cup {Kivy!None}
    BY DEF KivyInv, Kivy!TypeOK, Kivy!wizardVars, Kivy!engineVars, Kivy!pageVars, Kivy!testVars,
           Kivy!Restart, Kivy!NoJob, Kivy!NoContext
  <2>3. /\ (mode \in {"test", "live"} /\ kivyScreen \in {"other", "paint_now", "mixing"})'
        /\ (kivyStep \in {"view_layers", "enter_m2", "show_quantities"})'
        /\ (kivyLayer \in Kivy!Charted \cup {Kivy!None} /\ kivyM2 \in KivySurfaces \cup {0})'
    BY DEF KivyInv, Kivy!TypeOK, Kivy!wizardVars, Kivy!engineVars, Kivy!pageVars, Kivy!testVars,
           Kivy!Restart, Kivy!NoJob, Kivy!NoContext
  <2>4. (calc \in {Kivy!NoCalc} \cup (Kivy!Charted \X KivySurfaces))'
    BY DEF KivyInv, Kivy!TypeOK, Kivy!wizardVars, Kivy!engineVars, Kivy!pageVars, Kivy!testVars,
           Kivy!Restart, Kivy!NoJob, Kivy!NoContext
  <2>5. /\ (kivyState \in Kivy!States /\ active \in BOOLEAN /\ shelf \subseteq Kivy!Cans)'
        /\ (kivyShown \in Kivy!States
                   \cup {Kivy!None} /\ weighing \in BOOLEAN /\ kivyChosen \in BOOLEAN)'
    BY DEF KivyInv, Kivy!TypeOK, Kivy!wizardVars, Kivy!engineVars, Kivy!pageVars, Kivy!testVars,
           Kivy!Restart, Kivy!NoJob, Kivy!NoContext
  <2>6. hasty' \in BOOLEAN
    BY DEF KivyInv, Kivy!TypeOK, Kivy!testVars, Kivy!Restart
  <2> QED
    BY <2>1, <2>2, <2>3, <2>4, <2>5, <2>6 DEF Kivy!TypeOK
<1>2. (active <=> kivyState # "idle")'
  BY DEF KivyInv, Kivy!TypeOK, Kivy!wizardVars, Kivy!engineVars, Kivy!pageVars, Kivy!testVars,
         Kivy!Restart, Kivy!NoJob, Kivy!NoContext
<1>3. PageFollows'
  BY DEF KivyInv, PageFollows, Kivy!None, Kivy!wizardVars, Kivy!engineVars, Kivy!pageVars,
         Kivy!testVars, Kivy!Restart, Kivy!NoJob, Kivy!NoContext
<1>4. ThinnerChosen'
  BY DEF KivyInv, Kivy!TypeOK, ThinnerChosen, Kivy!wizardVars, Kivy!engineVars, Kivy!pageVars,
         Kivy!testVars, Kivy!Restart, Kivy!NoJob, Kivy!NoContext
<1>5. PageLags' /\ LateIsTold'
  BY DEF KivyInv, Kivy!TypeOK, PageLags, LateIsTold, Kivy!wizardVars, Kivy!engineVars,
         Kivy!pageVars, Kivy!testVars, Kivy!Restart, Kivy!NoJob, Kivy!NoContext
<1>6. AmountsHold'
  BY DEF KivyInv, Kivy!TypeOK, PageLags, AmountsHold, Kivy!wizardVars, Kivy!engineVars,
         Kivy!pageVars, Kivy!testVars, Kivy!Restart, Kivy!NoJob, Kivy!NoContext
<1> QED
  BY <1>1, <1>2, <1>3, <1>4, <1>5, <1>6 DEF KivyInv

LEMMA KivyEnterPaintNow ==
  ASSUME KivyInv, Kivy!EnterPaintNow PROVE KivyInv'
<1> USE KivyNames
<1>1. Kivy!TypeOK'
  BY DEF KivyInv, Kivy!TypeOK, Kivy!wizardVars, Kivy!engineVars, Kivy!pageVars, Kivy!testVars,
         Kivy!wizardRest, Kivy!EnterPaintNow
<1>2. (active <=> kivyState # "idle")'
  BY DEF KivyInv, Kivy!TypeOK, Kivy!wizardVars, Kivy!engineVars, Kivy!pageVars, Kivy!testVars,
         Kivy!wizardRest, Kivy!EnterPaintNow
<1>3. PageFollows'
  BY DEF KivyInv, PageFollows, Kivy!None, Kivy!wizardVars, Kivy!engineVars, Kivy!pageVars,
         Kivy!testVars, Kivy!wizardRest, Kivy!EnterPaintNow
<1>4. ThinnerChosen'
  BY DEF KivyInv, Kivy!TypeOK, ThinnerChosen, Kivy!wizardVars, Kivy!engineVars, Kivy!pageVars,
         Kivy!testVars, Kivy!wizardRest, Kivy!EnterPaintNow
<1>5. PageLags' /\ LateIsTold'
  BY DEF KivyInv, Kivy!TypeOK, PageLags, LateIsTold, Kivy!wizardVars, Kivy!engineVars,
         Kivy!pageVars, Kivy!testVars, Kivy!wizardRest, Kivy!EnterPaintNow
<1>6. AmountsHold'
  BY DEF KivyInv, Kivy!TypeOK, PageLags, AmountsHold, Kivy!wizardVars, Kivy!engineVars,
         Kivy!pageVars, Kivy!testVars, Kivy!wizardRest, Kivy!EnterPaintNow
<1> QED
  BY <1>1, <1>2, <1>3, <1>4, <1>5, <1>6 DEF KivyInv

LEMMA KivyWizardBack ==
  ASSUME KivyInv, Kivy!WizardBack PROVE KivyInv'
<1> USE KivyNames
<1>1. Kivy!TypeOK'
  <2>1. /\ kivyScreen' \in {"other", "paint_now", "mixing"}
        /\ kivyStep' \in {"view_layers", "enter_m2", "show_quantities"}
    BY DEF KivyInv, Kivy!TypeOK, Kivy!WizardBack
  <2>2. UNCHANGED <<kivyLayer, kivyM2, calc, ctx, Kivy!pageVars, Kivy!wizardRest>>
    BY DEF Kivy!WizardBack
  <2> QED
    BY <2>1, <2>2
       DEF KivyInv, Kivy!TypeOK, Kivy!pageVars, Kivy!wizardRest, Kivy!engineVars, Kivy!testVars
<1>2. (active <=> kivyState # "idle")'
  BY DEF KivyInv, Kivy!TypeOK, Kivy!wizardVars, Kivy!engineVars, Kivy!pageVars, Kivy!testVars,
         Kivy!wizardRest, Kivy!WizardBack
<1>3. PageFollows'
  BY DEF KivyInv, PageFollows, Kivy!None, Kivy!wizardVars, Kivy!engineVars, Kivy!pageVars,
         Kivy!testVars, Kivy!wizardRest, Kivy!WizardBack
<1>4. ThinnerChosen'
  BY DEF KivyInv, Kivy!TypeOK, ThinnerChosen, Kivy!wizardVars, Kivy!engineVars, Kivy!pageVars,
         Kivy!testVars, Kivy!wizardRest, Kivy!WizardBack
<1>5. PageLags' /\ LateIsTold'
  BY DEF KivyInv, Kivy!TypeOK, PageLags, LateIsTold, Kivy!wizardVars, Kivy!engineVars,
         Kivy!pageVars, Kivy!testVars, Kivy!wizardRest, Kivy!WizardBack
<1>6. AmountsHold'
  BY DEF KivyInv, Kivy!TypeOK, PageLags, AmountsHold, Kivy!wizardVars, Kivy!engineVars,
         Kivy!pageVars, Kivy!testVars, Kivy!wizardRest, Kivy!WizardBack
<1> QED
  BY <1>1, <1>2, <1>3, <1>4, <1>5, <1>6 DEF KivyInv

LEMMA KivyGoBack ==
  ASSUME KivyInv, Kivy!GoBack PROVE KivyInv'
<1> USE KivyNames
<1>1. Kivy!TypeOK'
  BY DEF KivyInv, Kivy!TypeOK, Kivy!wizardVars, Kivy!engineVars, Kivy!pageVars, Kivy!testVars,
         Kivy!wizardRest, Kivy!GoBack
<1>2. (active <=> kivyState # "idle")'
  BY DEF KivyInv, Kivy!TypeOK, Kivy!wizardVars, Kivy!engineVars, Kivy!pageVars, Kivy!testVars,
         Kivy!wizardRest, Kivy!GoBack
<1>3. PageFollows'
  BY DEF KivyInv, PageFollows, Kivy!None, Kivy!wizardVars, Kivy!engineVars, Kivy!pageVars,
         Kivy!testVars, Kivy!wizardRest, Kivy!GoBack
<1>4. ThinnerChosen'
  BY DEF KivyInv, Kivy!TypeOK, ThinnerChosen, Kivy!wizardVars, Kivy!engineVars, Kivy!pageVars,
         Kivy!testVars, Kivy!wizardRest, Kivy!GoBack
<1>5. PageLags' /\ LateIsTold'
  BY DEF KivyInv, Kivy!TypeOK, PageLags, LateIsTold, Kivy!wizardVars, Kivy!engineVars,
         Kivy!pageVars, Kivy!testVars, Kivy!wizardRest, Kivy!GoBack
<1>6. AmountsHold'
  BY DEF KivyInv, Kivy!TypeOK, PageLags, AmountsHold, Kivy!wizardVars, Kivy!engineVars,
         Kivy!pageVars, Kivy!testVars, Kivy!wizardRest, Kivy!GoBack
<1> QED
  BY <1>1, <1>2, <1>3, <1>4, <1>5, <1>6 DEF KivyInv

LEMMA KivySelectLayer ==
  ASSUME KivyInv, NEW p \in Kivy!Charted, Kivy!SelectLayer(p) PROVE KivyInv'
<1> USE KivyNames
<1>1. Kivy!TypeOK'
  BY DEF KivyInv, Kivy!TypeOK, Kivy!wizardVars, Kivy!engineVars, Kivy!pageVars, Kivy!testVars,
         Kivy!wizardRest, Kivy!SelectLayer, Kivy!Charted
<1>2. (active <=> kivyState # "idle")'
  BY DEF KivyInv, Kivy!TypeOK, Kivy!wizardVars, Kivy!engineVars, Kivy!pageVars, Kivy!testVars,
         Kivy!wizardRest, Kivy!SelectLayer, Kivy!Charted
<1>3. PageFollows'
  BY DEF KivyInv, PageFollows, Kivy!None, Kivy!wizardVars, Kivy!engineVars, Kivy!pageVars,
         Kivy!testVars, Kivy!wizardRest, Kivy!SelectLayer, Kivy!Charted
<1>4. ThinnerChosen'
  BY DEF KivyInv, Kivy!TypeOK, ThinnerChosen, Kivy!wizardVars, Kivy!engineVars, Kivy!pageVars,
         Kivy!testVars, Kivy!wizardRest, Kivy!SelectLayer, Kivy!Charted
<1>5. PageLags' /\ LateIsTold'
  BY DEF KivyInv, Kivy!TypeOK, PageLags, LateIsTold, Kivy!wizardVars, Kivy!engineVars,
         Kivy!pageVars, Kivy!testVars, Kivy!wizardRest, Kivy!SelectLayer, Kivy!Charted
<1>6. AmountsHold'
  BY DEF KivyInv, Kivy!TypeOK, PageLags, AmountsHold, Kivy!wizardVars, Kivy!engineVars,
         Kivy!pageVars, Kivy!testVars, Kivy!wizardRest, Kivy!SelectLayer, Kivy!Charted
<1> QED
  BY <1>1, <1>2, <1>3, <1>4, <1>5, <1>6 DEF KivyInv

LEMMA KivyCalculate ==
  ASSUME KivyInv, NEW n \in KivySurfaces, Kivy!Calculate(n) PROVE KivyInv'
<1> USE KivyNames
<1>1. Kivy!TypeOK'
  <2>1. kivyLayer \in Kivy!Charted
    BY DEF KivyInv, AmountsHold, Kivy!Calculate
  <2>2. calc' \in Kivy!Charted \X KivySurfaces /\ kivyM2' \in KivySurfaces
    BY <2>1 DEF Kivy!Calculate
  <2> QED
    BY <2>2 DEF KivyInv, Kivy!TypeOK, Kivy!wizardVars, Kivy!engineVars, Kivy!pageVars,
                Kivy!testVars, Kivy!wizardRest, Kivy!Calculate
<1>2. (active <=> kivyState # "idle")'
  BY DEF KivyInv, Kivy!TypeOK, Kivy!wizardVars, Kivy!engineVars, Kivy!pageVars, Kivy!testVars,
         Kivy!wizardRest, Kivy!Calculate
<1>3. PageFollows'
  BY DEF KivyInv, PageFollows, Kivy!None, Kivy!wizardVars, Kivy!engineVars, Kivy!pageVars,
         Kivy!testVars, Kivy!wizardRest, Kivy!Calculate
<1>4. ThinnerChosen'
  BY DEF KivyInv, Kivy!TypeOK, ThinnerChosen, Kivy!wizardVars, Kivy!engineVars, Kivy!pageVars,
         Kivy!testVars, Kivy!wizardRest, Kivy!Calculate
<1>5. PageLags' /\ LateIsTold'
  BY DEF KivyInv, Kivy!TypeOK, PageLags, LateIsTold, Kivy!wizardVars, Kivy!engineVars,
         Kivy!pageVars, Kivy!testVars, Kivy!wizardRest, Kivy!Calculate
<1>6. AmountsHold'
  BY DEF KivyInv, Kivy!TypeOK, PageLags, AmountsHold, Kivy!wizardVars, Kivy!engineVars,
         Kivy!pageVars, Kivy!testVars, Kivy!wizardRest, Kivy!Calculate
<1> QED
  BY <1>1, <1>2, <1>3, <1>4, <1>5, <1>6 DEF KivyInv

(* The actions that look at the engine.                                    *)
LEMMA KivyRefresh ==
  ASSUME KivyInv, Kivy!Refresh \/ Kivy!EnterMixing PROVE KivyInv'
<1>1. /\ UNCHANGED <<mode, Kivy!wizardVars, ctx, Kivy!engineVars, shelf, kivyChosen,
           Kivy!testVars, kivySessions>>
      /\ kivyScreen' = "mixing" /\ \E past \in {kivyShown, Kivy!None} : Kivy!Refreshed(past)
  BY DEF Kivy!Refresh, Kivy!EnterMixing
<1>2. /\ kivyShown' \in Kivy!States \cup {Kivy!None} /\ weighing' \in BOOLEAN
      /\ PageFollows' /\ ThinnerChosen' /\ PageLags'
      /\ (kivyState # "idle" /\ (kivyState = "select_product"
                 \/ kivyPage = "select_product") => job.told = Kivy!NoCalc)'
  BY <1>1, RefreshedKeeps DEF Kivy!engineVars
<1>3. Kivy!TypeOK' /\ (active <=> kivyState # "idle")'
  BY <1>1, <1>2 DEF KivyInv, Kivy!TypeOK, Kivy!wizardVars, Kivy!engineVars, Kivy!testVars
<1>4. LateIsTold' /\ AmountsHold'
  BY <1>1, <1>2
     DEF KivyInv, LateIsTold, AmountsHold, Kivy!wizardVars, Kivy!engineVars, Kivy!testVars
<1> QED
  BY <1>2, <1>3, <1>4 DEF KivyInv

LEMMA KivyGoToMixing ==
  ASSUME KivyInv, Kivy!SkipToMix \/ Kivy!StartMixing PROVE KivyInv'
<1>1. /\ UNCHANGED <<kivyStep, kivyLayer, calc, Kivy!wizardRest>> /\ kivyScreen' = "mixing"
      /\ Kivy!Refreshed(Kivy!None)
      /\ kivyLayer \in Kivy!Charted /\ kivyM2' \in KivySurfaces \cup {0}
      /\ ctx'.product = kivyLayer
      /\ (ctx'.target # Kivy!NoCalc => ctx'.target = <<kivyLayer, kivyM2'>>)
      /\ (kivyStep = "show_quantities" => calc = <<kivyLayer, kivyM2'>>)
  <2>1. CASE Kivy!SkipToMix
    BY <2>1 DEF KivyInv, Kivy!TypeOK, AmountsHold, Kivy!SkipToMix, Kivy!GoToMixing, Kivy!Skipped
  <2>2. CASE Kivy!StartMixing
    BY <2>2 DEF KivyInv, Kivy!TypeOK, AmountsHold, Kivy!StartMixing, Kivy!GoToMixing
  <2> QED
    BY <2>1, <2>2
<1>2. /\ kivyShown' \in Kivy!States \cup {Kivy!None} /\ weighing' \in BOOLEAN
      /\ PageFollows' /\ ThinnerChosen' /\ PageLags'
      /\ (kivyState # "idle" /\ (kivyState = "select_product"
                 \/ kivyPage = "select_product") => job.told = Kivy!NoCalc)'
  BY <1>1, RefreshedKeeps DEF Kivy!wizardRest, Kivy!engineVars
<1>3. Kivy!TypeOK' /\ (active <=> kivyState # "idle")'
  BY <1>1, <1>2 DEF KivyInv, Kivy!TypeOK, Kivy!wizardRest, Kivy!engineVars, Kivy!testVars
<1>4. LateIsTold' /\ AmountsHold'
  BY <1>1, <1>2
     DEF KivyInv, LateIsTold, AmountsHold, Kivy!wizardRest, Kivy!engineVars, Kivy!testVars
<1> QED
  BY <1>2, <1>3, <1>4 DEF KivyInv

LEMMA KivyStep == KivyInv /\ [Kivy!Next]_(Kivy!vars) => KivyInv'
<1> SUFFICES ASSUME KivyInv, [Kivy!Next]_(Kivy!vars) PROVE KivyInv'
  OBVIOUS
<1>1. CASE UNCHANGED Kivy!vars
  BY <1>1 DEF Kivy!vars, Kivy!wizardVars, Kivy!engineVars, Kivy!pageVars, Kivy!testVars, KivyInv,
              Kivy!TypeOK, PageFollows,
     ThinnerChosen, PageLags, LateIsTold, AmountsHold
<1>2. CASE Kivy!Tare
  BY <1>1, <1>2, KivyRestart DEF Kivy!Tare
<1>3. CASE Kivy!Press /\ ~Kivy!Tare
  BY <1>3, KivyStartMix, KivySelectAmount, KivyConfirmRecipe, KivyConfirmMix, KivyChooseMethod,
     KivySkipThinner, KivyConfirmThinner, KivyCancelThinner, KivyReturnCans, KivySimulateReturn,
     KivyCompleteSession, KivySimulatePick, KivyConfirmWeight DEF Kivy!Press
<1>4. CASE Kivy!PaintNow
  BY <1>4, KivyEnterPaintNow, KivyWizardBack, KivyGoToMixing, KivySelectLayer, KivyCalculate
     DEF Kivy!PaintNow
<1>5. CASE Kivy!Refresh \/ Kivy!EnterMixing
  BY <1>5, KivyRefresh
<1>6. CASE Kivy!GoBack \/ Kivy!CompleteLate \/ \E c \in Kivy!Cans : Kivy!TakeCan(c)
           \/ Kivy!PutCan(c)
  BY <1>6, KivyGoBack, KivyCompleteLate, KivyTakeCan, KivyPutCan
<1> QED
  BY <1>1, <1>2, <1>3, <1>4, <1>5, <1>6 DEF Kivy!Next

(* What the checked properties say, from the invariant.                    *)
LEMMA KivyShows == KivyInv => Kivy!PageIsTrue
BY DEF KivyInv, PageFollows, ThinnerChosen, AmountsHold, Kivy!PageIsTrue

(* A button moves the session from the state its page is of.               *)
LEMMA PageOfState ==
  ASSUME KivyInv,
         \/ kivyPage = kivyState /\ \A c \in Kivy!Cans : kivyState # Kivy!Return[c]
         \/ kivyPage = "thinner_weigh" /\ kivyState = "add_thinner"
  PROVE  \E w \in BOOLEAN : kivyPage = Kivy!PageOf(kivyState, w)
<1>1. CASE kivyPage = kivyState /\ \A c \in Kivy!Cans : kivyState # Kivy!Return[c]
  <2>1. Kivy!PageOf(kivyState, FALSE) = kivyPage
    BY <1>1 DEF Kivy!PageOf
  <2> QED
    BY <2>1
<1>2. CASE kivyPage = "thinner_weigh" /\ kivyState = "add_thinner"
  <2>1. Kivy!PageOf(kivyState, TRUE) = kivyPage
    BY <1>2 DEF Kivy!PageOf
  <2> QED
    BY <2>1
<1> QED
  BY <1>1, <1>2

LEMMA PressShows == KivyInv /\ [Kivy!Next]_(Kivy!vars) => Kivy!PressBelongs
<1> SUFFICES ASSUME KivyInv PROVE Kivy!PressBelongs
  OBVIOUS
<1> USE KivyNames
<1>1. ASSUME Kivy!Press, kivyState' # kivyState, kivyState' # "idle",
             ~(kivyPage = "error" /\ kivyState = "idle")
      PROVE  \E w \in BOOLEAN : kivyPage = Kivy!PageOf(kivyState, w)
  <2>1. kivyState # "none"
    BY DEF KivyInv, Kivy!TypeOK
  <2>2. CASE Kivy!StartMix
    <3>1. kivyPage = "idle" /\ kivyState = "idle"
      BY <1>1, <2>2, ButtonPages DEF Kivy!StartMix
    <3> QED
      BY <3>1, PageOfState DEF Kivy!Cans
  <2>3. CASE Kivy!SelectAmount
    <3>1. kivyPage = "select_product" /\ kivyState = "select_product"
      BY <1>1, <2>3, ButtonPages DEF Kivy!SelectAmount, KivyInv, PageLags
    <3> QED
      BY <3>1, PageOfState DEF Kivy!Cans
  <2>4. CASE Kivy!ConfirmRecipe \/ Kivy!ConfirmMix \/ Kivy!SkipThinner
    <3>1. kivyPage = kivyState /\ kivyState \in {"show_recipe", "confirm_mix", "add_thinner"}
      BY <1>1, <2>4, ButtonPages
         DEF Kivy!Step, Kivy!ConfirmRecipe, Kivy!ConfirmMix, Kivy!SkipThinner
    <3> QED
      BY <3>1, PageOfState DEF Kivy!Cans
  <2>5. CASE Kivy!ConfirmThinner
    <3>1. kivyPage = "thinner_weigh" /\ kivyState = "add_thinner"
      BY <1>1, <2>5, ButtonPages DEF Kivy!Step, Kivy!ConfirmThinner
    <3> QED
      BY <3>1, PageOfState
  <2>6. CASE Kivy!ReturnCans
    <3>1. kivyPage = "pot_life_active" /\ kivyState = "pot_life_active"
      BY <1>1, <2>6, ButtonPages DEF Kivy!Step, Kivy!ReturnCans, KivyInv, PageLags
    <3> QED
      BY <3>1, PageOfState DEF Kivy!Cans
  <2>7. CASE \E c \in Kivy!Cans : Kivy!SimulatePick(c) \/ Kivy!ConfirmWeight(c)
    <3>1. kivyPage = kivyState
          /\ kivyState \in {"pick_base", "pick_hardener", "weigh_base", "weigh_hardener"}
      BY <1>1, <2>7
         DEF Kivy!Step, Kivy!SimulatePick, Kivy!ConfirmWeight, Kivy!ConfirmedFrom, Kivy!Cans
    <3> QED
      BY <3>1, PageOfState DEF Kivy!Cans
  <2>8. ~(Kivy!ChooseMethod \/ Kivy!CancelThinner \/ Kivy!SimulateReturn \/ Kivy!Tare
             \/ Kivy!CompleteSession)
    BY <1>1, <2>1
       DEF Kivy!Step, Kivy!ChooseMethod, Kivy!CancelThinner, Kivy!SimulateReturn, Kivy!Tare,
           Kivy!Restart,
       Kivy!CompleteSession, Kivy!Completed, Kivy!vars, Kivy!engineVars
  <2> QED
    BY <1>1, <2>2, <2>3, <2>4, <2>5, <2>6, <2>7, <2>8 DEF Kivy!Press
<1>2. Kivy!CompleteSession \/ Kivy!CompleteLate => kivyState \in {"idle", "return_cans"} \/ hasty
  BY ButtonPages
     DEF KivyInv, Kivy!TypeOK, PageLags, LateIsTold, Kivy!CompleteSession, Kivy!CompleteLate
<1> QED
  BY <1>1, <1>2 DEF Kivy!PressBelongs

HIDE KivyConstants DEF mode, kivyScreen, kivyStep, kivyLayer, kivyM2, calc, ctx, kivyState, job,
    active, shelf, kivyShown, kivyPage, weighing, kivyChosen, late, hasty, kivySessions,
    Kivy!KivyAssumption

LEMMA KivyInvariant == CabinetSpec => [](focus = "kivy" => KivyInv)
<1>1. CabinetInit => (focus = "kivy" => KivyInv)
  BY KivyInit DEF CabinetInit
<1>2. (focus = "kivy" => KivyInv) /\ [CabinetNext]_cells => (focus = "kivy" => KivyInv)'
  <2>1. [CabinetNext]_cells /\ focus = "kivy" => [Kivy!Next]_(Kivy!vars)
    BY DEF CabinetNext, cells, Kivy!vars, Kivy!wizardVars, Kivy!engineVars, Kivy!pageVars,
           Kivy!testVars
  <2> QED
    BY <2>1, KivyStep, FocusStays
<1> QED
  BY <1>1, <1>2, PTL DEF CabinetSpec

(* What is mixed is what the crew was told, the page is the engine's as it *)
(* was last looked at, and a press moves what its page is for: for any chart *)
(* and surfaces, and any number of sessions.                               *)
THEOREM CabinetMixesAsTold == CabinetSpec => PanelsAreTrue
<1>1. (focus = "paint" => PaintInv) => (focus = "paint" => Paint!MixIsAsTold)
  BY PaintShows
<1>2. (focus = "kivy" => KivyInv) => (focus = "kivy" => Kivy!PageIsTrue)
  BY KivyShows
<1>3. (focus = "kivy" => KivyInv) /\ [CabinetNext]_cells
        => [focus = "kivy" => Kivy!PressBelongs]_cells
  <2>1. [CabinetNext]_cells /\ focus = "kivy" => [Kivy!Next]_(Kivy!vars)
    BY DEF CabinetNext, cells, Kivy!vars, Kivy!wizardVars, Kivy!engineVars, Kivy!pageVars,
       Kivy!testVars
  <2> QED
    BY <2>1, PressShows
<1> QED
  BY <1>1, <1>2, <1>3, PaintInvariant, KivyInvariant, PTL DEF PanelsAreTrue, CabinetSpec
-----------------------------------------------------------------------------
(* Loading the shelf.  The cells by the names that StockLoading gives them; *)
(* one that was taken has the word load before it.                         *)
loadShelf == c1
lastWeight == c2
previousTags == c3
sincePoll == c4
signals == c5
loadOn == c6
loadPage == c7
loadBusy == c8
loadTag == c9
before == c10
history == c11
countdown == c12
returns == c13
puts == c14
credited == c15
left == c16
loadCrossed == c17
loadFailed == c18

USE LoadingConstants DEF loadShelf, lastWeight, previousTags, sincePoll, signals, loadOn, loadPage,
    loadBusy, loadTag, before, history, countdown, returns, puts, credited, left, loadCrossed, loadFailed,
    Loading!LoadingAssumption

New == loadShelf \ previousTags

(* A can whose loading is under way: it is to be credited once more or to  *)
(* fail, and the oldest weight that was noted is the one from before it.   *)
Owes(t) == puts[t] = credited[t] + loadFailed[t] + 1 /\ Len(history) = BufferSize

(* What the screen shows, and what its timers may still do.                *)
ScreenHolds ==
  /\ ~loadOn => ~loadBusy /\ countdown = Loading!Stopped
  /\ loadPage # "stabilizing" => countdown = Loading!Stopped
  /\ loadOn /\ loadPage = "idle" => ~loadBusy
  /\ loadOn /\ loadPage = "stabilizing"
      => loadBusy /\ countdown # Loading!Stopped /\ loadTag \in LoadTags
  /\ loadOn => \A i \in DOMAIN returns : returns[i] + Len(history) <= ReturnAfter + 1

(* A can that was put down since the last poll: the screen waits, and the  *)
(* weights that were noted before it are those without it.                 *)
NewHolds ==
  /\ \A t, u \in New : t = u
  /\ New # {} => signals = <<>> /\ (loadOn => loadPage = "idle")
  /\ New # {} /\ loadOn =>
       \A i \in DOMAIN history : i + sincePoll + 1 <= Len(history) => history[i] # Loading!Weight
  /\ \A t \in New \ left :
       /\ loadOn /\ Owes(t)
       /\ \A i \in DOMAIN history : i + sincePoll <= Len(history)
           => history[i] = Loading!Weight - 1

(* One that was polled, and is on its way to the screen.                   *)
SignalHolds ==
  signals # <<>> =>
    /\ Len(signals) = 1 /\ loadOn /\ loadPage = "idle" /\ New = {} /\ ~Loading!ready
    /\ signals[1] \notin left => Owes(signals[1]) /\ history[1] = Loading!Weight - 1

(* And one that is weighed.                                                *)
TagHolds ==
  loadOn /\ loadPage = "stabilizing" /\ loadTag \notin left
      => Owes(loadTag) /\ before = Loading!Weight - 1

(* Every other can has been credited.                                      *)
UnderWay(t) == \/ t \in New \/ \E i \in DOMAIN signals : signals[i] = t
               \/ loadOn /\ loadPage = "stabilizing" /\ loadTag = t
RestHolds == \A t \in LoadTags \ left : UnderWay(t) \/ credited[t] + loadFailed[t] = puts[t]

LoadInv ==
  /\ Loading!TypeOK
  /\ (~loadCrossed => ScreenHolds /\ NewHolds /\ SignalHolds /\ TagHolds /\ RestHolds)

(* Loading has the operators of FiniteSets as its own.                     *)
LEMMA LoadSizes ==
  \A S : Loading!Cardinality(S) = Cardinality(S) /\ (Loading!IsFiniteSet(S) <=> IsFiniteSet(S))
BY DEF Loading!Cardinality, Cardinality, Loading!IsFiniteSet, IsFiniteSet

LEMMA WeightType ==
  ASSUME Loading!TypeOK
  PROVE  IsFiniteSet(loadShelf) /\ Loading!Weight \in Loading!Weights
        /\ Loading!Weights \subseteq Nat
<1>1. IsFiniteSet(loadShelf) /\ Cardinality(loadShelf) <= Cardinality(LoadTags)
  BY LoadSizes, FS_Subset DEF Loading!TypeOK
<1>2. Cardinality(loadShelf) \in Nat /\ Cardinality(LoadTags) \in Nat
  BY <1>1, LoadSizes, FS_CardinalityType
<1> QED
  BY <1>1, <1>2, LoadSizes DEF Loading!Weight, Loading!Weights

LEMMA StoppedType == Loading!Stopped \in Loading!Stopped .. Stabilize
BY DEF Loading!Stopped

LEMMA Lists ==
  ASSUME Loading!TypeOK
  PROVE  /\ Len(history) \in Nat /\ DOMAIN history = 1 .. Len(history)
         /\ Len(history) <= BufferSize
         /\ \A i \in 1 .. Len(history) : history[i] \in Loading!Weights
         /\ Len(returns) \in Nat /\ DOMAIN returns = 1 .. Len(returns)
         /\ \A i \in 1 .. Len(returns) : returns[i] \in 0 .. ReturnAfter
         /\ Len(signals) \in Nat /\ DOMAIN signals = 1 .. Len(signals)
         /\ \A i \in 1 .. Len(signals) : signals[i] \in LoadTags
<1>1. history \in Seq(Loading!Weights) /\ returns \in Seq(0 .. ReturnAfter)
      /\ signals \in Seq(LoadTags)
      /\ Len(history) <= BufferSize
  BY DEF Loading!TypeOK
<1> QED
  BY <1>1, LenProperties, ElementOfSeq

(* When the screen is ready, nothing is under way.                         *)
LEMMA ReadyIsClean ==
  ASSUME Loading!TypeOK, NewHolds, SignalHolds, RestHolds, Loading!ready
  PROVE  New = {} /\ signals = <<>> /\ \A t \in LoadTags \ left : credited[t] + loadFailed[t] = puts[t]
<1>1. New = {}
  <2> SUFFICES ASSUME New # {} PROVE FALSE
    OBVIOUS
  <2>1. loadOn /\ Len(history) = BufferSize /\ history[1] = Loading!Weight
    BY Lists DEF Loading!ready
  <2>2. sincePoll \in Nat /\ 1 + sincePoll + 1 <= Len(history)
    BY <2>1 DEF Loading!TypeOK
  <2>3. 1 \in DOMAIN history
    BY <2>2, Lists
  <2> QED
    BY <2>1, <2>2, <2>3 DEF NewHolds
<1>2. signals = <<>>
  BY DEF SignalHolds
<1>3. DOMAIN signals = {}
  BY <1>2, Lists
<1> QED
  BY <1>1, <1>2, <1>3 DEF RestHolds, UnderWay, Loading!ready

LEMMA LoadShows == LoadInv => Loading!LoadedOnce
BY ReadyIsClean DEF LoadInv, Loading!LoadedOnce

LEMMA LoadInit == Loading!Init => LoadInv
<1> SUFFICES ASSUME Loading!Init PROVE LoadInv
  OBVIOUS
<1>1. Cardinality({}) = 0 /\ Cardinality(LoadTags) \in Nat
  BY LoadSizes, FS_EmptySet, FS_CardinalityType
<1>2. 0 \in Loading!Weights
  BY <1>1, LoadSizes DEF Loading!Weights
<1>3. /\ signals = <<>> /\ history = <<>> /\ returns = <<>>
      /\ signals \in Seq(LoadTags) /\ history \in Seq(Loading!Weights)
      /\ returns \in Seq(0 .. ReturnAfter)
      /\ Len(history) = 0
  BY DEF Loading!Init
<1>4. sincePoll \in 0 .. RfidEvery /\ countdown \in Loading!Stopped .. Stabilize /\ 0 <= BufferSize
  BY DEF Loading!Init, Loading!Stopped
<1>5. Loading!TypeOK
  BY <1>2, <1>3, <1>4 DEF Loading!Init, Loading!TypeOK
<1>6. New = {} /\ Loading!Stopped = -1
  BY DEF Loading!Init, New, Loading!Stopped
<1>7. ScreenHolds /\ NewHolds /\ SignalHolds /\ TagHolds
  BY <1>3, <1>6 DEF Loading!Init, ScreenHolds, NewHolds, SignalHolds, TagHolds
<1>8. RestHolds
  BY DEF Loading!Init, RestHolds
<1> QED
  BY <1>5, <1>7, <1>8 DEF LoadInv

(* What is noted.                                                          *)
LEMMA NotedGives ==
  ASSUME Loading!TypeOK, NEW w \in Loading!Weights
  PROVE  /\ Loading!Noted(w) \in Seq(Loading!Weights) /\ Len(Loading!Noted(w)) <= BufferSize
         /\ Len(Loading!Noted(w)) \in Nat /\ DOMAIN Loading!Noted(w) = 1 .. Len(Loading!Noted(w))
         /\ Len(history) <= Len(Loading!Noted(w)) /\ Len(Loading!Noted(w)) <= Len(history) + 1
         /\ \A i \in 1 .. Len(Loading!Noted(w)) :
              i < Len(Loading!Noted(w))
                  => /\ i + Len(history) + 1 - Len(Loading!Noted(w)) \in 1 .. Len(history)
                                   /\ Loading!Noted(w)[i] = history[i + Len(history) + 1 - Len(Loading!Noted(w))]
<1> DEFINE h == Append(history, w)
<1>1. history \in Seq(Loading!Weights) /\ Len(history) \in Nat /\ Len(history) <= BufferSize
  BY Lists DEF Loading!TypeOK
<1>2. h \in Seq(Loading!Weights) /\ Len(h) = Len(history) + 1
      /\ \A i \in 1 .. Len(history) : h[i] = history[i]
  BY <1>1
<1>3. Loading!Noted(w) = IF Len(h) > BufferSize THEN Tail(h) ELSE h
  BY DEF Loading!Noted
<1> HIDE DEF h
<1>4. CASE Len(h) > BufferSize
  <2>1. Loading!Noted(w) = Tail(h) /\ h # <<>>
    BY <1>1, <1>2, <1>3, <1>4, EmptySeq
  <2>2. /\ Tail(h) \in Seq(Loading!Weights) /\ Len(Tail(h)) = Len(history)
        /\ \A i \in 1 .. Len(history) : Tail(h)[i] = h[i + 1]
    BY <1>1, <1>2, <2>1, HeadTailProperties
  <2>3. DOMAIN Tail(h) = 1 .. Len(Tail(h))
    BY <2>2, LenProperties
  <2>4. /\ Loading!Noted(w) \in Seq(Loading!Weights) /\ Len(Loading!Noted(w)) = Len(history)
        /\ DOMAIN Loading!Noted(w) = 1 .. Len(Loading!Noted(w))
        /\ \A i \in 1 .. Len(Loading!Noted(w)) : Loading!Noted(w)[i] = h[i + 1]
    BY <2>1, <2>2, <2>3
  <2>5. ASSUME NEW i \in 1 .. Len(Loading!Noted(w)), i < Len(Loading!Noted(w))
        PROVE  /\ i + Len(history) + 1 - Len(Loading!Noted(w)) \in 1 .. Len(history)
               /\ Loading!Noted(w)[i] = history[i + Len(history) + 1 - Len(Loading!Noted(w))]
    <3>1. i + 1 \in 1 .. Len(history) /\ i + Len(history) + 1 - Len(Loading!Noted(w)) = i + 1
      BY <1>1, <2>4, <2>5
    <3> QED
      BY <1>2, <2>4, <3>1
  <2> QED
    BY <1>1, <2>4, <2>5
<1>5. CASE ~(Len(h) > BufferSize)
  <2>1. Loading!Noted(w) = h /\ DOMAIN h = 1 .. Len(h)
    BY <1>2, <1>3, <1>5, LenProperties
  <2>2. \A i \in 1 .. Len(h) : i < Len(h) =>
           /\ i \in 1 .. Len(history)
           /\ i + Len(history) + 1 - Len(h) = i
    BY <1>1, <1>2
  <2> QED
    BY <1>1, <1>2, <1>5, <2>1, <2>2
<1> QED
  BY <1>4, <1>5

LEMMA TickTypes ==
  ASSUME Loading!TypeOK, Loading!HalfSecond
  PROVE  /\ Loading!TypeOK'
         /\ UNCHANGED <<loadShelf, puts, left, previousTags, signals, loadOn, loadPage, loadBusy,
                    loadTag, before,
                                   credited, loadFailed, loadCrossed>>
         /\ sincePoll' = sincePoll + 1 /\ sincePoll \in Nat /\ signals = <<>>
         /\ (countdown' = Loading!Stopped <=> countdown = Loading!Stopped)
         /\ DOMAIN returns' = DOMAIN returns
         /\ \A i \in DOMAIN returns : returns'[i] = returns[i] - 1
         /\ \/ history' = history /\ ~(loadOn /\ loadPage = "idle")
            \/ \E w \in Loading!Weights : history' = Loading!Noted(w)
<1>1. UNCHANGED <<loadShelf, puts, left, previousTags, signals, loadOn, loadPage, loadBusy,
    loadTag, before,
                  credited, loadFailed, loadCrossed>> /\ signals = <<>>
  BY DEF Loading!HalfSecond, Loading!shelfVars, Loading!creditVars
<1>2. sincePoll' = sincePoll + 1 /\ sincePoll \in Nat /\ sincePoll' \in 0 .. RfidEvery
  BY DEF Loading!HalfSecond, Loading!TypeOK
<1>3. lastWeight' \in Loading!Weights
  BY WeightType DEF Loading!HalfSecond, Loading!TypeOK
<1>4. /\ history' = history /\ ~(loadOn /\ loadPage = "idle")
      \/ \E w \in Loading!Weights : history' = Loading!Noted(w)
  BY WeightType DEF Loading!HalfSecond, Loading!TypeOK
<1>5. history' \in Seq(Loading!Weights) /\ Len(history') <= BufferSize
  BY <1>4, NotedGives DEF Loading!TypeOK
<1>6. (countdown' = Loading!Stopped <=> countdown = Loading!Stopped)
      /\ countdown' \in Loading!Stopped .. Stabilize
  BY DEF Loading!HalfSecond, Loading!TypeOK, Loading!Stopped
<1>7. /\ DOMAIN returns' = DOMAIN returns /\ \A i \in DOMAIN returns : returns'[i] = returns[i] - 1
      /\ returns' \in Seq(0 .. ReturnAfter)
  <2>1. returns' = [i \in DOMAIN returns |-> returns[i] - 1]
        /\ \A i \in DOMAIN returns : returns[i] > 0
    BY DEF Loading!HalfSecond
  <2>2. DOMAIN returns = 1 .. Len(returns) /\ Len(returns) \in Nat
        /\ \A i \in 1 .. Len(returns) : returns[i] - 1 \in 0 .. ReturnAfter
    BY <2>1, Lists
  <2>3. returns' \in [1 .. Len(returns) -> 0 .. ReturnAfter]
    BY <2>1, <2>2
  <2> QED
    BY <2>1, <2>2, <2>3, SeqDef
<1>8. Loading!TypeOK'
  BY <1>1, <1>2, <1>3, <1>5, <1>6, <1>7 DEF Loading!TypeOK
<1> QED
  BY <1>1, <1>2, <1>4, <1>6, <1>7, <1>8

LEMMA TickKeeps == ASSUME LoadInv, Loading!HalfSecond PROVE LoadInv'
<1>0. Loading!TypeOK
  BY DEF LoadInv
<1>1. /\ Loading!TypeOK'
      /\ UNCHANGED <<loadShelf, puts, left, previousTags, signals, loadOn, loadPage, loadBusy,
                 loadTag, before,
                                credited, loadFailed, loadCrossed>>
      /\ sincePoll' = sincePoll + 1 /\ sincePoll \in Nat /\ signals = <<>>
      /\ (countdown' = Loading!Stopped <=> countdown = Loading!Stopped)
      /\ DOMAIN returns' = DOMAIN returns /\ \A i \in DOMAIN returns : returns'[i] = returns[i] - 1
      /\ \/ history' = history /\ ~(loadOn /\ loadPage = "idle")
         \/ \E w \in Loading!Weights : history' = Loading!Noted(w)
  BY <1>0, TickTypes
<1> SUFFICES ASSUME ~loadCrossed
             PROVE (ScreenHolds /\ NewHolds /\ SignalHolds /\ TagHolds /\ RestHolds)'
  BY <1>1 DEF LoadInv
<1>2. ScreenHolds /\ NewHolds /\ SignalHolds /\ TagHolds /\ RestHolds
  BY <1>1 DEF LoadInv
<1>3. New' = New /\ Loading!Weight' = Loading!Weight /\ Loading!Weight \in Nat
  BY <1>0, <1>1, WeightType DEF New, Loading!Weight
<1>4. /\ Len(history) \in Nat /\ Len(history') \in Nat /\ Len(history) <= Len(history')
      /\ Len(history') <= Len(history) + 1 /\ Len(history') <= BufferSize
      /\ DOMAIN history = 1 .. Len(history) /\ DOMAIN history' = 1 .. Len(history')
  BY <1>0, <1>1, Lists, NotedGives
<1>11. /\ Len(history) = BufferSize => Len(history') = BufferSize
       /\ UNCHANGED <<puts, credited, loadFailed, loadTag>>
  <2>1. UNCHANGED <<puts, credited, loadFailed, loadTag>>
    BY <1>1
  <2>2. Len(history) = BufferSize => Len(history') = BufferSize
    <3> DEFINE m == Len(history)
               n == Len(history')
    <3>1. m \in Nat /\ n \in Nat /\ m <= n /\ n <= BufferSize
      BY <1>4
    <3> HIDE DEF m, n
    <3>2. m = BufferSize => n = BufferSize
      BY <3>1
    <3> QED
      BY <3>2 DEF m, n
  <2> QED
    BY <2>1, <2>2
<1>5. ASSUME NEW i \in DOMAIN history', i + 1 <= Len(history'), ~(history' = history)
      PROVE  /\ i + Len(history) + 1 - Len(history') \in DOMAIN history
             /\ history'[i] = history[i + Len(history) + 1 - Len(history')]
  <2>1. PICK w \in Loading!Weights : history' = Loading!Noted(w)
    BY <1>1, <1>5
  <2>2. i \in 1 .. Len(Loading!Noted(w)) /\ i < Len(Loading!Noted(w))
    BY <1>4, <1>5, <2>1
  <2> QED
    BY <1>0, <1>4, <2>1, <2>2, NotedGives
<1>6. ScreenHolds'
  <2>1. ASSUME loadOn, NEW i \in DOMAIN returns
        PROVE returns'[i] + Len(history') <= ReturnAfter + 1
    <3>1. returns[i] \in Nat /\ returns[i] + Len(history) <= ReturnAfter + 1
      BY <1>0, <1>2, <2>1, Lists DEF ScreenHolds
    <3> QED
      BY <1>1, <1>4, <3>1
  <2> QED
    BY <1>1, <1>2, <2>1 DEF ScreenHolds
<1>7. NewHolds'
  <2>1. ASSUME New # {}, loadOn, NEW i \in DOMAIN history', i + sincePoll' + 1 <= Len(history')
        PROVE  history'[i] # Loading!Weight
    <3>1. CASE history' = history
      BY <1>1, <1>2, <1>4, <2>1, <3>1 DEF NewHolds
    <3>2. CASE history' # history
      <4> DEFINE j == i + Len(history) + 1 - Len(history')
      <4>1. i \in Nat /\ i + 1 <= Len(history')
        BY <1>1, <1>4, <2>1
      <4>2. j \in DOMAIN history /\ history'[i] = history[j]
        BY <1>5, <3>2, <4>1
      <4>3. j + sincePoll + 1 <= Len(history)
        BY <1>1, <1>4, <2>1, <4>1
      <4> HIDE DEF j
      <4> QED
        BY <1>2, <2>1, <4>2, <4>3 DEF NewHolds
    <3> QED
      BY <3>1, <3>2
  <2>2. ASSUME NEW t \in New \ left
        PROVE  loadOn /\ Owes(t)' /\ \A i \in DOMAIN history' :
                 i + sincePoll' <= Len(history') => history'[i] = Loading!Weight - 1
    <3>1. loadOn /\ Owes(t) /\ \A i \in DOMAIN history :
             i + sincePoll <= Len(history) => history[i] = Loading!Weight - 1
      BY <1>2, <2>2 DEF NewHolds
    <3>2. Owes(t)'
      BY <1>11, <3>1 DEF Owes
    <3>3. ASSUME NEW i \in DOMAIN history', i + sincePoll' <= Len(history')
          PROVE  history'[i] = Loading!Weight - 1
      <4>1. CASE history' = history
        BY <1>1, <1>4, <3>1, <3>3, <4>1
      <4>2. CASE history' # history
        <5> DEFINE j == i + Len(history) + 1 - Len(history')
        <5>1. i \in Nat /\ i + 1 <= Len(history')
          BY <1>1, <1>4, <3>3
        <5>2. j \in DOMAIN history /\ history'[i] = history[j]
          BY <1>5, <4>2, <5>1
        <5>3. j + sincePoll <= Len(history)
          BY <1>1, <1>4, <3>3, <5>1
        <5> HIDE DEF j
        <5> QED
          BY <3>1, <5>2, <5>3
      <4> QED
        BY <4>1, <4>2
    <3> QED
      BY <3>1, <3>2, <3>3
  <2> QED
    BY <1>1, <1>2, <1>3, <2>1, <2>2 DEF NewHolds
<1>8. SignalHolds'
  BY <1>1 DEF SignalHolds
<1>9. TagHolds'
  <2> SUFFICES ASSUME loadOn, loadPage = "stabilizing", loadTag \notin left
               PROVE Owes(loadTag)' /\ before = Loading!Weight - 1
    BY <1>1, <1>3 DEF TagHolds
  <2>1. Owes(loadTag) /\ before = Loading!Weight - 1
    BY <1>2 DEF TagHolds
  <2> QED
    BY <1>11, <2>1 DEF Owes
<1>10. RestHolds'
  BY <1>1, <1>2, <1>3 DEF RestHolds, UnderWay
<1> QED
  BY <1>6, <1>7, <1>8, <1>9, <1>10

LEMMA PollKeeps == ASSUME LoadInv, Loading!PollTags PROVE LoadInv'
<1>0. Loading!TypeOK
  BY DEF LoadInv
<1>1. /\ sincePoll = RfidEvery /\ sincePoll' = 0 /\ previousTags' = loadShelf
      /\ UNCHANGED <<loadShelf, puts, left, lastWeight, loadOn, loadPage, loadBusy, loadTag,
                 before, history, countdown,
                     returns, credited, loadFailed, loadCrossed>>
  BY DEF Loading!PollTags, Loading!shelfVars, Loading!screenVars, Loading!timerVars, Loading!creditVars
<1>2. PICK new \in Loading!Notified(New) : signals' = signals \o new
  BY DEF Loading!PollTags, New
<1>3. New \subseteq LoadTags /\ IsFiniteSet(New) /\ Cardinality(New) \in Nat
  <2>1. New \subseteq loadShelf
    BY DEF New
  <2> QED
    BY <1>0, <2>1, WeightType, FS_Subset, FS_CardinalityType DEF Loading!TypeOK
<1>4. new \in Seq(LoadTags)
  <2>1. new = <<>> \/ new \in [1 .. Cardinality(New) -> New]
    BY LoadSizes DEF Loading!Notified
  <2>2. new \in [1 .. Cardinality(New) -> New] => new \in [1 .. Cardinality(New) -> LoadTags]
    BY <1>3
  <2>3. [1 .. Cardinality(New) -> LoadTags] \subseteq Seq(LoadTags)
    BY <1>3, SeqDef
  <2> QED
    BY <2>1, <2>2, <2>3, EmptySeq
<1>5. signals \in Seq(LoadTags) /\ signals' \in Seq(LoadTags)
  BY <1>0, <1>2, <1>4, ConcatProperties DEF Loading!TypeOK
<1>6. Loading!TypeOK'
  BY <1>0, <1>1, <1>5 DEF Loading!TypeOK
<1> SUFFICES ASSUME ~loadCrossed
             PROVE (ScreenHolds /\ NewHolds /\ SignalHolds /\ TagHolds /\ RestHolds)'
  BY <1>1, <1>6 DEF LoadInv
<1>7. ScreenHolds /\ NewHolds /\ SignalHolds /\ TagHolds /\ RestHolds
  BY DEF LoadInv
<1>8. New' = {} /\ Loading!Weight' = Loading!Weight /\ Loading!ready' = Loading!ready
  BY <1>1 DEF New, Loading!Weight, Loading!ready
<1>9. ScreenHolds' /\ NewHolds'
  BY <1>1, <1>7, <1>8 DEF ScreenHolds, NewHolds
<1>10. TagHolds'
  BY <1>1, <1>7, <1>8 DEF TagHolds, Owes
<1>11. CASE new = <<>>
  <2>1. signals' = signals
    BY <1>2, <1>5, <1>11, ConcatEmptySeq
  <2>2. SignalHolds'
    BY <1>1, <1>7, <1>8, <2>1 DEF SignalHolds, Owes
  <2>3. \A t \in New : t \in left
    <3>1. CASE ~loadOn
      BY <1>7, <3>1 DEF NewHolds
    <3>2. CASE loadOn
      <4>1. new \in [1 .. Cardinality(New) -> New] /\ DOMAIN new = 1 .. Cardinality(New)
        BY <3>2, LoadSizes DEF Loading!Notified
      <4>2. DOMAIN new = {}
        BY <1>11, EmptySeq, LenProperties
      <4>3. Cardinality(New) = 0
        BY <1>3, <4>1, <4>2
      <4> QED
        BY <1>3, <4>3, FS_EmptySet
    <3> QED
      BY <3>1, <3>2
  <2>4. RestHolds'
    BY <1>1, <1>7, <2>1, <2>3 DEF RestHolds, UnderWay
  <2> QED
    BY <1>9, <1>10, <2>2, <2>4
<1>12. CASE new # <<>>
  <2>1. loadOn /\ new \in [1 .. Cardinality(New) -> New]
    BY <1>12, LoadSizes DEF Loading!Notified
  <2>2. New # {}
    <3> SUFFICES ASSUME New = {} PROVE FALSE
      OBVIOUS
    <3>1. Cardinality(New) = 0
      BY FS_EmptySet
    <3>2. Len(new) = 0
      BY <1>4, <2>1, <3>1, LenProperties
    <3> QED
      BY <1>4, <1>12, <3>2, EmptySeq
  <2>3. PICK t \in New : New = {t}
    BY <1>7, <2>2 DEF NewHolds
  <2>4. Cardinality(New) = 1
    BY <2>3, FS_Singleton
  <2>5. Len(new) = 1 /\ new[1] = t
    <3>1. Len(new) \in Nat /\ DOMAIN new = 1 .. Len(new) /\ DOMAIN new = 1 .. 1
      BY <1>4, <2>1, <2>4, LenProperties
    <3>2. ASSUME NEW m \in Nat, 1 .. m = 1 .. 1 PROVE m = 1
      <4>1. 1 \in 1 .. m
        BY <3>2
      <4>2. m >= 1
        BY <4>1
      <4>3. m \in 1 .. m
        BY <4>2
      <4>4. m \in 1 .. 1
        BY <3>2, <4>3
      <4> QED
        BY <4>2, <4>4
    <3>3. Len(new) = 1
      BY <3>1, <3>2
    <3> QED
      BY <2>1, <2>3, <2>4, <3>3
  <2>6. signals = <<>> /\ loadPage = "idle"
    BY <1>7, <2>1, <2>2 DEF NewHolds
  <2>7. signals' = new
    BY <1>2, <1>4, <2>6, ConcatEmptySeq
  <2>8. ~Loading!ready
    <3> SUFFICES ASSUME Loading!ready PROVE FALSE
      OBVIOUS
    <3>1. New = {}
      BY <1>0, <1>7, ReadyIsClean
    <3> QED
      BY <2>2, <3>1
  <2>9. ASSUME t \notin left PROVE Owes(t) /\ history[1] = Loading!Weight - 1
    <3>1. /\ Owes(t)
          /\ \A i \in DOMAIN history : i + sincePoll <= Len(history)
              => history[i] = Loading!Weight - 1
      BY <1>7, <2>9 DEF NewHolds
    <3>2. Len(history) = BufferSize /\ DOMAIN history = 1 .. Len(history)
      BY <1>0, <3>1, Lists DEF Owes
    <3>3. 1 \in DOMAIN history /\ 1 + sincePoll <= Len(history)
      BY <1>1, <3>2
    <3> QED
      BY <3>1, <3>3
  <2>10. SignalHolds'
    BY <1>1, <1>8, <2>1, <2>5, <2>6, <2>7, <2>8, <2>9 DEF SignalHolds, Owes
  <2>11. DOMAIN signals' = {1} /\ DOMAIN signals = {}
    BY <1>4, <2>5, <2>6, <2>7, LenProperties, EmptySeq
  <2>12. RestHolds'
    BY <1>1, <1>7, <2>3, <2>5, <2>7, <2>11 DEF RestHolds, UnderWay
  <2> QED
    BY <1>9, <1>10, <2>10, <2>12
<1> QED
  BY <1>11, <1>12

LEMMA HandleKeeps == ASSUME LoadInv, Loading!HandleCan PROVE LoadInv'
<1>0. Loading!TypeOK
  BY DEF LoadInv
<1>1. /\ signals # <<>> /\ signals' = Tail(signals)
      /\ UNCHANGED <<loadShelf, puts, left, lastWeight, previousTags, sincePoll, loadOn, history,
                 returns,
                     credited, loadFailed, loadCrossed>>
  BY DEF Loading!HandleCan, Loading!shelfVars, Loading!engineVars, Loading!screenVars,
         Loading!timerVars, Loading!creditVars
<1>2. signals \in Seq(LoadTags) /\ signals' \in Seq(LoadTags) /\ Head(signals) \in LoadTags
      /\ Head(signals) = signals[1] /\ Len(signals') = Len(signals) - 1
  <2> DEFINE s == signals
  <2>1. s \in Seq(LoadTags) /\ s # <<>>
    BY <1>0, <1>1 DEF Loading!TypeOK
  <2> HIDE DEF s
  <2>2. Head(s) \in LoadTags /\ Tail(s) \in Seq(LoadTags) /\ Head(s) = s[1]
        /\ Len(Tail(s)) = Len(s) - 1
    BY <2>1, HeadTailProperties
  <2> QED
    BY <1>1, <2>1, <2>2 DEF s
<1>3. Loading!Before \in Loading!Weights /\ (Len(history) >= 2 => Loading!Before = history[1])
  BY <1>0, Lists DEF Loading!Before, Loading!TypeOK
<1>4. Loading!TypeOK'
  <2>1. CASE loadBusy
    BY <1>0, <1>1, <1>2, <2>1
       DEF Loading!TypeOK, Loading!HandleCan, Loading!screenVars, Loading!timerVars, Loading!creditVars
  <2>2. CASE ~loadBusy
    <3>1. /\ before' \in Loading!Weights /\ loadTag' \in LoadTags /\ loadBusy' = TRUE
          /\ loadPage' = "stabilizing"
          /\ countdown' = Stabilize
      BY <1>2, <1>3, <2>2 DEF Loading!HandleCan
    <3>2. countdown' \in Loading!Stopped .. Stabilize
      BY <3>1 DEF Loading!Stopped
    <3> QED
      BY <1>0, <1>1, <1>2, <3>1, <3>2 DEF Loading!TypeOK
  <2> QED
    BY <2>1, <2>2
<1> SUFFICES ASSUME ~loadCrossed
             PROVE (ScreenHolds /\ NewHolds /\ SignalHolds /\ TagHolds /\ RestHolds)'
  BY <1>1, <1>4 DEF LoadInv
<1>5. ScreenHolds /\ NewHolds /\ SignalHolds /\ TagHolds /\ RestHolds
  BY DEF LoadInv
<1>6. /\ Len(signals) = 1 /\ loadOn /\ loadPage = "idle" /\ New = {} /\ ~loadBusy
      /\ signals[1] \notin left => Owes(signals[1]) /\ history[1] = Loading!Weight - 1
  BY <1>1, <1>5 DEF SignalHolds, ScreenHolds
<1>7. signals' = <<>> /\ DOMAIN signals' = {} /\ DOMAIN signals = {1}
  <2>1. Len(signals') = 0
    BY <1>2, <1>6
  <2> QED
    BY <1>2, <1>6, <2>1, EmptySeq, LenProperties
<1>8. /\ before' = Loading!Before /\ loadTag' = signals[1] /\ loadBusy' = TRUE
      /\ loadPage' = "stabilizing"
      /\ countdown' = Stabilize /\ countdown' # Loading!Stopped
  BY <1>2, <1>6 DEF Loading!HandleCan, Loading!Stopped
<1>9. New' = New /\ Loading!Weight' = Loading!Weight
  BY <1>1 DEF New, Loading!Weight
<1>10. ScreenHolds'
  BY <1>1, <1>2, <1>5, <1>6, <1>8 DEF ScreenHolds
<1>11. NewHolds' /\ SignalHolds'
  BY <1>6, <1>7, <1>9 DEF NewHolds, SignalHolds
<1>12. TagHolds'
  <2> SUFFICES ASSUME signals[1] \notin left PROVE Owes(signals[1]) /\ before' = Loading!Weight - 1
    BY <1>1, <1>8, <1>9 DEF TagHolds, Owes
  <2>1. Owes(signals[1]) /\ history[1] = Loading!Weight - 1
    BY <1>6
  <2>2. Len(history) >= 2
    BY <2>1 DEF Owes
  <2> QED
    BY <1>3, <1>8, <2>1, <2>2
<1>13. RestHolds'
  <2> SUFFICES ASSUME NEW t \in LoadTags \ left PROVE UnderWay(t)' \/ credited[t] + loadFailed[t] = puts[t]
    BY <1>1 DEF RestHolds
  <2>1. UnderWay(t) => t = signals[1]
    BY <1>6, <1>7 DEF UnderWay
  <2>2. t = signals[1] => UnderWay(t)'
    BY <1>1, <1>6, <1>8 DEF UnderWay
  <2> QED
    BY <1>5, <2>1, <2>2 DEF RestHolds
<1> QED
  BY <1>10, <1>11, <1>12, <1>13

LEMMA FinalizeKeeps == ASSUME LoadInv, Loading!Finalize PROVE LoadInv'
<1>0. Loading!TypeOK
  BY DEF LoadInv
<1>1. /\ countdown = 0 /\ countdown' = Loading!Stopped
      /\ UNCHANGED <<loadShelf, puts, left, lastWeight, previousTags, sincePoll, signals, loadOn,
                 loadTag, before,
                     loadCrossed>>
  BY DEF Loading!Finalize, Loading!shelfVars, Loading!engineVars
<1>2. \A read \in {0, Loading!Weight} : Loading!Net(read) > 0
        => Loading!Net(read) \in Nat /\ (before = Loading!Weight - 1 => Loading!Net(read) = 1)
  BY <1>0, WeightType DEF Loading!Net, Loading!TypeOK
<1>3. CASE loadTag = Loading!NoCan
  <2>1. loadPage' = "idle" /\ loadBusy' = FALSE /\ UNCHANGED <<history, returns, credited, loadFailed>>
    BY <1>3 DEF Loading!Finalize, Loading!creditVars
  <2>2. Loading!TypeOK'
    BY <1>0, <1>1, <2>1, StoppedType DEF Loading!TypeOK
  <2>3. ~loadCrossed => FALSE
    <3> SUFFICES ASSUME ~loadCrossed PROVE FALSE
      OBVIOUS
    <3>1. countdown # Loading!Stopped
      BY <1>1 DEF Loading!Stopped
    <3>2. loadOn /\ loadPage = "stabilizing" /\ loadTag \in LoadTags
      BY <3>1 DEF LoadInv, ScreenHolds
    <3> QED
      BY <1>3, <3>2 DEF Loading!NoCan
  <2> QED
    BY <1>1, <2>2, <2>3 DEF LoadInv
<1>4. CASE loadTag # Loading!NoCan
  <2>1. /\ \/ \E read \in {0, Loading!Weight} :
                /\ Loading!Net(read) > 0
                /\ credited' = [credited EXCEPT ![loadTag] = @ + Loading!Net(read)]
                /\ loadFailed' = loadFailed
           \/ loadFailed' = [loadFailed EXCEPT ![loadTag] = @ + 1] /\ credited' = credited
        /\ loadPage' = "success" /\ history' = <<>>
        /\ returns' = Append(returns, ReturnAfter) /\ loadBusy' = loadBusy
    BY <1>4 DEF Loading!Finalize
  <2>2. /\ loadTag \in LoadTags
        /\ credited' \in [LoadTags -> Nat] /\ loadFailed' \in [LoadTags -> Nat]
        /\ \A t \in LoadTags : t # loadTag => credited'[t] = credited[t] /\ loadFailed'[t] = loadFailed[t]
        /\ before = Loading!Weight - 1
             => credited'[loadTag] + loadFailed'[loadTag] = credited[loadTag] + loadFailed[loadTag] + 1
    <3>1. /\ loadTag \in LoadTags
          /\ credited \in [LoadTags -> Nat] /\ loadFailed \in [LoadTags -> Nat]
      BY <1>0, <1>4 DEF Loading!TypeOK
    <3>2. CASE loadFailed' = [loadFailed EXCEPT ![loadTag] = @ + 1] /\ credited' = credited
      BY <3>1, <3>2
    <3>3. ASSUME NEW n \in Nat, before = Loading!Weight - 1 => n = 1,
                 credited' = [credited EXCEPT ![loadTag] = @ + n], loadFailed' = loadFailed
          PROVE  /\ credited' \in [LoadTags -> Nat] /\ loadFailed' \in [LoadTags -> Nat]
                 /\ \A t \in LoadTags :
                      t # loadTag => credited'[t] = credited[t] /\ loadFailed'[t] = loadFailed[t]
                 /\ before = Loading!Weight - 1
                      => credited'[loadTag] + loadFailed'[loadTag]
                            = credited[loadTag] + loadFailed[loadTag] + 1
      BY <3>1, <3>3
    <3> QED
      <4>1. ASSUME NEW read \in {0, Loading!Weight}, Loading!Net(read) > 0,
                   credited' = [credited EXCEPT ![loadTag] = @ + Loading!Net(read)],
                   loadFailed' = loadFailed
            PROVE  /\ credited' \in [LoadTags -> Nat] /\ loadFailed' \in [LoadTags -> Nat]
                   /\ \A t \in LoadTags :
                        t # loadTag => credited'[t] = credited[t] /\ loadFailed'[t] = loadFailed[t]
                   /\ before = Loading!Weight - 1
                        => credited'[loadTag] + loadFailed'[loadTag]
                              = credited[loadTag] + loadFailed[loadTag] + 1
        BY <1>2, <4>1, <3>3
      <4> QED
        BY <2>1, <3>1, <3>2, <4>1
  <2>3. returns \in Seq(0 .. ReturnAfter) /\ ReturnAfter \in 0 .. ReturnAfter
    BY <1>0 DEF Loading!TypeOK
  <2>4. /\ returns' \in Seq(0 .. ReturnAfter) /\ DOMAIN returns' = 1 .. Len(returns')
        /\ history' \in Seq(Loading!Weights) /\ Len(history') = 0 /\ DOMAIN history' = {}
    <3>1. returns' \in Seq(0 .. ReturnAfter)
      BY <2>1, <2>3
    <3>2. history' \in Seq(Loading!Weights) /\ Len(history') = 0
      BY <2>1, EmptySeq
    <3> QED
      BY <3>1, <3>2, LenProperties
  <2>5. Loading!TypeOK'
    <3>1. loadPage' = "success" /\ loadBusy' = loadBusy /\ Len(history') <= BufferSize
      BY <2>1, <2>4
    <3> QED
      BY <1>0, <1>1, <2>2, <2>4, <3>1, StoppedType DEF Loading!TypeOK
  <2> SUFFICES ASSUME ~loadCrossed
               PROVE (ScreenHolds /\ NewHolds /\ SignalHolds /\ TagHolds /\ RestHolds)'
    BY <1>1, <2>5 DEF LoadInv
  <2>6. ScreenHolds /\ NewHolds /\ SignalHolds /\ TagHolds /\ RestHolds
    BY DEF LoadInv
  <2>7. loadOn /\ loadPage = "stabilizing" /\ loadBusy
    BY <1>1, <2>6 DEF ScreenHolds, Loading!Stopped
  <2>8. signals = <<>> /\ New = {} /\ DOMAIN signals = {}
    <3>1. signals = <<>> /\ New = {}
      BY <2>6, <2>7 DEF NewHolds, SignalHolds
    <3> QED
      BY <1>0, <3>1, EmptySeq, LenProperties DEF Loading!TypeOK
  <2>9. New' = {}
    BY <1>1, <2>8 DEF New
  <2>10. ScreenHolds'
    <3>1. \A i \in DOMAIN returns' : returns'[i] \in 0 .. ReturnAfter
      BY <2>4, ElementOfSeq
    <3>2. \A i \in DOMAIN returns' : returns'[i] + Len(history') <= ReturnAfter + 1
      BY <2>4, <3>1
    <3> QED
      BY <1>1, <2>1, <2>7, <3>2 DEF ScreenHolds
  <2>11. NewHolds' /\ SignalHolds' /\ TagHolds'
    BY <1>1, <2>1, <2>8, <2>9 DEF NewHolds, SignalHolds, TagHolds
  <2>12. RestHolds'
    <3> SUFFICES ASSUME NEW t \in LoadTags \ left PROVE credited'[t] + loadFailed'[t] = puts[t]
      BY <1>1 DEF RestHolds
    <3>1. CASE t = loadTag
      <4>1. puts[loadTag] = credited[loadTag] + loadFailed[loadTag] + 1 /\ before = Loading!Weight - 1
        BY <2>6, <2>7, <3>1 DEF TagHolds, Owes
      <4> QED
        BY <1>2, <2>2, <3>1, <4>1
    <3>2. CASE t # loadTag
      BY <2>2, <2>6, <2>8, <3>2 DEF RestHolds, UnderWay
    <3> QED
      BY <3>1, <3>2
  <2> QED
    BY <2>10, <2>11, <2>12
<1> QED
  BY <1>3, <1>4

LEMMA LoadReturns == ASSUME LoadInv, Loading!ReturnToIdle PROVE LoadInv'
<1>0. Loading!TypeOK
  BY DEF LoadInv
<1>1. /\ returns # <<>> /\ Head(returns) = 0 /\ returns' = Tail(returns)
      /\ loadBusy' = FALSE /\ loadTag' = Loading!NoCan /\ loadPage' = "idle"
      /\ countdown' = Loading!Stopped
      /\ UNCHANGED <<loadShelf, puts, left, lastWeight, previousTags, sincePoll, signals, loadOn,
                 before, history,
                     credited, loadFailed, loadCrossed>>
  BY DEF Loading!ReturnToIdle, Loading!shelfVars, Loading!engineVars, Loading!creditVars
<1>2. /\ returns \in Seq(0 .. ReturnAfter) /\ returns' \in Seq(0 .. ReturnAfter)
      /\ DOMAIN returns' = 1 .. Len(returns') /\ DOMAIN returns = 1 .. Len(returns)
      /\ Len(returns') = Len(returns) - 1 /\ Len(returns) \in Nat
      /\ \A i \in DOMAIN returns' : i + 1 \in DOMAIN returns /\ returns'[i] = returns[i + 1]
      /\ 1 \in DOMAIN returns /\ returns[1] = 0
  <2> DEFINE s == returns
  <2>1. s \in Seq(0 .. ReturnAfter) /\ s # <<>>
    BY <1>0, <1>1 DEF Loading!TypeOK
  <2> HIDE DEF s
  <2>2. /\ Tail(s) \in Seq(0 .. ReturnAfter) /\ Len(Tail(s)) = Len(s) - 1 /\ Head(s) = s[1]
        /\ \A i \in 1 .. Len(Tail(s)) : Tail(s)[i] = s[i+1]
    BY <2>1, HeadTailProperties
  <2>3. DOMAIN s = 1 .. Len(s) /\ DOMAIN Tail(s) = 1 .. Len(Tail(s)) /\ Len(s) \in Nat \ {0}
    BY <2>1, <2>2, LenProperties, EmptySeq
  <2>4. 1 \in DOMAIN s /\ \A i \in DOMAIN Tail(s) : i + 1 \in DOMAIN s /\ Tail(s)[i] = s[i + 1]
    BY <2>2, <2>3
  <2> QED
    BY <1>1, <2>1, <2>2, <2>3, <2>4 DEF s
<1>3. Loading!TypeOK'
  BY <1>0, <1>1, <1>2, StoppedType DEF Loading!TypeOK
<1> SUFFICES ASSUME ~loadCrossed
             PROVE (ScreenHolds /\ NewHolds /\ SignalHolds /\ TagHolds /\ RestHolds)'
  BY <1>1, <1>3 DEF LoadInv
<1>4. ScreenHolds /\ NewHolds /\ SignalHolds /\ TagHolds /\ RestHolds
  BY DEF LoadInv
<1>5. New' = New /\ Loading!Weight' = Loading!Weight
  BY <1>1 DEF New, Loading!Weight
<1>6. loadOn => ~(Len(history) = BufferSize)
  <2>1. loadOn => 0 + Len(history) <= ReturnAfter + 1
    BY <1>2, <1>4 DEF ScreenHolds
  <2>2. Len(history) \in Nat
    BY <1>0, Lists
  <2> QED
    BY <2>1, <2>2
<1>7. ScreenHolds'
  <2>1. loadOn => \A i \in DOMAIN returns' : returns'[i] + Len(history) <= ReturnAfter + 1
    BY <1>2, <1>4 DEF ScreenHolds
  <2> QED
    BY <1>1, <2>1 DEF ScreenHolds
<1>8. NewHolds' /\ TagHolds'
  BY <1>1, <1>4, <1>5 DEF NewHolds, TagHolds, Owes
<1>9. SignalHolds'
  BY <1>1, <1>4, <1>5, <1>6 DEF SignalHolds, Owes, Loading!ready
<1>10. RestHolds'
  <2> SUFFICES ASSUME NEW t \in LoadTags \ left PROVE UnderWay(t)' \/ credited[t] + loadFailed[t] = puts[t]
    BY <1>1 DEF RestHolds
  <2>1. ~(loadOn /\ loadPage = "stabilizing" /\ loadTag = t)
    BY <1>4, <1>6 DEF TagHolds, Owes
  <2> QED
    BY <1>1, <1>4, <1>5, <2>1 DEF RestHolds, UnderWay
<1> QED
  BY <1>7, <1>8, <1>9, <1>10

LEMMA EnterKeeps == ASSUME LoadInv, Loading!Enter PROVE LoadInv'
<1>0. Loading!TypeOK
  BY DEF LoadInv
<1>1. /\ ~loadOn /\ loadOn' = TRUE /\ loadBusy' = FALSE /\ loadPage' = "idle"
      /\ history' = <<lastWeight>>
      /\ UNCHANGED <<loadShelf, puts, left, lastWeight, previousTags, sincePoll, signals, loadTag,
                 before,
                     countdown, returns, credited, loadFailed, loadCrossed>>
  BY DEF Loading!Enter, Loading!shelfVars, Loading!engineVars, Loading!timerVars, Loading!creditVars
<1>2. history' \in Seq(Loading!Weights) /\ Len(history') = 1 /\ Len(history') <= BufferSize
      /\ DOMAIN history' = {1}
  <2>1. lastWeight \in Loading!Weights
    BY <1>0 DEF Loading!TypeOK
  <2> QED
    BY <1>1, <2>1
<1>3. Loading!TypeOK'
  BY <1>0, <1>1, <1>2 DEF Loading!TypeOK
<1> SUFFICES ASSUME ~loadCrossed
             PROVE (ScreenHolds /\ NewHolds /\ SignalHolds /\ TagHolds /\ RestHolds)'
  BY <1>1, <1>3 DEF LoadInv
<1>4. ScreenHolds /\ NewHolds /\ SignalHolds /\ TagHolds /\ RestHolds
  BY DEF LoadInv
<1>5. New' = New /\ signals = <<>> /\ \A t \in New : t \in left
  BY <1>1, <1>4 DEF New, NewHolds, SignalHolds
<1>6. DOMAIN signals = {}
  BY <1>0, <1>5, EmptySeq, LenProperties DEF Loading!TypeOK
<1>7. ScreenHolds'
  <2>1. \A i \in DOMAIN returns : returns[i] + 1 <= ReturnAfter + 1
    BY <1>0, Lists
  <2> QED
    BY <1>1, <1>2, <1>4, <2>1 DEF ScreenHolds
<1>8. NewHolds'
  <2>1. sincePoll \in Nat
    BY <1>0 DEF Loading!TypeOK
  <2>2. ~(1 + sincePoll + 1 <= 1)
    BY <2>1
  <2> QED
    BY <1>1, <1>2, <1>4, <1>5, <2>2 DEF NewHolds
<1>9. SignalHolds' /\ TagHolds'
  BY <1>1, <1>5 DEF SignalHolds, TagHolds
<1>10. RestHolds'
  BY <1>1, <1>4, <1>5, <1>6 DEF RestHolds, UnderWay
<1> QED
  BY <1>7, <1>8, <1>9, <1>10

LEMMA LeaveKeeps == ASSUME LoadInv, Loading!Leave PROVE LoadInv'
<1>0. Loading!TypeOK
  BY DEF LoadInv
<1>1. /\ loadOn /\ loadOn' = FALSE /\ loadBusy' = FALSE /\ countdown' = Loading!Stopped
      /\ left' = left \cup Loading!pending
      /\ loadCrossed' = (loadCrossed \/ signals # <<>>)
      /\ UNCHANGED <<loadShelf, puts, lastWeight, previousTags, sincePoll, signals, loadPage,
                 loadTag, before,
                     history, returns, credited, loadFailed>>
  BY DEF Loading!Leave, Loading!engineVars, Loading!creditVars
<1>2. Loading!TypeOK'
  BY <1>0, <1>1, StoppedType DEF Loading!TypeOK, Loading!pending
<1> SUFFICES ASSUME ~loadCrossed'
             PROVE (ScreenHolds /\ NewHolds /\ SignalHolds /\ TagHolds /\ RestHolds)'
  BY <1>2 DEF LoadInv
<1>3. ScreenHolds /\ NewHolds /\ SignalHolds /\ TagHolds /\ RestHolds /\ signals = <<>>
  BY <1>1 DEF LoadInv
<1>4. New' = New /\ New \subseteq LoadTags
  BY <1>0, <1>1 DEF New, Loading!TypeOK
<1>5. DOMAIN signals = {}
  BY <1>0, <1>3, EmptySeq, LenProperties DEF Loading!TypeOK
<1>6. \A t \in LoadTags \ left : credited[t] + loadFailed[t] \in Nat /\ (Owes(t) => t \in Loading!pending)
  BY <1>0 DEF Owes, Loading!pending, Loading!TypeOK
<1>7. ScreenHolds' /\ SignalHolds' /\ TagHolds'
  BY <1>1, <1>3 DEF ScreenHolds, SignalHolds, TagHolds
<1>8. NewHolds'
  BY <1>1, <1>3, <1>4, <1>6 DEF NewHolds
<1>9. RestHolds'
  <2> SUFFICES ASSUME NEW t \in LoadTags \ left, t \notin Loading!pending
               PROVE credited[t] + loadFailed[t] = puts[t]
    BY <1>1 DEF RestHolds
  <2>1. ~Owes(t)
    BY <1>6
  <2> QED
    BY <1>3, <1>5, <2>1 DEF RestHolds, UnderWay, NewHolds, TagHolds
<1> QED
  BY <1>7, <1>8, <1>9

LEMMA PutKeeps == ASSUME LoadInv, NEW t \in LoadTags, Loading!PutCan(t) PROVE LoadInv'
<1>0. Loading!TypeOK
  BY DEF LoadInv
<1>1. /\ Loading!ready /\ t \notin loadShelf /\ t \notin previousTags
      /\ loadShelf' = loadShelf \cup {t}
      /\ puts' = [puts EXCEPT ![t] = @ + 1]
      /\ UNCHANGED <<left, lastWeight, previousTags, sincePoll, signals, loadOn, loadPage,
                 loadBusy, loadTag, before,
                     history, countdown, returns, credited, loadFailed, loadCrossed>>
  BY DEF Loading!PutCan, Loading!engineVars, Loading!screenVars, Loading!timerVars, Loading!creditVars
<1>2. puts \in [LoadTags -> Nat] /\ puts' \in [LoadTags -> Nat] /\ puts'[t] = puts[t] + 1
      /\ \A u \in LoadTags : u # t => puts'[u] = puts[u]
  BY <1>0, <1>1 DEF Loading!TypeOK
<1>3. Loading!Weight \in Nat /\ Loading!Weight' = Loading!Weight + 1
  BY <1>0, <1>1, WeightType, LoadSizes, FS_AddElement DEF Loading!Weight
<1>4. Loading!TypeOK'
  BY <1>0, <1>1, <1>2 DEF Loading!TypeOK
<1> SUFFICES ASSUME ~loadCrossed
             PROVE (ScreenHolds /\ NewHolds /\ SignalHolds /\ TagHolds /\ RestHolds)'
  BY <1>1, <1>4 DEF LoadInv
<1>5. ScreenHolds /\ NewHolds /\ SignalHolds /\ TagHolds /\ RestHolds
  BY DEF LoadInv
<1>6. New = {} /\ signals = <<>> /\ \A u \in LoadTags \ left : credited[u] + loadFailed[u] = puts[u]
  BY <1>0, <1>1, <1>5, ReadyIsClean
<1>7. New' = {t}
  BY <1>1, <1>6 DEF New
<1>8. loadOn /\ loadPage = "idle" /\ Len(history) = BufferSize
      /\ \A i \in DOMAIN history : history[i] = Loading!Weight
  BY <1>1 DEF Loading!ready
<1>9. ScreenHolds'
  BY <1>1, <1>5 DEF ScreenHolds
<1>10. NewHolds'
  <2>1. ASSUME t \notin left PROVE Owes(t)'
    BY <1>1, <1>2, <1>6, <1>8, <2>1 DEF Owes
  <2>2. \A i \in DOMAIN history : history[i] # Loading!Weight' /\ history[i] = Loading!Weight' - 1
    BY <1>3, <1>8
  <2> QED
    BY <1>1, <1>6, <1>7, <1>8, <2>1, <2>2 DEF NewHolds
<1>11. SignalHolds' /\ TagHolds'
  BY <1>1, <1>6, <1>8 DEF SignalHolds, TagHolds
<1>12. RestHolds'
  BY <1>1, <1>2, <1>6, <1>7 DEF RestHolds, UnderWay
<1> QED
  BY <1>9, <1>10, <1>11, <1>12

LEMMA TakeAwayKeeps == ASSUME LoadInv, NEW t \in LoadTags, Loading!TakeCan(t) PROVE LoadInv'
<1>0. Loading!TypeOK
  BY DEF LoadInv
<1>1. /\ Loading!ready /\ loadShelf' = loadShelf \ {t}
      /\ UNCHANGED <<puts, left, lastWeight, previousTags, sincePoll, signals, loadOn, loadPage,
                 loadBusy, loadTag,
                     before, history, countdown, returns, credited, loadFailed, loadCrossed>>
  BY DEF Loading!TakeCan, Loading!engineVars, Loading!screenVars, Loading!timerVars, Loading!creditVars
<1>2. Loading!TypeOK'
  BY <1>0, <1>1 DEF Loading!TypeOK
<1> SUFFICES ASSUME ~loadCrossed
             PROVE (ScreenHolds /\ NewHolds /\ SignalHolds /\ TagHolds /\ RestHolds)'
  BY <1>1, <1>2 DEF LoadInv
<1>3. ScreenHolds /\ NewHolds /\ SignalHolds /\ TagHolds /\ RestHolds
  BY DEF LoadInv
<1>4. New = {} /\ signals = <<>> /\ loadPage = "idle"
      /\ \A u \in LoadTags \ left : credited[u] + loadFailed[u] = puts[u]
  BY <1>0, <1>1, <1>3, ReadyIsClean DEF Loading!ready
<1>5. New' = {}
  BY <1>1, <1>4 DEF New
<1> QED
  BY <1>1, <1>3, <1>4, <1>5 DEF ScreenHolds, NewHolds, SignalHolds, TagHolds, RestHolds

LEMMA LoadStep == LoadInv /\ [Loading!Next]_(Loading!vars) => LoadInv'
<1> SUFFICES ASSUME LoadInv, [Loading!Next]_(Loading!vars) PROVE LoadInv'
  OBVIOUS
<1>1. CASE UNCHANGED Loading!vars
  <2>1. UNCHANGED <<loadShelf, puts, left, lastWeight, previousTags, sincePoll, signals, loadOn,
      loadPage, loadBusy, loadTag,
                    before, history, countdown, returns, credited, loadFailed, loadCrossed>>
    BY <1>1 DEF Loading!vars, Loading!shelfVars, Loading!engineVars, Loading!screenVars,
                Loading!timerVars, Loading!creditVars
  <2>2. Loading!TypeOK' <=> Loading!TypeOK
    BY <2>1 DEF Loading!TypeOK
  <2>3. New' = New /\ Loading!Weight' = Loading!Weight /\ Loading!ready' = Loading!ready
    BY <2>1 DEF New, Loading!Weight, Loading!ready
  <2>4. (ScreenHolds' <=> ScreenHolds) /\ (RestHolds' <=> RestHolds)
    BY <2>1, <2>3 DEF ScreenHolds, RestHolds, UnderWay
  <2>5. (NewHolds' <=> NewHolds) /\ (SignalHolds' <=> SignalHolds) /\ (TagHolds' <=> TagHolds)
    BY <2>1, <2>3 DEF NewHolds, SignalHolds, TagHolds, Owes
  <2> QED
    BY <2>1, <2>2, <2>4, <2>5 DEF LoadInv
<1>2. CASE \E t \in LoadTags : Loading!PutCan(t) \/ Loading!TakeCan(t)
  BY <1>2, PutKeeps, TakeAwayKeeps
<1> QED
  BY <1>1, <1>2, PollKeeps, HandleKeeps, FinalizeKeeps, LoadReturns, EnterKeeps, LeaveKeeps,
     TickKeeps DEF Loading!Next

HIDE LoadingConstants DEF loadShelf, lastWeight, previousTags, sincePoll, signals, loadOn,
    loadPage, loadBusy, loadTag, before, history, countdown, returns, puts, credited, left,
    loadCrossed, loadFailed, Loading!LoadingAssumption

LEMMA LoadingInvariant == CabinetSpec => [](focus = "loading" => LoadInv)
<1>1. CabinetInit => (focus = "loading" => LoadInv)
  BY LoadInit DEF CabinetInit
<1>2. (focus = "loading" => LoadInv) /\ [CabinetNext]_cells => (focus = "loading" => LoadInv)'
  <2>1. [CabinetNext]_cells /\ focus = "loading" => [Loading!Next]_(Loading!vars)
    BY DEF CabinetNext, cells, Loading!vars, Loading!shelfVars, Loading!engineVars,
           Loading!screenVars, Loading!timerVars, Loading!creditVars
  <2> QED
    BY <2>1, LoadStep, FocusStays
<1> QED
  BY <1>1, <1>2, PTL DEF CabinetSpec

-----------------------------------------------------------------------------
(* The scanner.  The cells by the names that ScanFilter gives them; one that *)
(* was taken has the word filter before it.                                *)
filterBuffer == c1
gap == c2
typing == c3
label == c4
undisturbed == c5
reports == c6
scans == c7
strays == c8

USE FilterConstants DEF filterBuffer, gap, typing, label, undisturbed, reports, scans, strays,
    Filter!FilterAssumption

Done == Len(label) - Len(typing)

(* What the scanner has yet to type is the end of its label.               *)
Ends ==
  /\ label = <<>> => typing = <<>>
  /\ Len(typing) <= Len(label)
  /\ \A i \in 1 .. Len(typing) : typing[i] = label[Done + i]

(* The buffer holds the beginning, its first key perhaps twice.            *)
Plain   == Len(filterBuffer) = Done /\ \A i \in 1 .. Done : filterBuffer[i] = label[i]
Doubled == /\ Len(filterBuffer) = Done + 1 /\ filterBuffer[1] = "S"
           /\ \A i \in 1 .. Done : filterBuffer[i + 1] = label[i]
Filled ==
  label # <<>> /\ undisturbed =>
    /\ Done = 0 => gap = 2
    /\ Done > 0 => gap = 0 /\ (Plain \/ Doubled)

(* A pause leaves nothing, and a report is of a scan or of a key of the    *)
(* crew's.                                                                 *)
Forgotten == gap = 2 => filterBuffer = <<>>
Counted == /\ reports \in Seq(Seq(STRING))
           /\ Len(reports) + (IF label = <<>> THEN 0 ELSE 1) <= scans + strays

FilterInv == Filter!TypeOK /\ Ends /\ Filled /\ Forgotten /\ Counted

LEMMA Strings ==
  ASSUME Filter!TypeOK
  PROVE  /\ filterBuffer \in Seq(STRING) /\ typing \in Seq(STRING) /\ label \in Seq(STRING)
         /\ Len(filterBuffer) \in Nat /\ Len(typing) \in Nat /\ Len(label) \in Nat
         /\ DOMAIN filterBuffer = 1 .. Len(filterBuffer) /\ DOMAIN typing = 1 .. Len(typing)
         /\ DOMAIN label = 1 .. Len(label)
         /\ label # <<>> => label \in Labels /\ Len(label) >= 3
<1>1. filterBuffer \in Seq(STRING) /\ typing \in Seq(STRING) /\ label \in Labels \cup {<<>>}
  BY DEF Filter!TypeOK
<1>2. label \in Seq(STRING)
  BY <1>1, EmptySeq
<1> QED
  BY <1>1, <1>2, LenProperties

LEMMA KeyPairs ==
  ASSUME NEW S, NEW k \in S
  PROVE  /\ <<k>> \in Seq(S) /\ Len(<<k>>) = 1 /\ <<k, k>> \in Seq(S) /\ Len(<<k, k>>) = 2
         /\ Append(<<k>>, k) = <<k, k>>
<1>1. <<k>> \in Seq(S) /\ Len(<<k>>) = 1 /\ <<k>>[1] = k
  OBVIOUS
<1>2. <<k, k>> \in Seq(S) /\ Len(<<k, k>>) = 2 /\ <<k, k>>[1] = k /\ <<k, k>>[2] = k
  OBVIOUS
<1> DEFINE a == Append(<<k>>, k)
<1>3. a \in Seq(S) /\ Len(a) = 2 /\ a[1] = k /\ a[2] = k
  BY <1>1, AppendProperties
<1> HIDE DEF a
<1>4. \A i \in 1 .. 2 : a[i] = <<k, k>>[i]
  BY <1>2, <1>3
<1>5. a = <<k, k>>
  BY <1>2, <1>3, <1>4, SeqEqual
<1> QED
  BY <1>1, <1>2, <1>5 DEF a

LEMMA FilterInit == Filter!Init => FilterInv
<1> SUFFICES ASSUME Filter!Init PROVE FilterInv
  OBVIOUS
<1>1. <<>> \in Seq(STRING) /\ <<>> \in Seq(Seq(STRING)) /\ Len(<<>>) = 0
  BY EmptySeq
<1>2. Filter!TypeOK
  <2>1. Len(reports) <= scans + strays /\ scans \in 0 .. MaxScans /\ strays \in 0 .. MaxStray
    BY <1>1 DEF Filter!Init
  <2>2. filterBuffer \in Seq(STRING) /\ typing \in Seq(STRING)
    BY <1>1 DEF Filter!Init
  <2>3. label \in Labels \cup {<<>>}
    BY DEF Filter!Init
  <2>4. undisturbed \in BOOLEAN
    BY DEF Filter!Init
  <2>5. gap \in 0 .. 2
    BY DEF Filter!Init
  <2> QED
    BY <2>1, <2>2, <2>3, <2>4, <2>5 DEF Filter!TypeOK
<1>3. Ends /\ Filled /\ Forgotten /\ Counted
  BY <1>1 DEF Filter!Init, Ends, Filled, Forgotten, Counted
<1> QED
  BY <1>2, <1>3 DEF FilterInv

(* An offer, of a key to a buffer.                                         *)
LEMMA OfferTypes ==
  ASSUME NEW b \in Seq(STRING), NEW sign \in STRING, NEW slow \in BOOLEAN
  PROVE  Filter!Offer(b, slow, sign) \in Seq(STRING) /\ Filter!OfferedOn(b, sign) \in Seq(STRING)
<1>1. Append(b, sign) \in Seq(STRING) /\ <<>> \in Seq(STRING)
  BY AppendProperties, EmptySeq
<1> QED
  BY <1>1 DEF Filter!Offer, Filter!OfferedOn

LEMMA PressTypes ==
  ASSUME Filter!TypeOK, NEW sign \in STRING, Filter!Press(sign)
  PROVE  filterBuffer' \in Seq(STRING) /\ gap' = 0
<1>1. PICK n \in Receivers : filterBuffer' = Filter!Offered(n, gap > 0, sign)
  BY DEF Filter!Press
<1> DEFINE once  == Filter!Offer(filterBuffer, gap > 0, sign)
           twice == Filter!OfferedOn(once, sign)
<1>2. filterBuffer \in Seq(STRING) /\ (gap > 0) \in BOOLEAN
  BY DEF Filter!TypeOK
<1>3. once \in Seq(STRING)
  BY <1>2, OfferTypes
<1>4. twice \in Seq(STRING)
  BY <1>3, OfferTypes
<1>5. Filter!OfferedOn(twice, sign) \in Seq(STRING)
  BY <1>4, OfferTypes
<1>6. filterBuffer' = once \/ filterBuffer' = twice \/ filterBuffer' = Filter!OfferedOn(twice,
    sign)
  BY <1>1 DEF Filter!Offered
<1>7. gap' = 0
  BY DEF Filter!Press
<1> QED
  BY <1>3, <1>4, <1>5, <1>6, <1>7

(* A first key is seen once or twice, the next ones once.                  *)
LEMMA FirstPress ==
  ASSUME Filter!TypeOK, filterBuffer = <<>>, NEW sign \in STRING, Filter!Press(sign)
  PROVE  filterBuffer' = <<sign>> \/ filterBuffer' = <<sign, sign>>
<1>1. PICK n \in Receivers : filterBuffer' = Filter!Offered(n, gap > 0, sign)
  BY DEF Filter!Press
<1>2. Filter!Offer(filterBuffer, gap > 0, sign) = <<sign>>
  BY DEF Filter!Offer
<1>3. Filter!OfferedOn(<<sign>>, sign) = <<sign, sign>>
  <2>1. Append(<<sign>>, sign) = <<sign, sign>> /\ Len(<<sign>>) = 1
    BY KeyPairs
  <2>2. ~Filter!Taken(<<sign>>)
    BY <2>1 DEF Filter!Taken
  <2> QED
    BY <2>1, <2>2 DEF Filter!OfferedOn, Filter!Offer
<1>4. Filter!OfferedOn(<<sign, sign>>, sign) = <<sign, sign>>
  BY DEF Filter!OfferedOn, Filter!Taken
<1> QED
  BY <1>1, <1>2, <1>3, <1>4 DEF Filter!Offered

LEMMA NextPress ==
  ASSUME Filter!TypeOK, filterBuffer # <<>>, gap = 0, NEW sign \in STRING, Filter!Press(sign)
  PROVE  filterBuffer' = Append(filterBuffer, sign)
<1>1. PICK n \in Receivers : filterBuffer' = Filter!Offered(n, gap > 0, sign)
  BY DEF Filter!Press
<1> DEFINE once == Append(filterBuffer, sign)
<1>2. Filter!Offer(filterBuffer, gap > 0, sign) = once
  BY DEF Filter!Offer
<1>3. filterBuffer \in Seq(STRING) /\ Len(filterBuffer) \in Nat /\ Len(filterBuffer) > 0
  BY Strings, EmptySeq
<1>4. Len(once) = Len(filterBuffer) + 1
  BY <1>3, AppendProperties
<1>5. Filter!Taken(once)
  BY <1>3, <1>4 DEF Filter!Taken
<1> HIDE DEF once
<1>6. Filter!OfferedOn(once, sign) = once
  BY <1>5 DEF Filter!OfferedOn
<1>7. filterBuffer' = once
  BY <1>1, <1>2, <1>6 DEF Filter!Offered
<1> QED
  BY <1>7 DEF once

LEMMA FilterStarts == ASSUME FilterInv, Filter!StartScan PROVE FilterInv'
<1>0. Filter!TypeOK /\ Len(<<>>) = 0
  BY EmptySeq DEF FilterInv
<1>1. PICK l \in Labels : label' = l /\ typing' = l
  BY DEF Filter!StartScan
<1>2. l \in Seq(STRING) /\ Len(l) \in Nat /\ Len(l) >= 3 /\ l # <<>>
  BY <1>0, LenProperties
<1>3. /\ scans' = scans + 1 /\ scans < MaxScans /\ label = <<>> /\ undisturbed' = (gap = 2)
      /\ UNCHANGED <<filterBuffer, gap, reports, strays>>
  BY DEF Filter!StartScan
<1>4. Filter!TypeOK'
  <2>1. Len(reports) \in Nat /\ Len(reports) <= scans + strays /\ scans' \in 0 .. MaxScans
        /\ scans \in Nat /\ strays \in Nat
    BY <1>0, <1>3, LenProperties DEF FilterInv, Counted, Filter!TypeOK
  <2> QED
    BY <1>0, <1>1, <1>2, <1>3, <2>1 DEF Filter!TypeOK
<1>5. Done' = 0
  BY <1>1, <1>2 DEF Done
<1>6. Ends' /\ Filled'
  <2>1. \A i \in 1 .. Len(l) : l[i] = l[0 + i]
    OBVIOUS
  <2>2. Ends'
    BY <1>1, <1>2, <1>5, <2>1 DEF Ends
  <2>3. Filled'
    <3>1. undisturbed' => gap' = 2
      BY <1>3
    <3>2. Done' = 0 /\ ~(Done' > 0)
      BY <1>5
    <3> QED
      BY <3>1, <3>2 DEF Filled
  <2> QED
    BY <2>2, <2>3
<1>7. Forgotten'
  BY <1>3 DEF FilterInv, Forgotten
<1>8. Counted'
  <2>1. Len(reports) \in Nat /\ Len(reports) <= scans + strays /\ scans \in Nat /\ strays \in Nat
    BY <1>0, <1>3, LenProperties DEF FilterInv, Counted, Filter!TypeOK
  <2>2. Len(reports) + 1 <= scans + 1 + strays
    BY <2>1
  <2> QED
    BY <1>1, <1>2, <1>3, <2>2 DEF FilterInv, Counted
<1> QED
  BY <1>4, <1>6, <1>7, <1>8 DEF FilterInv

LEMMA KeyKeeps == ASSUME FilterInv, Filter!ScannerKey PROVE FilterInv'
<1> PICK m \in Nat : m = Len(label)
  BY Strings DEF FilterInv
<1> PICK q \in Nat : q = Len(typing)
  BY Strings DEF FilterInv
<1> PICK k : k = m - q
  OBVIOUS
<1>0. Filter!TypeOK /\ Done = k /\ k \in Nat /\ q <= m
  BY DEF FilterInv, Done, Ends
<1>1. typing \in Seq(STRING) /\ label \in Seq(STRING) /\ typing # <<>> /\ label # <<>> /\ q > 0
      /\ label \in Labels /\ label[1] = "S"
  BY <1>0, Strings, EmptySeq DEF Filter!ScannerKey, FilterInv, Ends
<1> PICK sign : sign = Head(typing)
  OBVIOUS
<1>2. /\ sign \in STRING /\ sign = typing[1]
      /\ Tail(typing) \in Seq(STRING) /\ Len(Tail(typing)) = q - 1
      /\ \A i \in 1 .. q - 1 : Tail(typing)[i] = typing[i + 1]
  BY <1>1, HeadTailProperties
<1>3. sign = label[k + 1]
  BY <1>0, <1>1, <1>2 DEF FilterInv, Ends
<1>4. typing' = Tail(typing) /\ Filter!Press(sign)
      /\ UNCHANGED <<label, undisturbed, reports, scans, strays>>
  BY DEF Filter!ScannerKey
<1>5. filterBuffer' \in Seq(STRING) /\ gap' = 0 /\ Len(filterBuffer') \in Nat
  BY <1>0, <1>2, <1>4, PressTypes, LenProperties
<1>6. Filter!TypeOK' /\ Counted' /\ Forgotten'
  BY <1>0, <1>2, <1>4, <1>5 DEF Filter!TypeOK, FilterInv, Counted, Forgotten
<1>7. Done' = k + 1 /\ Len(typing') = q - 1 /\ Len(label') = m
  BY <1>0, <1>2, <1>4 DEF Done
<1>8. Ends'
  <2>1. ASSUME NEW i \in 1 .. q - 1 PROVE typing'[i] = label[(k + 1) + i]
    <3>1. i + 1 \in 1 .. Len(typing) /\ k + (i + 1) = (k + 1) + i
      BY <1>0
    <3> QED
      BY <1>0, <1>2, <1>4, <3>1 DEF FilterInv, Ends
  <2> QED
    BY <1>0, <1>1, <1>4, <1>7, <2>1 DEF Ends
<1>9. ASSUME undisturbed PROVE (Plain \/ Doubled)'
  <2>1. CASE k = 0
    <3>1. filterBuffer = <<>> /\ sign = "S"
      BY <1>0, <1>1, <1>3, <1>9, <2>1 DEF FilterInv, Filled, Forgotten
    <3>2. filterBuffer' = <<sign>> \/ filterBuffer' = <<sign, sign>>
      BY <1>0, <1>2, <1>4, <3>1, FirstPress
    <3>3. ASSUME filterBuffer' = <<sign>> PROVE Plain'
      BY <1>3, <1>4, <1>7, <2>1, <3>3 DEF Plain
    <3>4. ASSUME filterBuffer' = <<sign, sign>> PROVE Doubled'
      <4>1. Len(filterBuffer') = 2 /\ filterBuffer'[1] = sign /\ filterBuffer'[2] = sign
        BY <3>4
      <4>2. Done' = 1 /\ label'[1] = sign
        BY <1>3, <1>4, <1>7, <2>1
      <4>3. \A i \in 1 .. 1 : i = 1 /\ i + 1 = 2
        OBVIOUS
      <4> QED
        BY <3>1, <4>1, <4>2, <4>3 DEF Doubled
    <3> QED
      BY <3>2, <3>3, <3>4
  <2>2. CASE k > 0
    <3>1. gap = 0 /\ (Plain \/ Doubled)
      BY <1>0, <1>1, <1>9, <2>2 DEF FilterInv, Filled
    <3>2. filterBuffer \in Seq(STRING) /\ Len(filterBuffer) \in Nat /\ filterBuffer # <<>>
      BY <1>0, <2>2, <3>1, Strings, EmptySeq DEF Plain, Doubled
    <3>3. filterBuffer' = Append(filterBuffer, sign)
      BY <1>0, <1>2, <1>4, <3>1, <3>2, NextPress
    <3>4. /\ Len(filterBuffer') = Len(filterBuffer) + 1
          /\ filterBuffer'[Len(filterBuffer) + 1] = sign
          /\ \A i \in 1 .. Len(filterBuffer) : filterBuffer'[i] = filterBuffer[i]
      BY <1>2, <3>2, <3>3, AppendProperties
    <3>5. ASSUME Plain PROVE Plain'
      <4>1. Len(filterBuffer) = k /\ \A i \in 1 .. k : filterBuffer[i] = label[i]
        BY <1>0, <3>5 DEF Plain
      <4>2. ASSUME NEW i \in 1 .. k + 1 PROVE filterBuffer'[i] = label[i]
        <5>1. CASE i = k + 1
          BY <1>3, <3>4, <4>1, <5>1
        <5>2. CASE i \in 1 .. k
          BY <3>4, <4>1, <5>2
        <5> QED
          BY <1>0, <5>1, <5>2
      <4> QED
        BY <1>4, <1>7, <3>4, <4>1, <4>2 DEF Plain
    <3>6. ASSUME Doubled PROVE Doubled'
      <4>1. Len(filterBuffer) = k + 1 /\ filterBuffer[1] = "S"
            /\ \A i \in 1 .. k : filterBuffer[i + 1] = label[i]
        BY <1>0, <3>6 DEF Doubled
      <4>2. ASSUME NEW i \in 1 .. k + 1 PROVE filterBuffer'[i + 1] = label[i]
        <5>1. CASE i = k + 1
          BY <1>3, <3>4, <4>1, <5>1
        <5>2. CASE i \in 1 .. k
          <6>1. i + 1 \in 1 .. Len(filterBuffer)
            BY <1>0, <4>1, <5>2
          <6> QED
            BY <3>4, <4>1, <5>2, <6>1
        <5> QED
          BY <1>0, <5>1, <5>2
      <4>3. filterBuffer'[1] = "S"
        BY <1>0, <3>4, <4>1
      <4> QED
        BY <1>0, <1>4, <1>7, <3>4, <4>1, <4>2, <4>3 DEF Doubled
    <3> QED
      BY <3>1, <3>5, <3>6
  <2> QED
    BY <1>0, <2>1, <2>2
<1>10. Filled'
  BY <1>0, <1>4, <1>5, <1>7, <1>9 DEF Filled
<1> QED
  BY <1>6, <1>8, <1>10 DEF FilterInv

(* What is reported of a scan that nothing disturbed is its label.         *)
LEMMA LabelRead ==
  ASSUME FilterInv, typing = <<>>, label # <<>>, undisturbed
  PROVE  Len(filterBuffer) >= MinLength /\ Filter!Normalized(filterBuffer) = label
<1> PICK m \in Nat : m = Len(label)
  BY Strings DEF FilterInv
<1>0. Filter!TypeOK /\ m >= 3 /\ m >= MinLength /\ Done = m /\ label[1] = "S" /\ label[2] = "L"
  BY Strings, EmptySeq DEF FilterInv, Done
<1>1. filterBuffer \in Seq(STRING) /\ label \in Seq(STRING) /\ Len(filterBuffer) \in Nat
      /\ DOMAIN filterBuffer = 1 .. Len(filterBuffer)
  BY <1>0, Strings
<1>2. Plain \/ Doubled
  BY <1>0 DEF FilterInv, Filled
<1>3. /\ SubSeq(filterBuffer, 1, 2) \in Seq(STRING) \/ Len(filterBuffer) < 2
      /\ Len(filterBuffer) >= 2 => /\ SubSeq(filterBuffer, 1, 2)[1] = filterBuffer[1]
                             /\ SubSeq(filterBuffer, 1, 2)[2] = filterBuffer[2]
                             /\ Len(SubSeq(filterBuffer, 1, 2)) = 2
  BY <1>1
<1>4. CASE Plain
  <2>1. Len(filterBuffer) = m /\ \A i \in 1 .. m : filterBuffer[i] = label[i]
    BY <1>0, <1>4 DEF Plain
  <2>2. filterBuffer = label
    BY <1>1, <2>1, SeqEqual
  <2>3. SubSeq(filterBuffer, 1, 2) # <<"S", "S">>
    <3>1. <<"S", "S">>[2] = "S" /\ "S" # "L"
      OBVIOUS
    <3>2. SubSeq(filterBuffer, 1, 2)[2] = "L"
      BY <1>0, <1>3, <2>1
    <3> QED
      BY <3>1, <3>2
  <2> QED
    BY <1>0, <2>1, <2>2, <2>3 DEF Filter!Normalized
<1>5. CASE Doubled
  <2>1. Len(filterBuffer) = m + 1 /\ filterBuffer[1] = "S"
        /\ \A i \in 1 .. m : filterBuffer[i + 1] = label[i]
    BY <1>0, <1>5 DEF Doubled
  <2>2. filterBuffer[2] = "S" /\ filterBuffer[3] = "L"
    BY <1>0, <2>1
  <2>3. SubSeq(filterBuffer, 1, 2) = <<"S", "S">>
    <3>1. Len(filterBuffer) >= 2 /\ 1 \in Int /\ 2 \in Int
      BY <1>0, <2>1
    <3>2. \A i \in 1 .. 2 : filterBuffer[i] \in STRING
      <4>1. \A i \in 1 .. 2 : i \in 1 .. Len(filterBuffer)
        BY <3>1, <1>1
      <4> QED
        BY <1>1, <4>1, ElementOfSeq
    <3>3. SubSeq(filterBuffer, 1, 2) \in Seq(STRING)
      BY <3>1, <3>2, SubSeqProperties
    <3>4. /\ Len(SubSeq(filterBuffer, 1, 2)) = 2 /\ SubSeq(filterBuffer, 1, 2)[1] = "S"
          /\ SubSeq(filterBuffer, 1, 2)[2] = "S"
      BY <1>3, <2>1, <2>2, <3>1
    <3>5. <<"S", "S">> \in Seq(STRING) /\ Len(<<"S", "S">>) = 2
      <4>1. "S" \in STRING
        BY <2>1, <3>2
      <4> QED
        BY <4>1, KeyPairs
    <3>6. <<"S", "S">>[1] = "S" /\ <<"S", "S">>[2] = "S"
      OBVIOUS
    <3>7. \A i \in 1 .. 2 : SubSeq(filterBuffer, 1, 2)[i] = <<"S", "S">>[i]
      BY <3>4, <3>6
    <3> QED
      BY <3>3, <3>4, <3>5, <3>7, SeqEqual
  <2>4. filterBuffer # <<>>
    BY <1>0, <2>1, EmptySeq
  <2>5. /\ Tail(filterBuffer) \in Seq(STRING) /\ Len(Tail(filterBuffer)) = m
        /\ \A i \in 1 .. m : Tail(filterBuffer)[i] = filterBuffer[i + 1]
    BY <1>1, <2>1, <2>4, HeadTailProperties
  <2>6. Tail(filterBuffer) = label
    BY <1>1, <2>1, <2>5, SeqEqual
  <2> QED
    BY <1>0, <2>1, <2>2, <2>3, <2>6 DEF Filter!Normalized
<1> QED
  BY <1>2, <1>4, <1>5

LEMMA ScanShows == FilterInv /\ [Filter!Next]_(Filter!vars) => (Filter!ScannerEnter /\ undisturbed
                                                  => reports' = Append(reports, label))
BY LabelRead DEF Filter!ScannerEnter, Filter!Enter

(* Enter, after a scan or the crew's, empties the buffer.                  *)
LEMMA EnterTypes ==
  ASSUME Filter!TypeOK, Counted, Filter!Enter
  PROVE  /\ filterBuffer' = <<>> /\ gap' = 2 /\ reports' \in Seq(Seq(STRING))
         /\ Len(reports') \in Nat /\ Len(reports) \in Nat /\ Len(reports') <= Len(reports) + 1
<1>1. filterBuffer \in Seq(STRING) /\ reports \in Seq(Seq(STRING))
  BY DEF Filter!TypeOK, Counted
<1>2. Filter!Normalized(filterBuffer) \in Seq(STRING)
  <2>1. CASE filterBuffer = <<>>
    BY <1>1, <2>1, EmptySeq DEF Filter!Normalized
  <2>2. CASE filterBuffer # <<>>
    BY <1>1, <2>2, HeadTailProperties DEF Filter!Normalized
  <2> QED
    BY <2>1, <2>2
<1> PICK r : r = Filter!Normalized(filterBuffer)
  OBVIOUS
<1>3. Append(reports, r) \in Seq(Seq(STRING)) /\ Len(Append(reports, r)) = Len(reports) + 1
  BY <1>1, <1>2, AppendProperties
<1>4. Len(reports) \in Nat
  BY <1>1, LenProperties
<1>5. reports' = Append(reports, r) \/ reports' = reports
  BY DEF Filter!Enter
<1>6. filterBuffer' = <<>> /\ gap' = 2
  BY DEF Filter!Enter, Filter!Reset
<1>7. CASE reports' = reports
  BY <1>1, <1>4, <1>6, <1>7
<1>8. CASE reports' = Append(reports, r)
  <2>1. Len(reports') = Len(reports) + 1 /\ reports' \in Seq(Seq(STRING))
    BY <1>3, <1>8
  <2> QED
    BY <1>4, <1>6, <2>1
<1> QED
  BY <1>5, <1>7, <1>8

LEMMA EntersKeep == ASSUME FilterInv, Filter!ScannerEnter \/ Filter!StrayEnter PROVE FilterInv'
<1>0. Filter!TypeOK /\ Counted /\ Filter!Enter /\ typing = <<>> /\ Len(<<>>) = 0
      /\ <<>> \in Seq(STRING)
  BY EmptySeq DEF FilterInv, Ends, Filter!ScannerEnter, Filter!StrayEnter
<1>1. /\ filterBuffer' = <<>> /\ gap' = 2 /\ reports' \in Seq(Seq(STRING))
      /\ Len(reports') \in Nat /\ Len(reports) \in Nat /\ Len(reports') <= Len(reports) + 1
  BY <1>0, EnterTypes
<1>2. label' = <<>> /\ UNCHANGED <<typing, undisturbed, scans>>
      /\ strays' \in 0 .. MaxStray
  BY <1>0 DEF Filter!ScannerEnter, Filter!StrayEnter, Filter!TypeOK
<1>3. scans \in Nat /\ strays \in Nat /\ strays' \in Nat
  BY <1>0, <1>2 DEF Filter!TypeOK
<1>4. Len(reports') <= scans + strays'
  <2>1. CASE Filter!ScannerEnter
    <3>1. Len(reports) + 1 <= scans + strays /\ strays' = strays
      BY <1>0, <2>1 DEF Counted, Filter!ScannerEnter
    <3> QED
      BY <1>1, <1>3, <3>1
  <2>2. CASE Filter!StrayEnter
    <3>1. Len(reports) + 0 <= scans + strays /\ strays' = strays + 1
      BY <1>0, <2>2 DEF Counted, Filter!StrayEnter
    <3> QED
      BY <1>1, <1>3, <3>1
  <2> QED
    BY <2>1, <2>2
<1>5. Filter!TypeOK'
  BY <1>0, <1>1, <1>2, <1>4 DEF Filter!TypeOK
<1>6. Counted'
  BY <1>1, <1>2, <1>3, <1>4 DEF Counted
<1>7. Ends' /\ Filled' /\ Forgotten'
  BY <1>0, <1>1, <1>2 DEF Ends, Filled, Forgotten, Done
<1> QED
  BY <1>5, <1>6, <1>7 DEF FilterInv

LEMMA StrayKeeps == ASSUME FilterInv, Filter!StrayKey PROVE FilterInv'
<1>0. Filter!TypeOK
  BY DEF FilterInv
<1>1. PICK sign \in Stray : Filter!Press(sign)
  BY DEF Filter!StrayKey
<1>2. filterBuffer' \in Seq(STRING) /\ gap' = 0
  BY <1>0, <1>1, PressTypes
<1>3. /\ UNCHANGED <<typing, label, undisturbed, reports, scans>> /\ label = <<>>
      /\ strays' = strays + 1 /\ strays < MaxStray
  BY DEF Filter!StrayKey
<1>4. reports \in Seq(Seq(STRING)) /\ Len(reports) \in Nat /\ Len(reports) <= scans + strays
      /\ scans \in Nat /\ strays \in Nat /\ strays' \in 0 .. MaxStray
  BY <1>0, <1>3, LenProperties DEF FilterInv, Counted, Filter!TypeOK
<1>5. Len(reports) <= scans + (strays + 1)
  BY <1>4
<1>6. Filter!TypeOK' /\ Counted'
  BY <1>0, <1>2, <1>3, <1>4, <1>5 DEF Filter!TypeOK, Counted
<1>7. Ends' /\ Filled' /\ Forgotten'
  BY <1>2, <1>3 DEF FilterInv, Ends, Filled, Forgotten, Done
<1> QED
  BY <1>6, <1>7 DEF FilterInv

LEMMA PauseKeeps == ASSUME FilterInv, Filter!Pause PROVE FilterInv'
<1>0. Filter!TypeOK /\ Len(typing) \in Nat /\ Len(label) \in Nat
  BY Strings DEF FilterInv
<1>1. /\ UNCHANGED <<typing, label, reports, scans, strays>>
      /\ gap' = (IF gap < 2 THEN gap + 1 ELSE gap)
      /\ undisturbed' = (undisturbed /\ (label = <<>> \/ typing = label))
      /\ filterBuffer' = IF gap = 1 THEN <<>> ELSE filterBuffer
  BY DEF Filter!Pause
<1>2. filterBuffer' \in Seq(STRING) /\ gap' \in 0 .. 2
  <2>1. filterBuffer' \in Seq(STRING)
    BY <1>0, <1>1, EmptySeq DEF Filter!TypeOK
  <2>2. gap' \in 0 .. 2
    BY <1>0, <1>1 DEF Filter!TypeOK
  <2> QED
    BY <2>1, <2>2
<1>3. Filter!TypeOK' /\ Counted' /\ Ends'
  BY <1>0, <1>1, <1>2 DEF FilterInv, Filter!TypeOK, Counted, Ends, Done
<1>4. Forgotten'
  BY <1>0, <1>1 DEF FilterInv, Filter!TypeOK, Forgotten
<1>5. Done' = Done
  BY <1>1 DEF Done
<1>6. ASSUME label # <<>>, undisturbed' PROVE Done = 0 /\ gap = 2 /\ gap' = 2
  <2>1. typing = label /\ undisturbed
    BY <1>1, <1>6
  <2>2. Done = 0
    BY <1>0, <2>1 DEF Done
  <2> QED
    BY <1>1, <1>6, <2>1, <2>2 DEF FilterInv, Filled
<1>7. Filled'
  BY <1>1, <1>5, <1>6 DEF Filled
<1> QED
  BY <1>3, <1>4, <1>7 DEF FilterInv

LEMMA FilterStep == FilterInv /\ [Filter!Next]_(Filter!vars) => FilterInv'
<1> SUFFICES ASSUME FilterInv, [Filter!Next]_(Filter!vars) PROVE FilterInv'
  OBVIOUS
<1>1. CASE Filter!Next
  BY <1>1, FilterStarts, KeyKeeps, EntersKeep, StrayKeeps, PauseKeeps DEF Filter!Next
<1>2. CASE UNCHANGED Filter!vars
  BY <1>2 DEF Filter!vars, FilterInv, Filter!TypeOK, Ends, Filled, Forgotten, Counted, Done,
              Plain, Doubled
<1> QED
  BY <1>1, <1>2


HIDE FilterConstants DEF filterBuffer, gap, typing, label, undisturbed, reports, scans, strays,
    Filter!FilterAssumption

LEMMA FilterInvariant == CabinetSpec => [](focus = "filter" => FilterInv)
<1>1. CabinetInit => (focus = "filter" => FilterInv)
  BY FilterInit DEF CabinetInit
<1>2. (focus = "filter" => FilterInv) /\ [CabinetNext]_cells => (focus = "filter" => FilterInv)'
  <2>1. [CabinetNext]_cells /\ focus = "filter" => [Filter!Next]_(Filter!vars)
    BY DEF CabinetNext, cells, Filter!vars
  <2> QED
    BY <2>1, FilterStep, FocusStays
<1> QED
  BY <1>1, <1>2, PTL DEF CabinetSpec

-----------------------------------------------------------------------------
(* What is scanned.  The cells by the names that CanScans gives them; one  *)
(* that was taken has the word scans before it.                            *)
scansShelf == c1
rfidDown == c2
baseline == c3
scansPending == c4
alarm == c5
alarmPopup == c6
dialogs == c7
scansPage == c8
scansChosen == c9
question == c10
assigned == c11
scansSession == c12
stock == c13
wanted == c14
scanned == c15
mixedUp == c16

USE ScanConstants DEF scansShelf, rfidDown, baseline, scansPending, alarm, alarmPopup, dialogs,
    scansPage, scansChosen, question, assigned, scansSession, stock, wanted, scanned, mixedUp,
    Scans!ScansAssumption

(* A dialog still asks, or it weighs, and then its can has been moved when *)
(* the weight is not the one it started from.                              *)
Asks(i)    == dialogs[i].action = "ask"
Moving(i)  == ~Asks(i) /\ Scans!weight # dialogs[i].initial
Still      == \A i \in DOMAIN dialogs : ~Moving(i)
Toggled(c) == (scansShelf \ {c}) \cup ({c} \ scansShelf)
Way(c)     == IF c \in scansShelf THEN 1 ELSE -1

(* One dialog weighs at most.                                              *)
Lone == \A i, j \in Scans!weighing : i = j

(* What it saw last is nothing or how its can has been moved, once and as  *)
(* it was told.                                                            *)
Weighed ==
  \A i \in DOMAIN dialogs :
    /\ dialogs[i].diff # 0 => ~Asks(i) /\ dialogs[i].diff = Scans!weight - dialogs[i].initial
    /\ Moving(i)
        => /\ dialogs[i].action = (IF dialogs[i].can \in scansShelf THEN "load" ELSE "unload")
           /\ Scans!weight = dialogs[i].initial + Way(dialogs[i].can)

(* The stock is one move behind: the dialog's can, or the one that was     *)
(* moved without a dialog.                                                 *)
Stocked ==
  IF Still THEN stock = Scans!Held(IF wanted = NoProduct THEN scansShelf ELSE Toggled(wanted))
  ELSE \/ rfidDown
       \/ \E i \in Scans!weighing :
            Moving(i) /\ stock = Scans!Held(Toggled(dialogs[i].can))

(* So is the weight the engine knows.                                      *)
Based ==
  rfidDown /\ Still =>
    Scans!weight = IF wanted = NoProduct \/ scansPending THEN baseline ELSE baseline + Way(wanted)

(* An alarm is about the can that was moved without a dialog.              *)
Alarmed ==
  /\ wanted # NoProduct => rfidDown
  /\ scansPending => /\ dialogs = <<>> /\ wanted # NoProduct
                     /\ alarmPopup /\ alarm = Way(wanted)

ScanInv == Scans!TypeOK /\ (~mixedUp => Lone /\ Weighed /\ Stocked /\ Based /\ Alarmed)

(* Scans has the operators of FiniteSets as its own.                       *)
LEMMA ScanSizes ==
  \A S : Scans!Cardinality(S) = Cardinality(S) /\ (Scans!IsFiniteSet(S) <=> IsFiniteSet(S))
BY DEF Scans!Cardinality, Cardinality, Scans!IsFiniteSet, IsFiniteSet

(* A can more or less on the shelf is a unit more or less.                 *)
LEMMA WeightMoves ==
  ASSUME scansShelf \subseteq ShelfCans
  PROVE  /\ Scans!weight \in 0 .. Cardinality(ShelfCans)
         /\ \A c \in ShelfCans : /\ Toggled(c) \subseteq ShelfCans
                            /\ Cardinality(Toggled(c)) = Scans!weight - Way(c)
<1>1. IsFiniteSet(scansShelf) /\ Scans!weight \in Nat /\ Scans!weight <= Cardinality(ShelfCans)
      /\ Cardinality(ShelfCans) \in Nat
  BY ScanSizes, FS_Subset, FS_CardinalityType DEF Scans!weight
<1>2. ASSUME NEW c \in ShelfCans PROVE Toggled(c) \subseteq ShelfCans
  BY DEF Toggled
<1>3. ASSUME NEW c \in ShelfCans PROVE Cardinality(Toggled(c)) = Scans!weight - Way(c)
  <2>1. CASE c \in scansShelf
    <3>1. Toggled(c) = scansShelf \ {c}
      BY <2>1 DEF Toggled
    <3> QED
      BY <1>1, <2>1, <3>1, ScanSizes, FS_RemoveElement DEF Scans!weight, Way
  <2>2. CASE c \notin scansShelf
    <3>1. Toggled(c) = scansShelf \cup {c}
      BY <2>2 DEF Toggled
    <3>2. Cardinality(scansShelf \cup {c}) = Scans!weight + 1
      BY <1>1, <2>2, ScanSizes, FS_AddElement DEF Scans!weight
    <3>3. Way(c) = 0 - 1
      BY <2>2 DEF Way
    <3> QED
      BY <1>1, <3>1, <3>2, <3>3
  <2> QED
    BY <2>1, <2>2
<1> QED
  BY <1>1, <1>2, <1>3

LEMMA DialogList ==
  ASSUME Scans!TypeOK
  PROVE  /\ Len(dialogs) \in Nat /\ DOMAIN dialogs = 1 .. Len(dialogs)
         /\ \A i \in DOMAIN dialogs : dialogs[i] \in Scans!Dialog
         /\ dialogs # <<>> => Len(dialogs) > 0 /\ Len(dialogs) \in DOMAIN dialogs
         /\ dialogs = <<>> => DOMAIN dialogs = {}
<1>1. dialogs \in Seq(Scans!Dialog)
  BY DEF Scans!TypeOK
<1> QED
  BY <1>1, LenProperties, ElementOfSeq, EmptySeq

(* The upper dialog goes, the others stay what they were.                  *)
LEMMA Popped ==
  ASSUME Scans!TypeOK, dialogs # <<>>, Scans!Pop
  PROVE  /\ dialogs' \in Seq(Scans!Dialog) /\ Len(dialogs') = Len(dialogs) - 1
         /\ DOMAIN dialogs' = DOMAIN dialogs \ {Len(dialogs)}
         /\ \A i \in DOMAIN dialogs' : dialogs'[i] = dialogs[i]
<1>1. dialogs \in Seq(Scans!Dialog) /\ Len(dialogs) \in Nat /\ Len(dialogs) > 0
  BY DialogList DEF Scans!TypeOK
<1> DEFINE m == Len(dialogs)
<1>2. /\ SubSeq(dialogs, 1, m - 1) \in Seq(Scans!Dialog)
      /\ Len(SubSeq(dialogs, 1, m - 1)) = m - 1
      /\ \A i \in 1 .. m - 1 : SubSeq(dialogs, 1, m - 1)[i] = dialogs[i]
  <2> DEFINE n == m - 1
  <2>1. n \in Int /\ 1 \in Int /\ n >= 0 /\ n - 1 + 1 = n
    BY <1>1
  <2>2. \A i \in 1 .. n : dialogs[i] \in Scans!Dialog
    BY <1>1, ElementOfSeq
  <2> HIDE DEF n
  <2>3. /\ SubSeq(dialogs, 1, n) \in Seq(Scans!Dialog)
        /\ Len(SubSeq(dialogs, 1, n)) = IF 1 <= n THEN n - 1 + 1 ELSE 0
        /\ \A i \in 1 .. n - 1 + 1 : SubSeq(dialogs, 1, n)[i] = dialogs[1 + i - 1]
    BY <2>1, <2>2, SubSeqProperties
  <2>4. /\ Len(SubSeq(dialogs, 1, n)) = n
        /\ \A i \in 1 .. n : SubSeq(dialogs, 1, n)[i] = dialogs[i]
    BY <2>1, <2>3
  <2> QED
    BY <2>3, <2>4 DEF n
<1>3. DOMAIN dialogs' = 1 .. m - 1 /\ DOMAIN dialogs = 1 .. m
  BY <1>1, <1>2, LenProperties DEF Scans!Pop
<1> QED
  BY <1>1, <1>2, <1>3 DEF Scans!Pop

LEMMA ScanInit == Scans!Init => ScanInv
<1> SUFFICES ASSUME Scans!Init PROVE ScanInv
  OBVIOUS
<1>1. DOMAIN dialogs = {} /\ dialogs \in Seq(Scans!Dialog) /\ Len(dialogs) = 0
  BY EmptySeq DEF Scans!Init
<1>2. Scans!weight \in 0 .. Cardinality(ShelfCans)
  BY WeightMoves DEF Scans!Init
<1>3. Scans!TypeOK
  <2>1. stock \in [ShelfCans -> Int]
    BY DEF Scans!Init, Scans!Held
  <2>2. Len(dialogs) <= MaxDialogs /\ scanned \in 0 .. MaxScanned
    BY <1>1 DEF Scans!Init
  <2>3. baseline \in 0 .. Scans!Cardinality(ShelfCans) /\ alarm \in Int
    BY <1>2, ScanSizes DEF Scans!Init
  <2>4. assigned \in [Places -> ShelfCans \cup {NoProduct}]
    BY DEF Scans!Init
  <2> QED
    BY <1>1, <2>1, <2>2, <2>3, <2>4 DEF Scans!Init, Scans!TypeOK
<1>4. Still /\ Scans!weighing = {}
  BY <1>1 DEF Still, Scans!weighing
<1> QED
  BY <1>1, <1>3, <1>4 DEF Scans!Init, ScanInv, Lone, Weighed, Stocked, Based, Alarmed

LEMMA CreditsShow == ScanInv => Scans!CreditsAddUp
<1> SUFFICES ASSUME ScanInv, dialogs = <<>>, wanted = NoProduct, ~mixedUp
             PROVE stock = Scans!Held(scansShelf)
  BY DEF Scans!CreditsAddUp
<1>1. Still
  BY DialogList DEF Still, ScanInv
<1> QED
  BY <1>1 DEF ScanInv, Stocked

(* What changes none of the invariant's parts.                             *)
LEMMA ScanUnmoved ==
  ASSUME ScanInv, Scans!TypeOK',
         UNCHANGED <<scansShelf, rfidDown, baseline, scansPending, alarm, dialogs, stock, wanted,
             mixedUp>>,
         scansPending => UNCHANGED alarmPopup
  PROVE  ScanInv'
BY DEF ScanInv, Lone, Weighed, Stocked, Based, Alarmed, Still, Moving, Asks, Toggled, Way,
       Scans!weight,
   Scans!weighing, Scans!Held

LEMMA ChooseKeeps == ASSUME ScanInv, NEW a \in {"load", "unload"}, Scans!ChooseAction(a)
    PROVE ScanInv'
<1> DEFINE m == Len(dialogs)
<1>0. Scans!TypeOK /\ m \in DOMAIN dialogs /\ DOMAIN dialogs = 1 .. m /\ m \in Nat
      /\ dialogs[m] \in Scans!Dialog
  BY DialogList DEF ScanInv, Scans!ChooseAction
<1>1. Scans!weight \in Nat
  BY <1>0, WeightMoves DEF Scans!TypeOK
<1>2. PICK ok \in BOOLEAN :
        /\ dialogs' = [dialogs EXCEPT ![m] =
                         [@ EXCEPT !.action = a, !.initial = IF ok THEN Scans!StartWeight ELSE 0]]
        /\ mixedUp' = (mixedUp \/ Scans!weighing # {} \/ ~ok)
  BY DEF Scans!ChooseAction
<1> DEFINE d == [dialogs[m] EXCEPT !.action = a, !.initial = IF ok THEN Scans!StartWeight ELSE 0]
<1>3. d \in Scans!Dialog /\ d.can = dialogs[m].can /\ d.diff = dialogs[m].diff /\ d.action = a
      /\ (ok => d.initial = Scans!weight)
  BY <1>0, <1>1 DEF Scans!Dialog, Scans!StartWeight
<1>4. dialogs' = [dialogs EXCEPT ![m] = d]
  BY <1>2
<1> HIDE DEF d, m
<1>5. dialogs' \in Seq(Scans!Dialog) /\ Len(dialogs') = m
  BY <1>0, <1>3, <1>4, ExceptSeq DEF Scans!TypeOK, m
<1>6. DOMAIN dialogs' = DOMAIN dialogs /\ dialogs'[m] = d
      /\ \A i \in DOMAIN dialogs : i # m => dialogs'[i] = dialogs[i]
  BY <1>0, <1>4
<1>7. Scans!TypeOK'
  <2>1. Len(dialogs') <= MaxDialogs
    BY <1>0, <1>5 DEF Scans!TypeOK, m
  <2>2. mixedUp' \in BOOLEAN
    BY <1>2
  <2> QED
    BY <1>0, <1>5, <2>1, <2>2
    DEF Scans!TypeOK, Scans!ChooseAction, Scans!shelfVars, Scans!alarmVars, Scans!mapVars
<1>8. ASSUME ~mixedUp' PROVE (Lone /\ Weighed /\ Stocked /\ Based /\ Alarmed)'
  <2>1. ok /\ Scans!weighing = {} /\ ~mixedUp
    BY <1>2, <1>8
  <2>2. \A i \in DOMAIN dialogs : Asks(i) /\ dialogs[i].diff = 0
    BY <2>1 DEF Scans!weighing, Asks, ScanInv, Weighed
  <2>3. Still /\ ~scansPending
    BY <1>0, <2>1, <2>2, DialogList DEF Still, Moving, ScanInv, Alarmed
  <2>4. Scans!weight' = Scans!weight /\ scansShelf' = scansShelf
    BY DEF Scans!ChooseAction, Scans!shelfVars, Scans!weight
  <2>5. Scans!weighing' \subseteq {m} /\ \A i \in DOMAIN dialogs' : i # m => Asks(i)'
    BY <1>6, <2>2 DEF Scans!weighing, Asks
  <2>6. \A i \in DOMAIN dialogs' : ~Moving(i)' /\ dialogs'[i].diff = 0
    BY <1>0, <1>3, <1>6, <2>1, <2>2, <2>4, <2>5 DEF Moving
  <2>7. Still' /\ Weighed' /\ Lone'
    BY <2>5, <2>6 DEF Still, Weighed, Lone
  <2>8. Stocked'
    BY <2>1, <2>3, <2>4, <2>7 DEF Stocked, ScanInv, Scans!ChooseAction, Toggled
  <2>9. Based' /\ Alarmed'
    BY <2>1, <2>3, <2>4, <2>7
       DEF Based, Alarmed, ScanInv, Scans!ChooseAction, Way, Scans!shelfVars, Scans!alarmVars
  <2> QED
    BY <2>7, <2>8, <2>9
<1> QED
  BY <1>7, <1>8 DEF ScanInv

LEMMA CheckKeeps == ASSUME ScanInv, NEW i \in 1 .. MaxDialogs, Scans!CheckWeight(i) PROVE ScanInv'
<1>0. Scans!TypeOK /\ DOMAIN dialogs = 1 .. Len(dialogs) /\ Len(dialogs) \in Nat
      /\ i \in DOMAIN dialogs
      /\ dialogs[i] \in Scans!Dialog /\ dialogs # <<>> /\ ~Asks(i)
  BY DialogList DEF ScanInv, Scans!CheckWeight, Scans!weighing, Asks
<1>1. Scans!weight \in Nat
  BY <1>0, WeightMoves DEF Scans!TypeOK
<1> DEFINE d == [dialogs[i] EXCEPT !.diff = Scans!weight - dialogs[i].initial]
<1>2. d \in Scans!Dialog /\ d.can = dialogs[i].can /\ d.action = dialogs[i].action
      /\ d.initial = dialogs[i].initial /\ d.diff = Scans!weight - dialogs[i].initial
  BY <1>0, <1>1 DEF Scans!Dialog
<1>3. dialogs' = [dialogs EXCEPT ![i] = d]
  BY DEF Scans!CheckWeight
<1> HIDE DEF d
<1>4. dialogs' \in Seq(Scans!Dialog) /\ Len(dialogs') = Len(dialogs)
  BY <1>0, <1>2, <1>3, ExceptSeq DEF Scans!TypeOK
<1>5. DOMAIN dialogs' = DOMAIN dialogs /\ dialogs'[i] = d
      /\ \A j \in DOMAIN dialogs : j # i => dialogs'[j] = dialogs[j]
  BY <1>0, <1>3
<1>6. Scans!TypeOK'
  BY <1>0, <1>4
     DEF Scans!TypeOK, Scans!CheckWeight, Scans!shelfVars, Scans!alarmVars, Scans!mapVars
<1>7. Scans!weight' = Scans!weight /\ scansShelf' = scansShelf
      /\ UNCHANGED <<rfidDown, stock, wanted, mixedUp>>
      /\ UNCHANGED <<baseline, scansPending, alarm, alarmPopup>>
  BY DEF Scans!CheckWeight, Scans!shelfVars, Scans!alarmVars, Scans!weight
<1>8. \A j \in DOMAIN dialogs : /\ dialogs'[j].can = dialogs[j].can
                                /\ dialogs'[j].action = dialogs[j].action
                                /\ dialogs'[j].initial = dialogs[j].initial
                                /\ j # i => dialogs'[j].diff = dialogs[j].diff
  BY <1>2, <1>5
<1>9. Scans!weighing' = Scans!weighing /\ \A j \in DOMAIN dialogs : Asks(j)' = Asks(j)
      /\ Moving(j)' = Moving(j)
  BY <1>5, <1>7, <1>8 DEF Scans!weighing, Asks, Moving
<1>10. Still' = Still
  BY <1>5, <1>9 DEF Still
<1>11. ASSUME ~mixedUp PROVE (Lone /\ Weighed /\ Stocked /\ Based /\ Alarmed)'
  <2>1. Lone' /\ Based' /\ ~scansPending
    BY <1>0, <1>7, <1>9, <1>10, <1>11 DEF Lone, Based, ScanInv, Alarmed, Way
  <2>2. Alarmed'
    BY <1>7, <1>11, <2>1 DEF Alarmed, ScanInv
  <2>3. Stocked'
    BY <1>7, <1>8, <1>9, <1>10, <1>11 DEF Stocked, ScanInv, Scans!weighing, Toggled
  <2>4. ASSUME NEW j \in DOMAIN dialogs'
        PROVE  dialogs'[j].diff # 0
            => ~Asks(j)' /\ dialogs'[j].diff = Scans!weight' - dialogs'[j].initial
    BY <1>0, <1>2, <1>5, <1>7, <1>9, <1>11, <2>4 DEF ScanInv, Weighed
  <2>5. ASSUME NEW j \in DOMAIN dialogs', Moving(j)'
        PROVE  /\ dialogs'[j].action = (IF dialogs'[j].can \in scansShelf' THEN "load"
                                                                          ELSE "unload")
               /\ Scans!weight' = dialogs'[j].initial + Way(dialogs[j].can)
    BY <1>5, <1>7, <1>8, <1>9, <1>11, <2>5 DEF ScanInv, Weighed
  <2>6. Weighed'
    BY <1>5, <1>7, <1>8, <2>4, <2>5 DEF Weighed, Way
  <2> QED
    BY <2>1, <2>2, <2>3, <2>6
<1> QED
  BY <1>6, <1>7, <1>11 DEF ScanInv

(* A dialog closes: the ones below it neither weigh nor stop.              *)
LEMMA PopKeeps ==
  ASSUME ScanInv, dialogs # <<>>, Scans!Pop, UNCHANGED scansShelf
  PROVE  /\ Scans!weight' = Scans!weight
         /\ \A i \in DOMAIN dialogs' : /\ i \in DOMAIN dialogs /\ dialogs'[i] = dialogs[i]
                                       /\ Asks(i)' = Asks(i) /\ Moving(i)' = Moving(i)
         /\ ~mixedUp => Lone' /\ Weighed'
<1>1. Scans!TypeOK
  BY DEF ScanInv
<1>2. Scans!weight' = Scans!weight
  BY DEF Scans!weight
<1>3. \A i \in DOMAIN dialogs' : i \in DOMAIN dialogs /\ dialogs'[i] = dialogs[i]
  BY <1>1, Popped
<1>4. \A i \in DOMAIN dialogs' : Asks(i)' = Asks(i) /\ Moving(i)' = Moving(i)
  BY <1>2, <1>3 DEF Asks, Moving
<1>5. ASSUME ~mixedUp PROVE Lone' /\ Weighed'
  <2>1. Lone'
    BY <1>3, <1>4, <1>5 DEF ScanInv, Lone, Scans!weighing
  <2>2. Weighed'
    BY <1>2, <1>3, <1>4, <1>5 DEF ScanInv, Weighed, Way
  <2> QED
    BY <2>1, <2>2
<1> QED
  BY <1>2, <1>3, <1>4, <1>5

LEMMA AbsIs == ASSUME NEW n \in Int PROVE n < 0 => Scans!Abs(n) = 0 - n
BY DEF Scans!Abs

LEMMA AbsOfLess == ASSUME NEW n \in Int, n = 0 - 1 PROVE Scans!Abs(n) = 1 /\ n < 0
BY AbsIs

(* A unit off the stock of a can that is held once.                        *)
LEMMA TakenOff ==
  ASSUME NEW c, stock[c] = 1, NEW n \in Int, n = 0 - 1
  PROVE  Scans!Credited(c, "unload", n) = [stock EXCEPT ![c] = 0]
<1>1. Scans!Abs(n) = 1 /\ ~(1 > 1)
  BY AbsOfLess
<1> QED
  BY <1>1 DEF Scans!Credited

LEMMA ConfirmKeeps == ASSUME ScanInv, Scans!Confirm PROVE ScanInv'
<1> DEFINE m == Len(dialogs)
<1>0. Scans!TypeOK /\ m \in DOMAIN dialogs /\ DOMAIN dialogs = 1 .. m /\ m \in Nat
      /\ dialogs[m] \in Scans!Dialog
      /\ dialogs # <<>> /\ Scans!Pop /\ Scans!Top = dialogs[m] /\ Scans!Enabled(Scans!Top)
  BY DialogList DEF ScanInv, Scans!Confirm, Scans!Top
<1>1. /\ UNCHANGED <<scansShelf, rfidDown, baseline, scansPending, alarm, alarmPopup>>
      /\ UNCHANGED <<wanted, scanned, scansSession, scansPage, scansChosen, question, assigned>>
      /\ mixedUp' = (mixedUp \/ rfidDown)
      /\ stock' = Scans!Credited(Scans!Top.can, Scans!Top.action, Scans!Top.diff)
  BY DEF Scans!Confirm, Scans!shelfVars, Scans!alarmVars, Scans!mapVars
<1>2. stock' \in [ShelfCans -> Int]
  BY <1>0, <1>1 DEF Scans!Credited, Scans!Abs, Scans!TypeOK, Scans!Dialog
<1>3. Scans!TypeOK'
  <2>1. Len(dialogs') <= MaxDialogs /\ dialogs' \in Seq(Scans!Dialog)
    <3>1. Len(dialogs') = Len(dialogs) - 1 /\ Len(dialogs) \in Nat
          /\ dialogs' \in Seq(Scans!Dialog)
      BY <1>0, Popped
    <3>2. Len(dialogs) <= MaxDialogs
      BY <1>0 DEF Scans!TypeOK
    <3> QED
      BY <3>1, <3>2
  <2>2. mixedUp' \in BOOLEAN
    BY <1>0, <1>1 DEF Scans!TypeOK
  <2> QED
    BY <1>0, <1>1, <1>2, <2>1, <2>2 DEF Scans!TypeOK
<1>4. ASSUME ~mixedUp' PROVE (Lone /\ Weighed /\ Stocked /\ Based /\ Alarmed)'
  <2>1. ~mixedUp /\ ~rfidDown /\ wanted = NoProduct
    BY <1>1, <1>4 DEF ScanInv, Alarmed
  <2>2. dialogs[m].action \in {"load", "unload"} /\ dialogs[m].diff # 0
        /\ (dialogs[m].action = "load" => dialogs[m].diff > 0)
        /\ (dialogs[m].action = "unload" => dialogs[m].diff < 0)
    BY <1>0 DEF Scans!Enabled, Scans!Dialog
  <2>3. Scans!weight \in Nat
    BY <1>0, WeightMoves DEF Scans!TypeOK
  <2>4. ~Asks(m) /\ dialogs[m].diff = Scans!weight - dialogs[m].initial
    BY <1>0, <2>1, <2>2 DEF ScanInv, Weighed
  <2>5. Moving(m) /\ m \in Scans!weighing
    BY <1>0, <2>2, <2>3, <2>4 DEF Moving, Asks, Scans!weighing, Scans!Dialog
  <2>6. /\ dialogs[m].action = (IF dialogs[m].can \in scansShelf THEN "load" ELSE "unload")
        /\ dialogs[m].diff = Way(dialogs[m].can)
    BY <1>0, <2>1, <2>3, <2>4, <2>5 DEF ScanInv, Weighed, Way, Scans!Dialog
  <2>7. \A i \in Scans!weighing : i = m
    BY <2>1, <2>5 DEF ScanInv, Lone
  <2>8. ~Still
    BY <1>0, <2>5 DEF Still
  <2>9. stock = Scans!Held(Toggled(dialogs[m].can))
    BY <2>1, <2>7, <2>8 DEF ScanInv, Stocked
  <2>10. stock' = Scans!Held(scansShelf)
    <3>0. dialogs[m].can \in ShelfCans
      BY <1>0 DEF Scans!Dialog
    <3> DEFINE c == dialogs[m].can
    <3>1. stock = [q \in ShelfCans |-> IF q \in Toggled(c) THEN 1 ELSE 0]
      BY <2>9 DEF Scans!Held
    <3>2. CASE c \in scansShelf
      <4>1. dialogs[m].action = "load" /\ dialogs[m].diff = 1 /\ stock[c] = 0
        BY <2>6, <3>0, <3>1, <3>2 DEF Way, Toggled
      <4>2. stock' = [stock EXCEPT ![c] = 1]
        BY <1>0, <1>1, <4>1 DEF Scans!Credited, Scans!Abs
      <4> QED
        BY <3>1, <3>2, <4>2 DEF Scans!Held, Toggled
    <3>3. CASE c \notin scansShelf
      <4>1. dialogs[m].action = "unload" /\ dialogs[m].diff = 0 - 1 /\ stock[c] = 1
        BY <2>6, <3>0, <3>1, <3>3 DEF Way, Toggled
      <4>3. stock' = [stock EXCEPT ![c] = 0]
        BY <1>0, <1>1, <4>1, TakenOff
      <4> QED
        BY <3>1, <3>3, <4>3 DEF Scans!Held, Toggled
    <3> QED
      BY <3>2, <3>3
  <2>11. Still'
    <3> SUFFICES ASSUME NEW i \in DOMAIN dialogs', Moving(i)' PROVE FALSE
      BY DEF Still
    <3>1. i \in DOMAIN dialogs /\ Moving(i) /\ i # m
      BY <1>0, <1>1, PopKeeps, Popped
    <3> QED
      BY <2>7, <3>1 DEF Scans!weighing, Moving, Asks
  <2>12. Lone' /\ Weighed'
    BY <1>0, <1>1, <2>1, PopKeeps
  <2>13. Stocked' /\ Based'
    BY <1>1, <2>1, <2>10, <2>11 DEF Stocked, Based, Scans!Held
  <2>14. Alarmed'
    BY <1>0, <1>1, <2>1 DEF Alarmed, ScanInv
  <2> QED
    BY <2>12, <2>13, <2>14
<1> QED
  BY <1>3, <1>4 DEF ScanInv

LEMMA CancelKeeps == ASSUME ScanInv, Scans!Cancel PROVE ScanInv'
<1> DEFINE m == Len(dialogs)
<1>0. Scans!TypeOK /\ m \in DOMAIN dialogs /\ dialogs # <<>> /\ Scans!Pop /\ Scans!Top = dialogs[m]
  BY DialogList DEF ScanInv, Scans!Cancel, Scans!Top
<1>1. /\ UNCHANGED <<scansShelf, rfidDown, baseline, scansPending, alarm, alarmPopup>>
      /\ UNCHANGED <<stock, mixedUp, wanted, scanned, scansSession, scansPage, scansChosen,
                 question, assigned>>
  BY DEF Scans!Cancel, Scans!shelfVars, Scans!alarmVars, Scans!mapVars
<1>2. Scans!TypeOK'
  <2>1. Len(dialogs') <= MaxDialogs /\ dialogs' \in Seq(Scans!Dialog)
    BY <1>0, Popped, DialogList DEF Scans!TypeOK
  <2> QED
    BY <1>0, <1>1, <2>1 DEF Scans!TypeOK
<1>3. ~Moving(m)
  BY <1>0 DEF Scans!Cancel, Moving, Asks
<1>4. Still' = Still
  <2>1. Still => Still'
    BY <1>0, <1>1, PopKeeps DEF Still
  <2>2. ASSUME Still' PROVE Still
    <3> SUFFICES ASSUME NEW i \in DOMAIN dialogs, Moving(i) PROVE FALSE
      BY DEF Still
    <3>1. i \in DOMAIN dialogs'
      BY <1>0, <1>3, Popped
    <3> QED
      BY <1>0, <1>1, <2>2, <3>1, PopKeeps DEF Still
  <2>3. Still \in BOOLEAN /\ Still' \in BOOLEAN
    BY DEF Still
  <2> QED
    BY <2>1, <2>2, <2>3
<1>5. ASSUME ~mixedUp' PROVE (Lone /\ Weighed /\ Stocked /\ Based /\ Alarmed)'
  <2>1. Lone' /\ Weighed'
    BY <1>0, <1>1, <1>5, PopKeeps
  <2>4. Stocked'
    <3>1. CASE Still
      BY <1>1, <1>4, <1>5, <3>1 DEF ScanInv, Stocked, Toggled, Scans!Held
    <3>2. CASE ~Still /\ rfidDown
      BY <1>1, <1>4, <3>2 DEF Stocked
    <3>3. CASE ~Still /\ ~rfidDown
      <4>1. PICK i \in Scans!weighing : Moving(i) /\ stock = Scans!Held(Toggled(dialogs[i].can))
        BY <1>1, <1>5, <3>3 DEF ScanInv, Stocked
      <4>2. i \in DOMAIN dialogs'
        BY <1>0, <1>3, <4>1, Popped DEF Scans!weighing
      <4>3. dialogs'[i] = dialogs[i] /\ Moving(i)'
        BY <1>0, <1>1, <4>1, <4>2, PopKeeps
      <4>4. i \in Scans!weighing'
        BY <4>1, <4>2, <4>3 DEF Scans!weighing
      <4>5. stock' = Scans!Held(Toggled(dialogs[i].can))'
        BY <1>1, <4>1, <4>3 DEF Scans!Held, Toggled
      <4> QED
        BY <1>4, <3>3, <4>3, <4>4, <4>5 DEF Stocked
    <3> QED
      BY <3>1, <3>2, <3>3
  <2>5. Based'
    BY <1>1, <1>4, <1>5 DEF ScanInv, Based, Way, Scans!weight
  <2>6. Alarmed'
    BY <1>0, <1>1, <1>5 DEF Alarmed, ScanInv, Way
  <2> QED
    BY <2>1, <2>4, <2>5, <2>6
<1> QED
  BY <1>2, <1>5 DEF ScanInv

(* With no dialog open nothing weighs.                                     *)
LEMMA NoDialog == ASSUME Scans!TypeOK, dialogs = <<>>
    PROVE Still /\ Scans!weighing = {} /\ DOMAIN dialogs = {}
BY DialogList DEF Still, Scans!weighing

LEMMA AlarmKeeps == ASSUME ScanInv, Scans!Alarm PROVE ScanInv'
<1>0. Scans!TypeOK /\ Scans!weight \in 0 .. Cardinality(ShelfCans)
  BY WeightMoves DEF ScanInv, Scans!TypeOK
<1>1. /\ UNCHANGED <<scansShelf, rfidDown, dialogs, stock, wanted, scanned, scansSession>>
      /\ UNCHANGED <<scansPage, scansChosen, question, assigned>>
      /\ mixedUp' = (mixedUp \/ dialogs # <<>>) /\ scansPending' = TRUE /\ alarmPopup' = TRUE
      /\ baseline' = Scans!weight /\ alarm' = Scans!weight - baseline
      /\ Scans!weight # baseline /\ rfidDown /\ ~scansPending
  BY DEF Scans!Alarm, Scans!shelfVars, Scans!mapVars
<1>2. Scans!TypeOK'
  <2>1. alarm' \in Int /\ baseline' \in 0 .. Scans!Cardinality(ShelfCans)
    BY <1>0, <1>1, ScanSizes DEF Scans!TypeOK
  <2> QED
    BY <1>0, <1>1, <2>1 DEF Scans!TypeOK
<1>3. ASSUME ~mixedUp' PROVE (Lone /\ Weighed /\ Stocked /\ Based /\ Alarmed)'
  <2>1. ~mixedUp /\ dialogs = <<>> /\ dialogs' = <<>>
    BY <1>1, <1>3
  <2>2. Still /\ Scans!weighing = {} /\ DOMAIN dialogs = {}
    BY <1>0, <2>1, NoDialog
  <2>3. Still' /\ Scans!weighing' = {} /\ DOMAIN dialogs' = {}
    BY <1>1, <2>2 DEF Still, Scans!weighing, Moving, Asks, Scans!weight
  <2>4. wanted # NoProduct /\ Scans!weight = baseline + Way(wanted)
    BY <1>1, <2>1, <2>2 DEF ScanInv, Based
  <2>5. alarm' = Way(wanted)
    BY <1>0, <1>1, <2>4 DEF Scans!TypeOK, Way
  <2>6. Lone' /\ Weighed'
    BY <2>3 DEF Lone, Weighed
  <2>7. Stocked'
    BY <1>1, <2>1, <2>2, <2>3 DEF ScanInv, Stocked, Scans!Held, Toggled
  <2>8. Based' /\ Alarmed'
    BY <1>1, <2>1, <2>4, <2>5 DEF Based, Alarmed, Way, Scans!weight
  <2> QED
    BY <2>6, <2>7, <2>8
<1> QED
  BY <1>2, <1>3 DEF ScanInv

LEMMA ResolveKeeps ==
  ASSUME ScanInv, NEW c \in ShelfCans, alarmPopup, scansPending, Scans!Resolve(c),
         UNCHANGED <<Scans!shelfVars, scansSession>>,
         scanned' \in 0 .. MaxScanned
  PROVE  ScanInv'
<1>0. Scans!TypeOK
  BY DEF ScanInv
<1>1. /\ UNCHANGED <<scansShelf, rfidDown, baseline, alarm, alarmPopup, dialogs, scansSession>>
      /\ UNCHANGED <<scansPage, scansChosen, question, assigned>>
      /\ scansPending' = FALSE /\ wanted' = NoProduct /\ mixedUp' = (mixedUp \/ c # wanted)
      /\ stock' = Scans!Credited(c, IF alarm < 0 THEN "unload" ELSE "load", alarm)
  BY DEF Scans!Resolve, Scans!shelfVars, Scans!mapVars
<1>2. Scans!TypeOK'
  <2>1. stock' \in [ShelfCans -> Int]
    BY <1>0, <1>1 DEF Scans!Credited, Scans!Abs, Scans!TypeOK
  <2> QED
    BY <1>0, <1>1, <2>1 DEF Scans!TypeOK
<1>3. ASSUME ~mixedUp' PROVE (Lone /\ Weighed /\ Stocked /\ Based /\ Alarmed)'
  <2>1. ~mixedUp /\ c = wanted /\ wanted # NoProduct
    BY <1>1, <1>3
  <2>2. dialogs = <<>> /\ alarm = Way(c)
    BY <2>1 DEF ScanInv, Alarmed
  <2>3. Still /\ Scans!weighing = {} /\ DOMAIN dialogs = {}
    BY <1>0, <2>2, NoDialog
  <2>4. Still' /\ Scans!weighing' = {} /\ DOMAIN dialogs' = {}
    BY <1>1, <2>3 DEF Still, Scans!weighing, Moving, Asks, Scans!weight
  <2>5. stock = [q \in ShelfCans |-> IF q \in Toggled(c) THEN 1 ELSE 0]
    BY <2>1, <2>3 DEF ScanInv, Stocked, Scans!Held
  <2>6. stock' = Scans!Held(scansShelf)
    <3>1. CASE c \in scansShelf
      <4>1. alarm = 1 /\ stock[c] = 0
        BY <2>2, <2>5, <3>1 DEF Way, Toggled
      <4>2. stock' = [stock EXCEPT ![c] = 1]
        BY <1>1, <4>1 DEF Scans!Credited, Scans!Abs
      <4> QED
        BY <2>5, <3>1, <4>2 DEF Scans!Held, Toggled
    <3>2. CASE c \notin scansShelf
      <4>1. alarm = 0 - 1 /\ stock[c] = 1
        BY <2>2, <2>5, <3>2 DEF Way, Toggled
      <4>3. stock' = [stock EXCEPT ![c] = 0]
        BY <1>1, <4>1, TakenOff, AbsOfLess
      <4> QED
        BY <2>5, <3>2, <4>3 DEF Scans!Held, Toggled
    <3> QED
      BY <3>1, <3>2
  <2>7. Lone' /\ Weighed'
    BY <2>4 DEF Lone, Weighed
  <2>8. Stocked' /\ Alarmed'
    BY <1>1, <2>4, <2>6 DEF Stocked, Alarmed, Scans!Held
  <2>9. Based'
    BY <1>1, <2>1, <2>3 DEF ScanInv, Based, Scans!weight
  <2> QED
    BY <2>7, <2>8, <2>9
<1> QED
  BY <1>2, <1>3 DEF ScanInv

(* A dialog opens above the others; it only asks.                          *)
LEMMA DialogOpens ==
  ASSUME ScanInv, NEW c \in ShelfCans, ~(alarmPopup /\ scansPending), Scans!OpenDialog(c),
         UNCHANGED <<Scans!shelfVars, scansSession>>, scanned' \in 0 .. MaxScanned
  PROVE  ScanInv'
<1> PICK m \in Nat : m = Len(dialogs)
  BY DialogList DEF ScanInv
<1> DEFINE d == [Scans!none EXCEPT !.can = c]
<1>0. Scans!TypeOK /\ m \in Nat /\ DOMAIN dialogs = 1 .. m /\ dialogs \in Seq(Scans!Dialog)
  BY DialogList DEF ScanInv, Scans!TypeOK
<1>1. d \in Scans!Dialog /\ d.action = "ask" /\ d.diff = 0
  BY DEF Scans!none, Scans!Dialog
<1>2. dialogs' = Append(dialogs, d) /\ m < MaxDialogs
  BY DEF Scans!OpenDialog
<1> HIDE DEF d
<1>3. dialogs' \in Seq(Scans!Dialog) /\ Len(dialogs') = m + 1 /\ dialogs'[m + 1] = d
      /\ \A i \in 1 .. m : dialogs'[i] = dialogs[i]
  BY <1>0, <1>1, <1>2, AppendProperties
<1>4. DOMAIN dialogs' = 1 .. m + 1
  BY <1>3, LenProperties
<1>5. /\ UNCHANGED <<scansShelf, rfidDown, baseline, scansPending, alarm, alarmPopup>>
      /\ UNCHANGED <<stock, mixedUp, wanted, scansSession, scansPage, scansChosen, question,
                 assigned>>
  BY DEF Scans!OpenDialog, Scans!shelfVars, Scans!alarmVars, Scans!mapVars
<1>6. Scans!TypeOK'
  <2>1. Len(dialogs') <= MaxDialogs
    BY <1>0, <1>2, <1>3
  <2> QED
    BY <1>0, <1>3, <1>5, <2>1 DEF Scans!TypeOK
<1>7. Scans!weight' = Scans!weight
  BY <1>5 DEF Scans!weight
<1>8. \A i \in DOMAIN dialogs' : i \in DOMAIN dialogs \/ i = m + 1
  BY <1>0, <1>4
<1>9. \A i \in DOMAIN dialogs : /\ i \in DOMAIN dialogs' /\ dialogs'[i] = dialogs[i]
                                /\ Asks(i)' = Asks(i) /\ Moving(i)' = Moving(i)
  BY <1>0, <1>3, <1>4, <1>7 DEF Asks, Moving
<1>10. Asks(m + 1)' /\ ~Moving(m + 1)' /\ dialogs'[m + 1].diff = 0
  BY <1>1, <1>3 DEF Asks, Moving
<1>11. Still' = Still
  BY <1>8, <1>9, <1>10 DEF Still
<1>12. Scans!weighing' = Scans!weighing
  BY <1>8, <1>9, <1>10 DEF Scans!weighing, Asks
<1>13. ASSUME ~mixedUp' PROVE (Lone /\ Weighed /\ Stocked /\ Based /\ Alarmed)'
  <2>1. Lone'
    BY <1>5, <1>12, <1>13 DEF ScanInv, Lone
  <2>2. Weighed'
    <3>1. ASSUME NEW i \in DOMAIN dialogs, ~mixedUp
          PROVE  /\ dialogs'[i].diff # 0
                      => ~Asks(i)' /\ dialogs'[i].diff = Scans!weight' - dialogs'[i].initial
                 /\ Moving(i)' =>
                      /\ dialogs'[i].action = (IF dialogs'[i].can \in scansShelf' THEN "load"
                          ELSE "unload")
                      /\ Scans!weight' = dialogs'[i].initial
                                     + (IF dialogs'[i].can \in scansShelf' THEN 1 ELSE -1)
      BY <1>5, <1>7, <1>9, <3>1 DEF ScanInv, Weighed, Way
    <3> QED
      BY <1>5, <1>8, <1>10, <1>13, <3>1 DEF Weighed, Way
  <2>3. Stocked'
    <3>1. CASE Still
      BY <1>5, <1>11, <1>13, <3>1 DEF ScanInv, Stocked, Toggled, Scans!Held
    <3>2. CASE ~Still /\ rfidDown
      BY <1>5, <1>11, <3>2 DEF Stocked
    <3>3. CASE ~Still /\ ~rfidDown
      <4>1. PICK i \in Scans!weighing : Moving(i) /\ stock = Scans!Held(Toggled(dialogs[i].can))
        BY <1>5, <1>13, <3>3 DEF ScanInv, Stocked
      <4>2. i \in Scans!weighing' /\ Moving(i)' /\ stock' = Scans!Held(Toggled(dialogs[i].can))'
        BY <1>5, <1>9, <1>12, <4>1 DEF Scans!weighing, Scans!Held, Toggled
      <4> QED
        BY <1>11, <3>3, <4>2 DEF Stocked
    <3> QED
      BY <3>1, <3>2, <3>3
  <2>4. Based'
    BY <1>5, <1>7, <1>11, <1>13 DEF ScanInv, Based, Way
  <2>5. Alarmed'
    BY <1>5, <1>13 DEF ScanInv, Alarmed, Way
  <2> QED
    BY <2>1, <2>2, <2>3, <2>4, <2>5
<1> QED
  BY <1>6, <1>13 DEF ScanInv

LEMMA ScanKeeps == ASSUME ScanInv, NEW c \in ShelfCans, Scans!ScanBarcode(c) PROVE ScanInv'
<1>1. scanned' \in 0 .. MaxScanned /\ UNCHANGED <<Scans!shelfVars, scansSession>> /\ Scans!Route(c)
  BY DEF Scans!ScanBarcode, ScanInv, Scans!TypeOK
<1>2. CASE alarmPopup /\ scansPending
  BY <1>1, <1>2, ResolveKeeps DEF Scans!Route
<1>3. CASE ~(alarmPopup /\ scansPending) /\ Scans!OpenDialog(c)
  BY <1>1, <1>3, DialogOpens
<1>4. CASE ~(alarmPopup /\ scansPending) /\ (Scans!AssignSlot(c) \/ Scans!Verify)
  <2>1. /\ UNCHANGED <<scansShelf, rfidDown, baseline, scansPending, alarm, alarmPopup, dialogs>>
        /\ UNCHANGED <<stock, mixedUp, wanted, scansSession, scansPage, question>>
    BY <1>1, <1>4
       DEF Scans!AssignSlot, Scans!Verify, Scans!shelfVars, Scans!alarmVars, Scans!mapVars
  <2>2. scansChosen' \in Places \cup {NoPlace}
        /\ assigned' \in [Places -> ShelfCans \cup {NoProduct}]
    BY <1>4 DEF Scans!AssignSlot, Scans!Verify, Scans!mapVars, Scans!SlotSet, ScanInv, Scans!TypeOK
  <2>3. Scans!TypeOK'
    BY <1>1, <2>1, <2>2 DEF ScanInv, Scans!TypeOK
  <2> QED
    BY <2>1, <2>3, ScanUnmoved
<1> QED
  BY <1>1, <1>2, <1>3, <1>4 DEF Scans!Route

(* The shelf map, a session and a popup that closes leave the stock alone. *)
LEMMA MapKeeps ==
  ASSUME ScanInv,
         Scans!GoScreen \/ Scans!Answer \/ Scans!MixingSession \/ Scans!ClosePopup
           \/ \E p \in Places : Scans!TapFree(p) \/ Scans!TapAssigned(p)
  PROVE  ScanInv'
<1>1. /\ UNCHANGED <<scansShelf, rfidDown, baseline, scansPending, alarm, dialogs>>
      /\ UNCHANGED <<stock, mixedUp, wanted, scanned>> /\ (scansPending => UNCHANGED alarmPopup)
  BY DEF Scans!GoScreen, Scans!Answer, Scans!MixingSession, Scans!ClosePopup, Scans!TapFree,
         Scans!TapAssigned, Scans!otherVars, Scans!shelfVars,
     Scans!alarmVars, Scans!mapVars
<1>2. Scans!TypeOK'
  <2>1. scansPage' \in {"home", "shelf_map"} /\ alarmPopup' \in BOOLEAN
        /\ scansSession' \in BOOLEAN
        /\ scansChosen' \in Places \cup {NoPlace} /\ question' \in Places \cup {NoPlace}
    BY DEF Scans!GoScreen, Scans!Answer, Scans!MixingSession, Scans!ClosePopup, Scans!TapFree,
           Scans!TapAssigned, Scans!otherVars, Scans!shelfVars,
       Scans!alarmVars, Scans!mapVars, ScanInv, Scans!TypeOK
  <2>2. assigned' \in [Places -> ShelfCans \cup {NoProduct}]
    BY DEF Scans!GoScreen, Scans!Answer, Scans!MixingSession, Scans!ClosePopup, Scans!TapFree,
           Scans!TapAssigned, Scans!mapVars,
       Scans!SlotCleared, ScanInv, Scans!TypeOK
  <2> QED
    BY <1>1, <2>1, <2>2 DEF ScanInv, Scans!TypeOK
<1> QED
  BY <1>1, <1>2, ScanUnmoved

LEMMA ExpireKeeps == ASSUME ScanInv, Scans!Expire PROVE ScanInv'
BY DEF Scans!Expire, ScanInv, Scans!TypeOK, Scans!shelfVars, Scans!mapVars

LEMMA ToldKeeps == ASSUME ScanInv, Scans!MoveAsTold PROVE ScanInv'
<1> PICK m \in Nat : m = Len(dialogs)
  BY DialogList DEF ScanInv
<1> PICK c : c = dialogs[m].can
  OBVIOUS
<1>0. Scans!TypeOK /\ m \in DOMAIN dialogs /\ dialogs[m] \in Scans!Dialog
      /\ Scans!Top = dialogs[m] /\ dialogs # <<>>
      /\ \A i \in DOMAIN dialogs : dialogs[i] \in Scans!Dialog
  BY DialogList DEF ScanInv, Scans!MoveAsTold, Scans!Top
<1>1. /\ UNCHANGED <<rfidDown, baseline, scansPending, alarm, alarmPopup, dialogs, stock, mixedUp>>
      /\ UNCHANGED <<wanted, scanned, scansSession, scansPage, scansChosen, question, assigned>>
      /\ scansShelf' = Toggled(c)
      /\ dialogs[m].action = (IF c \in scansShelf THEN "unload" ELSE "load")
  BY <1>0 DEF Scans!MoveAsTold, Scans!Moved, Toggled, Scans!alarmVars, Scans!mapVars
<1>2. c \in ShelfCans /\ scansShelf \subseteq ShelfCans /\ Scans!weight \in Nat
  BY <1>0, WeightMoves DEF Scans!Dialog, Scans!TypeOK
<1>3. scansShelf' \subseteq ShelfCans /\ Scans!weight' = Scans!weight - Way(c)
  BY <1>1, <1>2, WeightMoves, ScanSizes DEF Scans!weight
<1>4. Scans!TypeOK'
  BY <1>0, <1>1, <1>3 DEF Scans!TypeOK
<1>5. ASSUME ~mixedUp' PROVE (Lone /\ Weighed /\ Stocked /\ Based /\ Alarmed)'
  <2>0. ~mixedUp
    BY <1>1, <1>5
  <2>1. ~Asks(m) /\ m \in Scans!weighing
    BY <1>0, <1>1 DEF Asks, Scans!weighing
  <2>2. Scans!weight = dialogs[m].initial
    BY <1>0, <1>1, <2>0, <2>1 DEF ScanInv, Weighed, Moving
  <2>3. \A i \in DOMAIN dialogs : i # m => Asks(i)
    BY <1>0, <2>0, <2>1 DEF ScanInv, Lone, Scans!weighing, Asks
  <2>4. \A i \in DOMAIN dialogs : dialogs[i].diff = 0
    <3>1. \A i \in DOMAIN dialogs : i # m => dialogs[i].diff = 0
      BY <2>0, <2>3 DEF ScanInv, Weighed
    <3>2. dialogs[m].diff # 0 => dialogs[m].diff = Scans!weight - dialogs[m].initial
      BY <1>0, <2>0 DEF ScanInv, Weighed
    <3> QED
      BY <1>2, <2>2, <3>1, <3>2
  <2>5. Still /\ ~scansPending
    BY <1>0, <2>0, <2>2, <2>3 DEF Still, Moving, ScanInv, Alarmed
  <2>6. Way(c)' = 0 - Way(c) /\ (c \in scansShelf' <=> c \notin scansShelf)
    BY <1>1 DEF Way, Toggled
  <2>7. \A i \in DOMAIN dialogs' : i # m => ~Moving(i)'
    BY <1>1, <2>3 DEF Moving, Asks
  <2>8. Moving(m)' /\ Scans!weight' = dialogs'[m].initial + Way(c)'
        /\ dialogs'[m].action = (IF c \in scansShelf' THEN "load" ELSE "unload")
    BY <1>1, <1>2, <1>3, <2>1, <2>2, <2>6 DEF Moving, Asks, Way
  <2>9. Weighed'
    BY <1>0, <1>1, <2>4, <2>7, <2>8 DEF Weighed, Way
  <2>10. Lone'
    BY <1>1, <2>0 DEF ScanInv, Lone, Scans!weighing
  <2>11. ~Still'
    BY <1>0, <1>1, <2>8 DEF Still
  <2>12. Stocked'
    <3>1. CASE rfidDown
      BY <1>1, <2>11, <3>1 DEF Stocked
    <3>2. CASE ~rfidDown
      <4>1. wanted = NoProduct /\ stock = Scans!Held(scansShelf)
        BY <2>0, <2>5, <3>2 DEF ScanInv, Alarmed, Stocked
      <4>2. Toggled(c)' = scansShelf
        BY <1>1, <1>2 DEF Toggled
      <4>3. stock' = Scans!Held(Toggled(dialogs[m].can))' /\ m \in Scans!weighing'
        BY <1>1, <2>1, <4>1, <4>2 DEF Scans!Held, Scans!weighing
      <4> QED
        BY <2>8, <2>11, <4>3 DEF Stocked
    <3> QED
      BY <3>1, <3>2
  <2>13. Based'
    BY <2>11 DEF Based
  <2>14. Alarmed'
    BY <1>1, <2>0, <2>5 DEF ScanInv, Alarmed
  <2> QED
    BY <2>9, <2>10, <2>12, <2>13, <2>14
<1> QED
  BY <1>4, <1>5 DEF ScanInv

LEMMA UnaskedKeeps == ASSUME ScanInv, NEW c \in ShelfCans, Scans!MoveUnasked(c) PROVE ScanInv'
<1>0. Scans!TypeOK /\ dialogs = <<>> /\ wanted = NoProduct /\ rfidDown /\ ~scansPending
  BY DEF ScanInv, Scans!MoveUnasked
<1>1. /\ UNCHANGED <<rfidDown, baseline, scansPending, alarm, alarmPopup, dialogs, stock, mixedUp>>
      /\ UNCHANGED <<scanned, scansSession, scansPage, scansChosen, question, assigned>>
      /\ wanted' = c /\ scansShelf' = Toggled(c)
  BY DEF Scans!MoveUnasked, Scans!Moved, Toggled, Scans!alarmVars, Scans!mapVars
<1>2. scansShelf \subseteq ShelfCans /\ Scans!weight \in Nat
  BY <1>0, WeightMoves DEF Scans!TypeOK
<1>3. scansShelf' \subseteq ShelfCans /\ Scans!weight' = Scans!weight - Way(c)
  BY <1>1, <1>2, WeightMoves, ScanSizes DEF Scans!weight
<1>4. Scans!TypeOK'
  BY <1>0, <1>1, <1>3 DEF Scans!TypeOK
<1>5. Still /\ Scans!weighing = {} /\ DOMAIN dialogs = {}
  BY <1>0, NoDialog
<1>6. Still' /\ Scans!weighing' = {} /\ DOMAIN dialogs' = {}
  BY <1>1, <1>5 DEF Still, Scans!weighing, Moving, Asks
<1>7. ASSUME ~mixedUp' PROVE (Lone /\ Weighed /\ Stocked /\ Based /\ Alarmed)'
  <2>1. stock = Scans!Held(scansShelf) /\ Scans!weight = baseline /\ wanted' # NoProduct
    BY <1>0, <1>1, <1>5, <1>7 DEF ScanInv, Stocked, Based
  <2>2. Toggled(c)' = scansShelf /\ Way(c)' = 0 - Way(c)
    BY <1>1, <1>2 DEF Toggled, Way
  <2>3. Lone' /\ Weighed'
    BY <1>6 DEF Lone, Weighed
  <2>4. Stocked'
    BY <1>1, <1>6, <2>1, <2>2 DEF Stocked, Scans!Held
  <2>5. Scans!weight' = baseline' + Way(c)'
    BY <1>1, <1>2, <1>3, <2>1, <2>2 DEF Way
  <2>6. Based' /\ Alarmed'
    BY <1>0, <1>1, <2>5 DEF Based, Alarmed
  <2> QED
    BY <2>3, <2>4, <2>6
<1> QED
  BY <1>4, <1>7 DEF ScanInv

LEMMA ScanStep == ScanInv /\ [Scans!Next]_(Scans!vars) => ScanInv'
<1> SUFFICES ASSUME ScanInv, [Scans!Next]_(Scans!vars) PROVE ScanInv'
  OBVIOUS
<1>1. CASE Scans!Next
  <2>1. CASE Scans!ChooseAction("load") \/ Scans!ChooseAction("unload")
    BY <2>1, ChooseKeeps
  <2>2. CASE Scans!Confirm \/ Scans!Cancel
    BY <2>2, ConfirmKeeps, CancelKeeps
  <2>3. CASE \E i \in 1 .. MaxDialogs : Scans!CheckWeight(i)
    BY <2>3, CheckKeeps
  <2>4. CASE Scans!Alarm \/ Scans!Expire
    BY <2>4, AlarmKeeps, ExpireKeeps
  <2>5. CASE \E c \in ShelfCans : Scans!ScanBarcode(c) \/ Scans!MoveUnasked(c)
    BY <2>5, ScanKeeps, UnaskedKeeps
  <2>6. CASE Scans!GoScreen \/ Scans!Answer \/ Scans!MixingSession \/ Scans!ClosePopup
               \/ \E p \in Places : Scans!TapFree(p) \/ Scans!TapAssigned(p)
    BY <2>6, MapKeeps
  <2>7. CASE Scans!MoveAsTold
    BY <2>7, ToldKeeps
  <2> QED
    BY <1>1, <2>1, <2>2, <2>3, <2>4, <2>5, <2>6, <2>7 DEF Scans!Next
<1>2. CASE UNCHANGED Scans!vars
  BY <1>2, ScanUnmoved
     DEF Scans!vars, Scans!shelfVars, Scans!alarmVars, Scans!mapVars, ScanInv, Scans!TypeOK
<1> QED
  BY <1>1, <1>2


HIDE ScanConstants DEF scansShelf, rfidDown, baseline, scansPending, alarm, alarmPopup, dialogs,
    scansPage, scansChosen, question, assigned, scansSession, stock, wanted, scanned, mixedUp,
    Scans!ScansAssumption

LEMMA ScansInvariant == CabinetSpec => [](focus = "scans" => ScanInv)
<1>1. CabinetInit => (focus = "scans" => ScanInv)
  BY ScanInit DEF CabinetInit
<1>2. (focus = "scans" => ScanInv) /\ [CabinetNext]_cells => (focus = "scans" => ScanInv)'
  <2>1. [CabinetNext]_cells /\ focus = "scans" => [Scans!Next]_(Scans!vars)
    BY DEF CabinetNext, cells, Scans!vars, Scans!shelfVars, Scans!alarmVars, Scans!mapVars
  <2> QED
    BY <2>1, ScanStep, FocusStays
<1> QED
  BY <1>1, <1>2, PTL DEF CabinetSpec

(* A label is reported as it is, and each can that is scanned or loaded is *)
(* counted once: for any labels that begin with SL, any cans and tags, any *)
(* number of scans, dialogs and loadings.                                  *)
THEOREM CabinetCountsCans == CabinetSpec => CansCountOnce
<1>1. (focus = "loading" => LoadInv) => (focus = "loading" => Loading!LoadedOnce)
  BY LoadShows
<1>2. (focus = "scans" => ScanInv) => (focus = "scans" => Scans!CreditsAddUp)
  BY CreditsShow
<1>3. (focus = "filter" => FilterInv) /\ [CabinetNext]_cells
        => [focus = "filter" => Filter!ScanReported]_cells
  <2>1. [CabinetNext]_cells /\ focus = "filter" => [Filter!Next]_(Filter!vars)
    BY DEF CabinetNext, cells, Filter!vars
  <2> QED
    BY <2>1, ScanShows DEF Filter!ScanReported, undisturbed, reports, label
<1> QED
  BY <1>1, <1>2, <1>3, LoadingInvariant, ScansInvariant, FilterInvariant, PTL
  DEF CansCountOnce, CabinetSpec

-----------------------------------------------------------------------------
(* The processes.  The cells by the names that Launch gives them; one that *)
(* was taken has the word launch before it.                                *)
launchStep == c1
own == c2
daemon == c3
bound == c4
launchUi == c5
conn == c6
gaveUp == c7
gone == c8

USE LaunchConstants DEF launchStep, own, daemon, bound, launchUi, conn, gaveUp, gone,
    Processes!LaunchAssumption, Processes!Someone

(* The daemon that listens is the one that drives; a launcher whose UI     *)
(* starts has seen one that still listens, has waited in vain or has had   *)
(* one end since; a client's daemon listens.                               *)
LaunchInv ==
  /\ Processes!TypeOK
  /\ \A d \in Daemons : Processes!Drives(d) <=> bound = d
  /\ \A l \in Launchers :
       /\ launchStep[l] = "kill" => own[l] \in Daemons
       /\ launchUi[l] # "none" => launchStep[l] = "ui"
       /\ launchStep[l] = "start" => bound # NoDaemon \/ l \in gaveUp \cup gone
       /\ launchUi[l] \in {"fake", "cut"} => l \in gaveUp \cup gone
       /\ launchUi[l] = "client" => conn[l] = bound /\ bound \in Daemons

LEMMA LaunchInit == Processes!Init => LaunchInv
BY DEF Processes!Init, LaunchInv, Processes!TypeOK, Processes!Drives

(* A daemon that is gone.                                                  *)
LEMMA GoneKeeps ==
  ASSUME LaunchInv, NEW d \in Daemons, Processes!Gone(d), launchUi' = Processes!Cut(d),
         UNCHANGED <<conn, gaveUp>>,
         NEW l \in Launchers,
         \/ UNCHANGED <<launchStep, own>>
         \/ Processes!Goto(l, "off") /\ launchStep[l] = "kill"
            /\ own' = [own EXCEPT ![l] = NoDaemon]
  PROVE  LaunchInv'
<1>1. Processes!TypeOK'
  BY DEF LaunchInv, Processes!TypeOK, Processes!Gone, Processes!Cut, Processes!Goto
<1>2. \A e \in Daemons : Processes!Drives(e)' <=> bound' = e
  BY DEF LaunchInv, Processes!TypeOK, Processes!Gone, Processes!Drives
<1>3. ASSUME NEW k \in Launchers
      PROVE  /\ launchStep'[k] = "kill" => own'[k] \in Daemons
             /\ launchUi'[k] # "none" => launchStep'[k] = "ui"
             /\ launchStep'[k] = "start" => bound' # NoDaemon \/ k \in gaveUp' \cup gone'
             /\ launchUi'[k] \in {"fake", "cut"} => k \in gaveUp' \cup gone'
             /\ launchUi'[k] = "client" => conn'[k] = bound' /\ bound' \in Daemons
  BY DEF LaunchInv, Processes!TypeOK, Processes!Gone, Processes!Cut, Processes!Goto
<1> QED
  BY <1>1, <1>2, <1>3 DEF LaunchInv

LEMMA LaunchStep == LaunchInv /\ [Processes!Next]_(Processes!vars) => LaunchInv'
<1> SUFFICES ASSUME LaunchInv, [Processes!Next]_(Processes!vars)
             PROVE  LaunchInv'
  OBVIOUS
<1> USE DEF LaunchInv, Processes!TypeOK, Processes!Drives, Processes!launcherVars,
            Processes!daemonVars, Processes!uiVars, Processes!historyVars
<1>1. CASE UNCHANGED Processes!vars
  BY <1>1 DEF Processes!vars
<1>2. ASSUME NEW l \in Launchers, Processes!Begin(l)
      PROVE  LaunchInv'
  BY <1>2 DEF Processes!Begin, Processes!Goto
<1>3. ASSUME NEW l \in Launchers, Processes!UseRunning(l)
      PROVE  LaunchInv'
  BY <1>3 DEF Processes!UseRunning, Processes!Goto
<1>4. ASSUME NEW l \in Launchers, NEW d \in Daemons, Processes!StartDaemon(l, d)
      PROVE  LaunchInv'
  BY <1>4 DEF Processes!StartDaemon, Processes!Goto
<1>5. ASSUME NEW l \in Launchers, Processes!DaemonAnswers(l)
      PROVE  LaunchInv'
  BY <1>5 DEF Processes!DaemonAnswers, Processes!Goto, Processes!Waited
<1>6. ASSUME NEW l \in Launchers, Processes!WaitEnds(l)
      PROVE  LaunchInv'
  BY <1>6 DEF Processes!WaitEnds, Processes!Goto
<1>7. ASSUME NEW l \in Launchers, Processes!StartUi(l)
      PROVE  LaunchInv'
  BY <1>7 DEF Processes!StartUi, Processes!Goto, Processes!Connected
<1>8. ASSUME NEW d \in Daemons, Processes!Listen(d)
      PROVE  LaunchInv'
  BY <1>8 DEF Processes!Listen, Processes!MayListen
<1>9. ASSUME NEW d \in Daemons, Processes!CannotListen(d)
      PROVE  LaunchInv'
  BY <1>9 DEF Processes!CannotListen
<1>10. ASSUME NEW d \in Daemons, Processes!InitHardware(d)
       PROVE  LaunchInv'
  BY <1>10 DEF Processes!InitHardware
<1>11. ASSUME NEW d \in Daemons, Processes!DaemonEnds(d)
       PROVE  LaunchInv'
  <2>1. CASE Launchers = {}
    BY <1>11, <2>1 DEF Processes!DaemonEnds, Processes!Gone, Processes!Cut
  <2>2. CASE \E l \in Launchers : TRUE
    BY <1>11, <2>2, GoneKeeps DEF Processes!DaemonEnds
  <2> QED
    BY <2>1, <2>2
<1>12. ASSUME NEW l \in Launchers, Processes!CloseUi(l)
       PROVE  LaunchInv'
  BY <1>12 DEF Processes!CloseUi, Processes!Goto
<1>13. ASSUME NEW l \in Launchers, Processes!Terminate(l)
       PROVE  LaunchInv'
  BY <1>13 DEF Processes!Terminate, Processes!Goto
<1>14. ASSUME NEW l \in Launchers, Processes!StopEnds(l)
       PROVE  LaunchInv'
  <2>1. CASE daemon[own[l]] = "none"
    BY <1>14, <2>1 DEF Processes!StopEnds, Processes!Goto
  <2>2. CASE daemon[own[l]] # "none"
    BY <1>14, <2>2, GoneKeeps DEF Processes!StopEnds
  <2> QED
    BY <2>1, <2>2
<1>15. ASSUME NEW l \in Launchers, Processes!LauncherDies(l)
       PROVE  LaunchInv'
  BY <1>15 DEF Processes!LauncherDies, Processes!Goto
<1> QED
  BY <1>1, <1>2, <1>3, <1>4, <1>5, <1>6, <1>7, <1>8, <1>9, <1>10, <1>11, <1>12, <1>13, <1>14,
     <1>15 DEF Processes!Next

LEMMA LaunchShows ==
  LaunchInv => Processes!OneDaemonDrives /\ Processes!UiHasHardware /\ Processes!ClientsAreServed
BY DEF LaunchInv, Processes!OneDaemonDrives, Processes!UiHasHardware, Processes!ClientsAreServed

HIDE LaunchConstants DEF launchStep, own, daemon, bound, launchUi, conn, gaveUp, gone,
    Processes!LaunchAssumption, Processes!Someone

LEMMA LaunchInvariant == CabinetSpec => [](focus = "launch" => LaunchInv)
<1>1. CabinetInit => (focus = "launch" => LaunchInv)
  BY LaunchInit DEF CabinetInit
<1>2. (focus = "launch" => LaunchInv) /\ [CabinetNext]_cells => (focus = "launch" => LaunchInv)'
  <2>1. [CabinetNext]_cells /\ focus = "launch" => [Processes!Next]_(Processes!vars)
    BY DEF CabinetNext, cells, Processes!vars, Processes!launcherVars, Processes!daemonVars,
           Processes!uiVars, Processes!historyVars
  <2> QED
    BY <2>1, LaunchStep, FocusStays
<1> QED
  BY <1>1, <1>2, PTL DEF CabinetSpec

-----------------------------------------------------------------------------
(* The serial ports.  The cells by the names that PortClaims gives them;   *)
(* one that was taken has the word claims before it.                       *)
claimsPlugged == c1
named == c2
listed == c3
client == c4
stage == c5
opened == c6
claimsPort == c7
claimsReady == c8
skip == c9
configs == c10
tries == c11
claimsReaders == c12
touched == c13
flash == c14
target == c15
held == c16

USE PortConstants DEF claimsPlugged, named, listed, client, stage, opened, claimsPort,
    claimsReady, skip, configs, tries, claimsReaders, touched, flash, target, held,
    Claims!PortAssumption, Claims!Names, Claims!PortOf

(* The port the weight driver has is the Arduino's, and once the readers'  *)
(* driver was told, it is the one that is skipped; only ports that are     *)
(* configured and not skipped were opened, and all of them when it is      *)
(* done; an update has closed the Arduino it was told of.                  *)
ArduinoKnown ==
  /\ claimsReady => claimsPort \in Claims!Names /\ claimsPlugged[claimsPort[2]] = "arduino"
  /\ claimsReady /\ stage \in {"find", "connect", "up"} => skip = {claimsPort}
  /\ \A p \in claimsReaders : claimsPlugged[p] = "reader"
Opening ==
  /\ stage \notin {"connect", "up"} => touched = {}
  /\ touched \subseteq {n[2] : n \in configs \ skip}
  /\ stage = "up" => \A n \in configs \ skip : tries[n] = Attempts
Flashing ==
  /\ stage = "off" => ~claimsReady
  /\ stage # "up" => flash = "idle" /\ ~held
  /\ flash = "detect" => ~held
  /\ stage \in {"off", "weight", "boot"} => claimsReaders = {} /\ ~claimsReady
  /\ held => /\ opened = {} /\ ~claimsReady
             /\ target \in Claims!Names /\ claimsPlugged[target[2]] = "arduino"
ClaimsInv == Claims!TypeOK /\ ArduinoKnown /\ Opening /\ Flashing

LEMMA ClaimsInit == Claims!Init => ClaimsInv
<1> SUFFICES ASSUME Claims!Init PROVE ClaimsInv
  OBVIOUS
<1>1. Claims!TypeOK
  <2>1. listed \subseteq Claims!Names
    BY DEF Claims!Init
  <2>2. tries \in [Claims!Names -> 0 .. Attempts]
    BY DEF Claims!Init, Claims!Untried
  <2> HIDE DEF Claims!Names
  <2> DEFINE T == tries \in [Claims!Names -> 0 .. Attempts]
  <2>3. T
    BY <2>2
  <2> HIDE DEF T
  <2>4. T => Claims!TypeOK
    <3> SUFFICES ASSUME T PROVE Claims!TypeOK
      OBVIOUS
    <3>1. /\ claimsPlugged \in Claims!Cablings /\ named \in Claims!Names \cup {NoPlace}
          /\ client \in BOOLEAN /\ stage = "off" /\ flash = "idle"
          /\ opened = {} /\ claimsPort = NoPlace /\ claimsReady = FALSE /\ skip = {}
          /\ configs = {} /\ claimsReaders = {} /\ touched = {}
          /\ target = NoPlace /\ held = FALSE
      BY DEF Claims!Init
    <3> QED
      BY <2>1, <3>1 DEF Claims!TypeOK, T
  <2> QED
    BY <2>3, <2>4
<1>2. ArduinoKnown /\ Opening /\ Flashing
  BY DEF Claims!Init, ArduinoKnown, Opening, Flashing
<1> QED
  BY <1>1, <1>2 DEF ClaimsInv

(* A reader's port is tried once more.                                     *)
LEMMA ClaimsConnectKeeps ==
  ASSUME NEW n \in Claims!Names
  PROVE  ClaimsInv /\ Claims!ConnectReader(n) => ClaimsInv'
<1> SUFFICES ASSUME ClaimsInv, Claims!ConnectReader(n)
             PROVE  ClaimsInv'
  OBVIOUS
<1>1. /\ n \in configs \ skip /\ n[2] \in SerialPorts
      /\ tries[n] \in 0 .. Attempts /\ tries[n] < Attempts
  BY DEF Claims!ConnectReader, Claims!ToTry, ClaimsInv, Claims!TypeOK
<1>2. tries[n] + 1 \in 0 .. Attempts /\ Attempts \in 0 .. Attempts
  BY <1>1
<1>3. tries' \in [Claims!Names -> 0 .. Attempts]
  <2>1. tries \in [Claims!Names -> 0 .. Attempts]
    BY DEF ClaimsInv, Claims!TypeOK
  <2>2. tries' = [tries EXCEPT ![n] = Attempts] \/ tries' = [tries EXCEPT ![n] = tries[n] + 1]
    BY DEF Claims!ConnectReader
  <2> QED
    BY <1>2, <2>1, <2>2
<1>4. Claims!TypeOK'
  BY <1>1, <1>3 DEF Claims!ConnectReader, ClaimsInv, Claims!TypeOK, Claims!cableVars,
     Claims!weightVars, Claims!flashVars
<1>5. ArduinoKnown' /\ Flashing'
  BY <1>1 DEF Claims!ConnectReader, ClaimsInv, ArduinoKnown, Flashing, Claims!cableVars,
     Claims!weightVars, Claims!flashVars
<1>6. Opening'
  BY <1>1 DEF Claims!ConnectReader, ClaimsInv, Opening, Claims!cableVars,
     Claims!weightVars, Claims!flashVars
<1> QED
  BY <1>4, <1>5, <1>6 DEF ClaimsInv

(* The drivers are made, and look for the Arduino and for the readers.     *)
LEMMA ClaimsStartKeeps ==
  /\ ClaimsInv
  /\ \/ Claims!MakeDrivers \/ Claims!OpenPorts \/ Claims!FindArduino
     \/ Claims!TellReaders \/ Claims!FindReaders \/ Claims!StartEnds
  => ClaimsInv'
<1> SUFFICES ASSUME ClaimsInv,
                    \/ Claims!MakeDrivers \/ Claims!OpenPorts \/ Claims!FindArduino
                    \/ Claims!TellReaders \/ Claims!FindReaders \/ Claims!StartEnds
             PROVE  ClaimsInv'
  OBVIOUS
<1> USE DEF ClaimsInv, Claims!cableVars, Claims!weightVars, Claims!readerVars,
            Claims!flashVars, Claims!Device, Claims!Exists
<1>1. CASE Claims!MakeDrivers
  BY <1>1 DEF Claims!MakeDrivers, Claims!TypeOK, ArduinoKnown, Opening, Flashing, Claims!Named
<1>2. CASE Claims!OpenPorts
  <2>1. Claims!Candidates \subseteq Claims!Names
    BY DEF Claims!Candidates, Claims!TypeOK
  <2> QED
    BY <1>2, <2>1 DEF Claims!OpenPorts, Claims!TypeOK, ArduinoKnown, Opening, Flashing
<1>3. CASE Claims!FindArduino
  <2> HIDE DEF Claims!Names
  <2>1. CASE opened' = {} /\ UNCHANGED <<claimsPort, claimsReady>>
    BY <1>3, <2>1 DEF Claims!FindArduino, Claims!TypeOK, ArduinoKnown, Opening, Flashing
  <2>2. ASSUME NEW n \in opened, claimsPlugged[n[2]] = "arduino", opened' = {n},
               claimsPort' = n, claimsReady' = TRUE
        PROVE  ClaimsInv'
    BY <1>3, <2>2 DEF Claims!FindArduino, Claims!TypeOK, ArduinoKnown, Opening, Flashing
  <2> QED
    BY <1>3, <2>1, <2>2 DEF Claims!FindArduino
<1>4. CASE Claims!TellReaders
  BY <1>4 DEF Claims!TellReaders, Claims!Skipped, Claims!TypeOK, ArduinoKnown, Opening, Flashing
<1>5. CASE Claims!FindReaders
  <2>1. Claims!Found \subseteq Claims!Names
    BY DEF Claims!Found
  <2> QED
    BY <1>5, <2>1 DEF Claims!FindReaders, Claims!TypeOK, ArduinoKnown, Opening, Flashing
<1>6. CASE Claims!StartEnds
  <2>1. ASSUME NEW n \in configs \ skip
        PROVE  tries[n] = Attempts
    BY <1>6 DEF Claims!StartEnds, Claims!ToTry, Claims!TypeOK
  <2> QED
    BY <1>6, <2>1 DEF Claims!StartEnds, Claims!TypeOK, ArduinoKnown, Opening, Flashing
<1> QED
  BY <1>1, <1>2, <1>3, <1>4, <1>5, <1>6

LEMMA ClaimsStep == ClaimsInv /\ [Claims!Next]_(Claims!vars) => ClaimsInv'
<1> SUFFICES ASSUME ClaimsInv, [Claims!Next]_(Claims!vars)
             PROVE  ClaimsInv'
  OBVIOUS
<1>2. CASE \/ Claims!MakeDrivers \/ Claims!OpenPorts \/ Claims!FindArduino
           \/ Claims!TellReaders \/ Claims!FindReaders \/ Claims!StartEnds
  BY <1>2, ClaimsStartKeeps
<1>7. ASSUME NEW n \in Claims!Names, Claims!ConnectReader(n)
      PROVE  ClaimsInv'
  BY <1>7, ClaimsConnectKeeps
<1> USE DEF ClaimsInv, Claims!cableVars, Claims!weightVars, Claims!readerVars,
            Claims!flashVars, Claims!TypeOK, ArduinoKnown, Opening, Flashing
<1>1. CASE UNCHANGED Claims!vars
  BY <1>1 DEF Claims!vars
<1>3. CASE Claims!ReleaseSerial
  BY <1>3 DEF Claims!ReleaseSerial, Claims!Released
<1>4. CASE Claims!DetectPort
  <2> HIDE DEF Claims!Names
  <2>1. target' \in Claims!Names \cup {NoPlace} /\ flash' \in {"compile", "idle"} /\ ~held
    BY <1>4 DEF Claims!DetectPort
  <2> QED
    BY <1>4, <2>1 DEF Claims!DetectPort
<1>5. CASE Claims!Compile \/ Claims!RunAvrdude \/ Claims!PingArduino
  BY <1>5 DEF Claims!Compile, Claims!RunAvrdude, Claims!PingArduino
<1>6. CASE Claims!Shutdown
  <2>1. tries' \in [Claims!Names -> 0 .. Attempts]
    BY <1>6 DEF Claims!Shutdown, Claims!Untried
  <2> HIDE DEF Claims!Names
  <2> QED
    BY <1>6, <2>1 DEF Claims!Shutdown
<1> QED
  BY <1>1, <1>2, <1>3, <1>4, <1>5, <1>6, <1>7 DEF Claims!Next

LEMMA ClaimsShow == ClaimsInv => Claims!ArduinoIsLeftAlone /\ Claims!FlashHitsArduino
<1> SUFFICES ASSUME ClaimsInv
             PROVE  Claims!ArduinoIsLeftAlone /\ Claims!FlashHitsArduino
  OBVIOUS
<1>1. ASSUME claimsReady, Claims!OneName
      PROVE  claimsPort[2] \notin touched
  BY <1>1 DEF ClaimsInv, ArduinoKnown, Opening, Claims!OneName, Claims!TypeOK
<1>2. ASSUME claimsReady, stage = "up", NEW n \in configs, claimsPlugged[n[2]] = "reader"
      PROVE  tries[n] = Attempts
  BY <1>2 DEF ClaimsInv, ArduinoKnown, Opening
<1>3. Claims!FlashHitsArduino
  BY DEF ClaimsInv, ArduinoKnown, Flashing, Claims!FlashHitsArduino
<1> QED
  BY <1>1, <1>2, <1>3 DEF Claims!ArduinoIsLeftAlone

HIDE PortConstants DEF claimsPlugged, named, listed, client, stage, opened, claimsPort,
    claimsReady, skip, configs, tries, claimsReaders, touched, flash, target, held,
    Claims!PortAssumption, Claims!Names, Claims!PortOf

LEMMA ClaimsInvariant == CabinetSpec => [](focus = "claims" => ClaimsInv)
<1>1. CabinetInit => (focus = "claims" => ClaimsInv)
  BY ClaimsInit DEF CabinetInit
<1>2. (focus = "claims" => ClaimsInv) /\ [CabinetNext]_cells => (focus = "claims" => ClaimsInv)'
  <2>1. [CabinetNext]_cells /\ focus = "claims" => [Claims!Next]_(Claims!vars)
    BY DEF CabinetNext, cells, Claims!vars, Claims!cableVars, Claims!weightVars,
           Claims!readerVars, Claims!flashVars
  <2> QED
    BY <2>1, ClaimsStep, FocusStays
<1> QED
  BY <1>1, <1>2, PTL DEF CabinetSpec

(* One daemon has the hardware, however launchers and daemons are started, *)
(* killed and started again; and the readers' driver leaves the port of    *)
(* the Arduino that was found alone, which an update flashes: for any      *)
(* launchers, daemons, ports, cabling and number of attempts.              *)
THEOREM CabinetSharesHardware == CabinetSpec => []HardwareIsShared
<1>1. (focus = "launch" => LaunchInv)
        => (focus = "launch" => /\ Processes!OneDaemonDrives /\ Processes!UiHasHardware
                                /\ Processes!ClientsAreServed)
  BY LaunchShows
<1>2. (focus = "claims" => ClaimsInv)
        => (focus = "claims" => Claims!ArduinoIsLeftAlone /\ Claims!FlashHitsArduino)
  BY ClaimsShow
<1> QED
  BY <1>1, <1>2, LaunchInvariant, ClaimsInvariant, PTL DEF HardwareIsShared

-----------------------------------------------------------------------------
(* The Arduino's program.  The cells by the names that Firmware gives      *)
(* them; one that was taken has the word board before it.                  *)
boardAt == c1
cmd == c2
started == c3
boardOffset == c4
eeprom == c5
magic == c6
boardHistory == c7
outputs == c8
zeros == c9
told == c10
torn == c11
unready == c12
fresh == c13

USE BoardConstants DEF boardAt, cmd, started, boardOffset, eeprom, magic, boardHistory, outputs,
    zeros, told, torn, unready, fresh, Board!FirmwareAssumption, Board!Zeros

(* A zero that may be used: told of or later, the first of a scale that    *)
(* gave none, or mixed by a reset.  Under the mark the EEPROM has no other *)
(* but in the cell that is being written, a save writes no other, and what *)
(* was begun with is 0 or one of them.                                     *)
Fit(v, s) ==
  \/ v \in Nat /\ v >= told[s]
  \/ v = 0 /\ s \in unready
  \/ v = Torn /\ s \in torn
ZerosCounted ==
  \A s \in Board!Scales :
    /\ told[s] <= zeros
    /\ boardOffset[s] \in Nat => boardOffset[s] <= zeros
    /\ eeprom[s] \in Nat => eeprom[s] <= zeros
Marked == magic => \A s \in Board!Scales : Board!Writing(s) \/ Fit(eeprom[s], s)
InUse == /\ started /\ boardAt \in {"idle", "run"} => magic /\ boardOffset = eeprom
         /\ started \/ boardAt \in Board!Saves => \A s \in Board!Scales : Fit(boardOffset[s], s)
         /\ \A s \in Board!Scales : boardOffset[s] = 0 \/ Fit(boardOffset[s], s)
Saving == /\ boardAt \in {"mix", "in mix", "magic"} => eeprom["shelf"] = boardOffset["shelf"]
          /\ boardAt = "magic" => eeprom["mix"] = boardOffset["mix"]
          /\ \A s \in Board!Scales : Board!Writing(s) => eeprom[s] = Torn
Earned == \A s \in Board!Scales : \A i \in 1 .. StableWindow :
            boardHistory[s][i] => i <= fresh[s]
BoardInv == Board!TypeOK /\ ZerosCounted /\ Marked /\ InUse /\ Saving /\ Earned

LEMMA BoardInit == Board!Init => BoardInv
<1> SUFFICES ASSUME Board!Init PROVE BoardInv
  OBVIOUS
<1>1. Board!TypeOK
  <2>1. Board!NoJob \in Board!Jobs
    BY DEF Board!NoJob, Board!Jobs
  <2>2. Board!Dark \in [on : SUBSET Lights, bar : 0 .. Segments, tone : BOOLEAN]
    BY DEF Board!Dark
  <2>3. 0 \in 0 .. StableWindow /\ 0 \in 0 .. MaxZeros /\ 0 \in Nat
    OBVIOUS
  <2> QED
    BY <2>1, <2>2, <2>3 DEF Board!Init, Board!TypeOK
<1>2. ZerosCounted /\ Marked /\ InUse /\ Saving /\ Earned
  BY DEF Board!Init, ZerosCounted, Marked, InUse, Saving, Earned, Board!Scales, Board!Saves,
     Board!Writing
<1> QED
  BY <1>1, <1>2 DEF BoardInv

(* The readings of some scales are forgotten.                              *)
LEMMA HistoryReset ==
  ASSUME BoardInv, NEW which, Board!ResetHistory(which)
  PROVE  /\ boardHistory' \in [Board!Scales -> [1 .. StableWindow -> BOOLEAN]]
         /\ fresh' \in [Board!Scales -> 0 .. StableWindow]
         /\ Earned'
<1>1. 0 \in 0 .. StableWindow
  OBVIOUS
<1> QED
  BY <1>1 DEF BoardInv, Board!TypeOK, Board!ResetHistory, Earned

(* A step that leaves the zeros, and the readings, alone.                  *)
LEMMA BoardIdles ==
  ASSUME BoardInv, boardAt' \in {"idle", "run"}, cmd' \in Board!Jobs,
         boardAt \in {"idle", "run"},
         UNCHANGED <<started, boardOffset, eeprom, magic, zeros, told, torn, unready,
                     boardHistory, outputs, fresh>>
  PROVE  BoardInv'
<1>1. Board!TypeOK'
  BY DEF BoardInv, Board!TypeOK
<1>2. ZerosCounted' /\ Earned'
  BY DEF BoardInv, ZerosCounted, Earned
<1>3. Marked' /\ InUse' /\ Saving'
  BY DEF BoardInv, Marked, InUse, Saving, Board!Writing, Fit, Board!Saves
<1> QED
  BY <1>1, <1>2, <1>3 DEF BoardInv

(* New zeros are measured and begin to be saved.                           *)
LEMMA BoardMeasures ==
  ASSUME BoardInv, NEW which \in SUBSET Board!Scales, boardAt = "run", boardAt' = "shelf",
         zeros < MaxZeros, zeros' = zeros + 1, boardOffset' = Board!Measured(which),
         UNCHANGED <<cmd, started, eeprom, magic, outputs, told, torn>>,
         \/ started /\ unready' = unready /\ Board!ResetHistory(which)
         \/ unready' = unready \cup (Board!Scales \ which) /\ UNCHANGED <<boardHistory, fresh>>
  PROVE  BoardInv'
<1>1. /\ boardHistory' \in [Board!Scales -> [1 .. StableWindow -> BOOLEAN]]
      /\ fresh' \in [Board!Scales -> 0 .. StableWindow] /\ Earned'
  BY HistoryReset DEF BoardInv, Board!TypeOK, Earned
<1>2. boardOffset' \in [Board!Scales -> Board!Zeros] /\ zeros' \in 0 .. MaxZeros /\ zeros \in Nat
  BY DEF BoardInv, Board!TypeOK, Board!Measured
<1>3. Board!TypeOK'
  BY <1>1, <1>2 DEF BoardInv, Board!TypeOK, Board!Saves
<1>4. ZerosCounted'
  BY <1>2 DEF BoardInv, ZerosCounted, Board!TypeOK, Board!Measured
<1>5. Marked' /\ Saving'
  BY DEF BoardInv, Marked, Saving, Board!Writing, Fit
<1>6. ASSUME NEW s \in Board!Scales
      PROVE  Fit(boardOffset[s], s)'
  <2>1. told[s] <= zeros /\ told[s] \in Nat /\ (boardOffset[s] = 0 \/ Fit(boardOffset[s], s))
        /\ (started => Fit(boardOffset[s], s))
    BY DEF BoardInv, ZerosCounted, InUse, Board!TypeOK
  <2>2. CASE s \in which
    BY <1>2, <2>1, <2>2 DEF Fit, Board!Measured
  <2>3. CASE s \notin which
    BY <2>1, <2>3 DEF Fit, Board!Measured
  <2> QED
    BY <2>2, <2>3
<1>7. InUse'
  BY <1>6 DEF InUse
<1> QED
  BY <1>1, <1>3, <1>4, <1>5, <1>7 DEF BoardInv

(* The zeros of the EEPROM, which may be used, are told of and used.       *)
LEMMA BoardTells ==
  ASSUME BoardInv, \A s \in Board!Scales : Fit(eeprom[s], s), Board!Tell(eeprom),
         started', magic', boardOffset' = eeprom, boardAt' \in {"idle", "run"},
         cmd' \in Board!Jobs, started' \in BOOLEAN, magic' \in BOOLEAN,
         \/ Board!ResetHistory(Board!Scales)
         \/ UNCHANGED <<boardHistory, fresh>>,
         UNCHANGED <<eeprom, zeros, torn, unready, outputs>>
  PROVE  BoardInv'
<1>1. /\ boardHistory' \in [Board!Scales -> [1 .. StableWindow -> BOOLEAN]]
      /\ fresh' \in [Board!Scales -> 0 .. StableWindow] /\ Earned'
  BY HistoryReset DEF BoardInv, Board!TypeOK, Earned
<1>2. told' \in [Board!Scales -> Nat]
  BY DEF BoardInv, Board!TypeOK, Board!Tell
<1>3. Board!TypeOK'
  BY <1>1, <1>2 DEF BoardInv, Board!TypeOK
<1>4. ZerosCounted'
  BY DEF BoardInv, ZerosCounted, Board!TypeOK, Board!Tell
<1>5. ASSUME NEW s \in Board!Scales
      PROVE  Fit(eeprom[s], s)'
  BY DEF BoardInv, Board!TypeOK, Board!Tell, Fit
<1>6. Marked' /\ InUse' /\ Saving'
  BY <1>5 DEF Marked, InUse, Saving, Board!Writing, Board!Saves
<1> QED
  BY <1>1, <1>3, <1>4, <1>6 DEF BoardInv

LEMMA BoardStep == BoardInv /\ [Board!Next]_(Board!vars) => BoardInv'
<1> SUFFICES ASSUME BoardInv, [Board!Next]_(Board!vars)
             PROVE  BoardInv'
  OBVIOUS
<1>j. Board!NoJob \in Board!Jobs /\ cmd \in Board!Jobs
  BY DEF Board!NoJob, Board!Jobs, BoardInv, Board!TypeOK
<1>1. CASE UNCHANGED Board!vars
  BY <1>1 DEF Board!vars, Board!zeroVars, BoardInv, Board!TypeOK, ZerosCounted, Marked, InUse,
     Saving, Earned,
     Fit, Board!Writing
<1>2. CASE Board!Reset
  <2>1. Board!TypeOK' /\ Earned'
    <3>1. Board!Dark \in [on : SUBSET Lights, bar : 0 .. Segments, tone : BOOLEAN]
      BY DEF Board!Dark
    <3>2. 0 \in 0 .. StableWindow /\ 0 \in Nat
      OBVIOUS
    <3>3. /\ boardHistory' \in [Board!Scales -> [1 .. StableWindow -> BOOLEAN]]
          /\ fresh' \in [Board!Scales -> 0 .. StableWindow]
          /\ boardOffset' \in [Board!Scales -> Board!Zeros]
      BY <1>2, <3>2 DEF Board!Reset
    <3>4. Earned'
      BY <1>2 DEF Board!Reset, Earned
    <3>5. torn' \subseteq Board!Scales
      BY <1>2 DEF Board!Reset, BoardInv, Board!TypeOK
    <3>6. Board!TypeOK'
      BY <1>2, <1>j, <3>1, <3>3, <3>5 DEF Board!Reset, BoardInv, Board!TypeOK
    <3> QED
      BY <3>4, <3>6
  <2>2. ZerosCounted' /\ Saving' /\ InUse'
    <3>1. zeros \in Nat /\ \A s \in Board!Scales : boardOffset'[s] = 0
      BY <1>2 DEF Board!Reset, BoardInv, Board!TypeOK
    <3>2. ZerosCounted'
      BY <1>2, <3>1 DEF Board!Reset, BoardInv, ZerosCounted
    <3>3. Saving' /\ InUse'
      BY <1>2, <3>1 DEF Board!Reset, Saving, InUse, Board!Saves, Board!Writing
    <3> QED
      BY <3>2, <3>3
  <2>3. ASSUME magic, NEW s \in Board!Scales
        PROVE  Fit(eeprom[s], s)'
    <3>1. Board!Writing(s) \/ Fit(eeprom[s], s)
      BY <2>3 DEF BoardInv, Marked
    <3>2. CASE Fit(eeprom[s], s)
      BY <1>2, <3>2 DEF Board!Reset, Fit
    <3>3. CASE Board!Writing(s)
      <4>1. eeprom[s] = Torn
        BY <3>3 DEF BoardInv, Saving, Board!Writing
      <4> QED
        BY <1>2, <2>3, <3>3, <4>1 DEF Board!Reset, Fit
    <3> QED
      BY <3>1, <3>2, <3>3
  <2>4. Marked'
    BY <1>2, <2>3 DEF Marked, Board!Reset
  <2> QED
    BY <2>1, <2>2, <2>4 DEF BoardInv
<1>3. ASSUME NEW do \in {"init", "read", "tare", "set_offset"}, NEW which \in SUBSET Board!Scales,
             Board!Command([do |-> do, on |-> which])
      PROVE  BoardInv'
  <2>1. [do |-> do, on |-> which] \in Board!Jobs
    BY DEF Board!Jobs
  <2> QED
    BY <1>3, <2>1, BoardIdles DEF Board!Command
<1>4. CASE Board!ResetTare
  <2>1. [do |-> "reset_tare", on |-> Board!Scales] \in Board!Jobs
    BY DEF Board!Jobs
  <2>2. Board!TypeOK' /\ Earned' /\ ZerosCounted'
    BY <1>4, <2>1 DEF Board!ResetTare, BoardInv, Board!TypeOK, ZerosCounted, Earned
  <2>3. Marked' /\ InUse' /\ Saving'
    BY <1>4 DEF Board!ResetTare, BoardInv, Marked, InUse, Saving, Fit, Board!Saves, Board!Writing
  <2> QED
    BY <2>2, <2>3 DEF BoardInv
<1>5. CASE Board!Load
  <2>1. \A s \in Board!Scales : Fit(eeprom[s], s)
    BY <1>5 DEF BoardInv, Marked, Board!Load, Board!Writing
  <2>2. boardAt' \in {"idle", "run"} /\ cmd' \in Board!Jobs
    BY <1>5, <1>j DEF Board!Load, Board!AfterInit
  <2> QED
    BY <1>5, <2>1, <2>2, BoardTells DEF Board!Load
<1>6. ASSUME NEW which \in SUBSET Board!Scales, Board!AutoTare(which)
      PROVE  BoardInv'
  BY <1>6, BoardMeasures DEF Board!AutoTare
<1>7. CASE Board!SaveStep
  <2>1. Board!TypeOK'
    BY <1>7 DEF Board!SaveStep, Board!Save, BoardInv, Board!TypeOK, Board!Saves,
       Board!Scales
  <2>2. ZerosCounted' /\ Earned'
    BY <1>7 DEF Board!SaveStep, Board!Save, BoardInv, Board!TypeOK, ZerosCounted, Earned,
       Board!Scales
  <2>3. InUse'
    BY <1>7 DEF Board!SaveStep, Board!Save, BoardInv, InUse, Fit, Board!Saves
  <2>4. Saving'
    BY <1>7 DEF Board!SaveStep, Board!Save, BoardInv, Board!TypeOK, Saving, Board!Scales,
       Board!Writing
  <2>5. magic' = magic /\ UNCHANGED <<told, torn, unready, boardOffset>>
    BY <1>7 DEF Board!SaveStep, Board!Save
  <2>6. \A s \in Board!Scales : Fit(boardOffset[s], s)
    BY <1>7 DEF Board!SaveStep, Board!Save, BoardInv, InUse, Board!Saves
  <2>7. \A s \in Board!Scales : Board!Writing(s)' \/ eeprom'[s] = boardOffset[s]
                               \/ (~Board!Writing(s) /\ eeprom'[s] = eeprom[s])
    BY <1>7 DEF Board!SaveStep, Board!Save, BoardInv, Board!TypeOK, Board!Scales, Board!Writing
  <2>8. Marked'
    BY <2>5, <2>6, <2>7 DEF BoardInv, Marked, Fit
  <2> QED
    BY <2>1, <2>2, <2>3, <2>4, <2>8 DEF BoardInv
<1>8. CASE Board!Saved
  <2>1. boardAt = "magic" /\ eeprom = boardOffset
    BY <1>8 DEF Board!Saved, BoardInv, Saving, Board!TypeOK, Board!Scales
  <2>2. \A s \in Board!Scales : Fit(eeprom[s], s)
    BY <2>1 DEF BoardInv, InUse, Board!Saves
  <2>3. boardAt' \in {"idle", "run"} /\ cmd' \in Board!Jobs /\ started' /\ started' \in BOOLEAN
    BY <1>8, <1>j DEF Board!Saved, Board!AfterInit, BoardInv, Board!TypeOK
  <2>4. /\ magic' /\ magic' \in BOOLEAN /\ boardOffset' = eeprom /\ Board!Tell(eeprom)
        /\ UNCHANGED <<eeprom, zeros, torn, unready, outputs>>
        /\ Board!ResetHistory(Board!Scales) \/ UNCHANGED <<boardHistory, fresh>>
    BY <1>8, <2>1 DEF Board!Saved
  <2> QED
    BY <2>2, <2>3, <2>4, BoardTells
<1>9. CASE boardAt = "run" /\ Board!Refuse
  BY <1>9, <1>j, BoardIdles DEF Board!Refuse, Board!Ends
<1>10. ASSUME NEW which \in SUBSET Board!Scales, boardAt = "run", started, Board!Replace(which)
       PROVE  BoardInv'
  BY <1>10, BoardMeasures DEF Board!Replace
<1>11. ASSUME NEW which \in SUBSET Board!Scales, Board!Tare(which)
       PROVE  BoardInv'
  BY <1>9, <1>10, <1>11 DEF Board!Tare
<1>12. CASE Board!SetOffset
  <2>1. cmd.on \in SUBSET Board!Scales
    BY <1>j DEF Board!Jobs
  <2> QED
    BY <1>9, <1>10, <1>12, <2>1 DEF Board!SetOffset
<1>13. CASE Board!Read
  <2>1. PICK s \in Board!Scales, away \in BOOLEAN :
          /\ boardHistory' = [boardHistory EXCEPT ![s] =
               [i \in 1 .. StableWindow |-> IF i = 1 THEN away ELSE boardHistory[s][i - 1]]]
          /\ fresh' = [fresh EXCEPT ![s] = IF @ < StableWindow THEN @ + 1 ELSE @]
    BY <1>13 DEF Board!Read
  <2>2. /\ boardHistory \in [Board!Scales -> [1 .. StableWindow -> BOOLEAN]]
        /\ fresh \in [Board!Scales -> 0 .. StableWindow] /\ StableWindow \in Nat
    BY DEF BoardInv, Board!TypeOK
  <2>3. [i \in 1 .. StableWindow |-> IF i = 1 THEN away ELSE boardHistory[s][i - 1]]
          \in [1 .. StableWindow -> BOOLEAN]
    <3>1. ASSUME NEW i \in 1 .. StableWindow, i # 1 PROVE boardHistory[s][i - 1] \in BOOLEAN
      BY <2>2, <3>1
    <3> QED
      BY <3>1
  <2>4. /\ boardHistory' \in [Board!Scales -> [1 .. StableWindow -> BOOLEAN]]
        /\ fresh' \in [Board!Scales -> 0 .. StableWindow]
    BY <2>1, <2>2, <2>3
  <2>5. ASSUME NEW r \in Board!Scales, NEW i \in 1 .. StableWindow, boardHistory'[r][i]
        PROVE  i <= fresh'[r]
    <3>1. CASE r # s
      BY <2>1, <2>2, <2>5, <3>1 DEF BoardInv, Earned
    <3>2. CASE r = s
      <4>1. fresh'[s] = IF fresh[s] < StableWindow THEN fresh[s] + 1 ELSE fresh[s]
        BY <2>1, <2>2
      <4>2. CASE i = 1
        BY <2>2, <3>2, <4>1, <4>2
      <4>3. CASE i # 1
        <5>1. i - 1 \in 1 .. StableWindow /\ boardHistory[s][i - 1]
          BY <2>1, <2>2, <2>5, <3>2, <4>3
        <5>2. i - 1 <= fresh[s]
          BY <5>1 DEF BoardInv, Earned
        <5> QED
          BY <2>2, <3>2, <4>1, <5>2
      <4> QED
        BY <4>2, <4>3
    <3> QED
      BY <3>1, <3>2
  <2>6. Board!TypeOK' /\ ZerosCounted' /\ Marked' /\ InUse' /\ Saving'
    BY <1>13, <1>j, <2>4 DEF Board!Read, Board!Ends, BoardInv, Board!TypeOK, ZerosCounted,
       Marked, InUse,
       Saving, Fit, Board!Writing, Board!Saves
  <2> QED
    BY <2>5, <2>6 DEF BoardInv, Earned
<1>14. CASE Board!Nothing
  BY <1>9, <1>14 DEF Board!Nothing
<1>15. CASE Board!Output
  <2>1. outputs' \in [on : SUBSET Lights, bar : 0 .. Segments, tone : BOOLEAN]
    <3>1. outputs \in [on : SUBSET Lights, bar : 0 .. Segments, tone : BOOLEAN]
      BY DEF BoardInv, Board!TypeOK
    <3>2. ASSUME NEW pct \in Percents
          PROVE  Board!SegmentsOf(pct) \in 0 .. Segments
      <4> DEFINE p == IF pct > 100 THEN 100 ELSE pct
      <4>1. p \in 0 .. 100 /\ Board!SegmentsOf(pct) = (p * Segments + 50) \div 100
        BY DEF Board!SegmentsOf
      <4> HIDE DEF p
      <4>2. p * Segments \in Nat /\ p * Segments <= 100 * Segments
        BY <4>1
      <4>3. (p * Segments + 50) \div 100 \in 0 .. Segments
        BY <4>2
      <4> QED
        BY <4>1, <4>3
    <3>3. ASSUME NEW seg \in 0 .. Segments \cup {Board!SegmentsOf(pct) : pct \in Percents},
                 Board!Bar(seg)
          PROVE  outputs' \in [on : SUBSET Lights, bar : 0 .. Segments, tone : BOOLEAN]
      <4>1. seg \in 0 .. Segments
        BY <3>2
      <4> QED
        BY <3>1, <3>3, <4>1 DEF Board!Bar
    <3>4. ASSUME NEW i \in Lights, Board!Slot(i)
          PROVE  outputs' \in [on : SUBSET Lights, bar : 0 .. Segments, tone : BOOLEAN]
      BY <3>1, <3>4 DEF Board!Slot
    <3>5. CASE Board!LedOff
      BY <3>5 DEF Board!LedOff, Board!Dark
    <3>6. CASE Board!EverySlot \/ Board!Buzz \/ Board!BuzzOff \/ Board!BuzzEnds
      BY <3>1, <3>6 DEF Board!EverySlot, Board!Buzz, Board!BuzzOff, Board!BuzzEnds
    <3> QED
      BY <1>15, <3>3, <3>4, <3>5, <3>6 DEF Board!Output
  <2> QED
    BY <1>15, <2>1 DEF Board!Output, Board!zeroVars, BoardInv, Board!TypeOK, ZerosCounted,
       Marked, InUse, Saving,
       Earned, Fit, Board!Writing
<1> QED
  BY <1>1, <1>2, <1>3, <1>4, <1>5, <1>6, <1>7, <1>8, <1>11, <1>12, <1>13, <1>14, <1>15
  DEF Board!Next

LEMMA BoardShows == BoardInv => Board!ZerosAreKept /\ Board!StableIsEarned
<1> SUFFICES ASSUME BoardInv PROVE Board!ZerosAreKept /\ Board!StableIsEarned
  OBVIOUS
<1>1. Board!ZerosAreKept
  BY DEF BoardInv, InUse, Fit, Board!ZerosAreKept, Board!ZeroIsKept
<1>2. Board!StableIsEarned
  <2> SUFFICES ASSUME NEW s \in Board!Scales, \A i \in 1 .. StableWindow : boardHistory[s][i]
               PROVE  fresh[s] = StableWindow
    BY DEF Board!StableIsEarned
  <2>1. StableWindow \in 1 .. StableWindow /\ fresh[s] \in 0 .. StableWindow
    BY DEF BoardInv, Board!TypeOK
  <2>2. StableWindow <= fresh[s]
    BY <2>1 DEF BoardInv, Earned
  <2> QED
    BY <2>1, <2>2
<1> QED
  BY <1>1, <1>2

HIDE BoardConstants DEF boardAt, cmd, started, boardOffset, eeprom, magic, boardHistory, outputs,
    zeros, told, torn, unready, fresh, Board!FirmwareAssumption, Board!Zeros

LEMMA BoardInvariant == CabinetSpec => [](focus = "board" => BoardInv)
<1>1. CabinetInit => (focus = "board" => BoardInv)
  BY BoardInit DEF CabinetInit
<1>2. (focus = "board" => BoardInv) /\ [CabinetNext]_cells => (focus = "board" => BoardInv)'
  <2>1. [CabinetNext]_cells /\ focus = "board" => [Board!Next]_(Board!vars)
    BY DEF CabinetNext, cells, Board!vars, Board!zeroVars
  <2> QED
    BY <2>1, BoardStep, FocusStays
<1> QED
  BY <1>1, <1>2, PTL DEF CabinetSpec

-----------------------------------------------------------------------------
(* The fan.  The cells by the names that FanControl gives them; one that   *)
(* was taken has the word fan before it.                                   *)
fanThread == c1
cpu == c2
temp == c3
speed == c4
pwm == c5
manual == c6
refused == c7
looked == c8

USE FanConstants DEF fanThread, cpu, temp, speed, pwm, manual, refused, looked,
    Fan!FanAssumption

(* A speed that was set and not refused is the fan's, and what was read    *)
(* last, if it still holds, asks for no other.                             *)
FanInv ==
  /\ Fan!TypeOK
  /\ speed # 0 /\ ~refused => pwm = Fan!PwmOf(speed)
  /\ fanThread = "poll" /\ looked => \A u \in FanThresholds : u <= cpu => FanSpeedAt[u] <= speed
  /\ fanThread = "new" => ~looked

LEMMA FanInit == Fan!Init => FanInv
<1>1. 0 \in Fan!Speeds /\ 100 \in Fan!Speeds
  BY DEF Fan!Speeds
<1> QED
  BY <1>1 DEF Fan!Init, FanInv, Fan!TypeOK

LEMMA FanStep == FanInv /\ [Fan!Next]_(Fan!vars) => FanInv'
<1> SUFFICES ASSUME FanInv, [Fan!Next]_(Fan!vars)
             PROVE  FanInv'
  OBVIOUS
<1>1. CASE UNCHANGED Fan!vars
  BY <1>1 DEF Fan!vars, FanInv, Fan!TypeOK
<1>2. ASSUME NEW t \in FanTemps, Fan!Heat(t)
      PROVE  FanInv'
  BY <1>2 DEF Fan!Heat, FanInv, Fan!TypeOK
<1>3. CASE Fan!FindFan
  BY <1>3 DEF Fan!FindFan, Fan!NoFan, Fan!TakeOver, FanInv, Fan!TypeOK
<1>4. CASE Fan!Stop
  BY <1>4 DEF Fan!Stop, FanInv, Fan!TypeOK
<1>5. CASE Fan!Start
  <2>1. 0 \in Fan!Speeds
    BY DEF Fan!Speeds
  <2> QED
    BY <1>5, <2>1 DEF Fan!Start, FanInv, Fan!TypeOK
<1>6. ASSUME NEW readable \in BOOLEAN, NEW writable \in BOOLEAN, Fan!Poll(readable, writable)
      PROVE  FanInv'
  <2> HIDE DEF Fan!PwmOf
  <2>1. /\ speed' \in Fan!Speeds /\ temp' \in FanTemps \cup {0} /\ fanThread = "poll"
        /\ UNCHANGED <<fanThread, cpu, manual>>
    BY <1>6 DEF Fan!Poll, Fan!Sensed, Fan!Write, FanInv, Fan!TypeOK
  <2>2. Fan!TypeOK'
    BY <1>6, <2>1 DEF Fan!Poll, Fan!Sensed, Fan!Write, FanInv, Fan!TypeOK
  <2>3. speed' # 0 /\ ~refused' => pwm' = Fan!PwmOf(speed')
    BY <1>6 DEF Fan!Poll, Fan!Sensed, Fan!Write, FanInv, Fan!TypeOK
  <2>4. ASSUME looked', NEW u \in FanThresholds, u <= cpu
        PROVE  FanSpeedAt[u] <= speed'
    <3>1. temp' = cpu /\ Fan!Calculated(cpu, speed')
      BY <1>6, <2>4 DEF Fan!Poll, Fan!Sensed, Fan!Write
    <3>2. PICK v \in FanThresholds : Fan!Hottest(cpu, v) /\ speed' = FanSpeedAt[v]
      BY <2>4, <3>1 DEF Fan!Calculated, FanInv, Fan!TypeOK
    <3>3. u <= v
      BY <2>4, <3>2 DEF Fan!Hottest
    <3> QED
      BY <3>2, <3>3
  <2> QED
    BY <2>1, <2>2, <2>3, <2>4 DEF FanInv
<1> QED
  BY <1>1, <1>2, <1>3, <1>4, <1>5, <1>6 DEF Fan!Next

LEMMA FanShows == FanInv => Fan!FanFollowsCurve
<1> SUFFICES ASSUME FanInv, fanThread = "poll", looked, ~refused
             PROVE  \E pct \in Fan!Speeds : /\ pwm = Fan!PwmOf(pct)
                      /\ \A u \in FanThresholds : u <= cpu => FanSpeedAt[u] <= pct
  BY DEF Fan!FanFollowsCurve
<1> HIDE DEF Fan!PwmOf
<1>1. CASE speed # 0
  BY <1>1 DEF FanInv, Fan!TypeOK
<1>2. CASE speed = 0
  <2>1. PICK pct \in Fan!Speeds : pwm = Fan!PwmOf(pct)
    BY DEF FanInv, Fan!TypeOK
  <2>2. ASSUME NEW u \in FanThresholds, u <= cpu
        PROVE  FALSE
    BY <1>2, <2>2 DEF FanInv
  <2> QED
    BY <2>1, <2>2
<1> QED
  BY <1>1, <1>2

HIDE FanConstants DEF fanThread, cpu, temp, speed, pwm, manual, refused, looked,
    Fan!FanAssumption

LEMMA FanInvariant == CabinetSpec => [](focus = "fan" => FanInv)
<1>1. CabinetInit => (focus = "fan" => FanInv)
  BY FanInit DEF CabinetInit
<1>2. (focus = "fan" => FanInv) /\ [CabinetNext]_cells => (focus = "fan" => FanInv)'
  <2>1. [CabinetNext]_cells /\ focus = "fan" => [Fan!Next]_(Fan!vars)
    BY DEF CabinetNext, cells, Fan!vars
  <2> QED
    BY <2>1, FanStep, FocusStays
<1> QED
  BY <1>1, <1>2, PTL DEF CabinetSpec

(* Sync runs under the pairing that holds, a backup that was made is kept  *)
(* until the next, each line of the log goes one way once, the Arduino     *)
(* uses the zeros that its EEPROM has, none of them older than one it told *)
(* of, and the fan follows its curve: for any keys, numbers of copies and  *)
(* lines, lengths of the window and curves.                                *)
THEOREM CabinetKeepsUp == CabinetSpec => []UpkeepHolds
<1>1. (focus = "pairing" => PairInv) => (focus = "pairing" => Cloud!PairingHolds)
  BY PairShows
<1>2. (focus = "backups" => BackupInv) => (focus = "backups" => Copies!BackupIsKept)
  BY BackupShows
<1>3. (focus = "logs" => LogInv) => (focus = "logs" => Log!EachLineOnce)
  BY LogShows
<1>4. (focus = "board" => BoardInv)
        => (focus = "board" => Board!ZerosAreKept /\ Board!StableIsEarned)
  BY BoardShows
<1>5. (focus = "fan" => FanInv) => (focus = "fan" => Fan!FanFollowsCurve)
  BY FanShows
<1> QED
  BY <1>1, <1>2, <1>3, <1>4, <1>5, PairInvariant, BackupInvariant, LogInvariant, BoardInvariant,
     FanInvariant, PTL DEF UpkeepHolds

-----------------------------------------------------------------------------
Parts == {"lamps", "writer", "loading", "filter", "scans", "readers", "cells", "wizard", "paint",
          "kivy", "lights", "sounds", "single", "pairing", "backups", "logs", "claims", "launch",
          "board", "fan", "mixing", "custody"}

(* A behaviour is about one part.                                          *)
LEMMA OnePart == CabinetSpec => [](focus \in Parts)
<1>1. CabinetInit => focus \in Parts
  BY DEF CabinetInit, Parts
<1>2. focus \in Parts /\ [CabinetNext]_cells => (focus \in Parts)'
  BY FocusStays
<1> QED
  BY <1>1, <1>2, PTL DEF CabinetSpec

(* The types of each part: of those of the crew, of the devices, of the    *)
(* rest.                                                                   *)
CrewTyped ==
  /\ focus = "writer" => Writer!TypeOK
  /\ focus = "loading" => Loading!TypeOK
  /\ focus = "filter" => Filter!TypeOK
  /\ focus = "scans" => Scans!TypeOK
  /\ focus = "paint" => Paint!TypeOK
  /\ focus = "kivy" => Kivy!TypeOK
DevicesTyped ==
  /\ focus = "lamps" => Leds!TypeOK
  /\ focus = "lights" => Pins!TypeOK
  /\ focus = "sounds" => Buzzer!TypeOK
  /\ focus = "readers" => Ports!TypeOK
  /\ focus = "single" => Reader!TypeOK
  /\ focus = "cells" => Cells!TypeOK
RestTyped ==
  /\ focus = "wizard" => Wizard!TypeOK
  /\ focus = "pairing" => Cloud!TypeOK
  /\ focus = "backups" => Copies!TypeOK
  /\ focus = "logs" => Log!TypeOK
  /\ focus = "claims" => Claims!TypeOK
  /\ focus = "launch" => Processes!TypeOK
  /\ focus = "board" => Board!TypeOK
  /\ focus = "fan" => Fan!TypeOK
  /\ focus = "mixing" => Session!TypeOK
  /\ focus = "custody" => Tracker!TypeOK
PartsTyped == CrewTyped /\ DevicesTyped /\ RestTyped

(* Every part keeps its types.                                             *)
THEOREM CabinetTypeCorrect == CabinetSpec => []CabinetTypeOK
<1>1. CabinetSpec => [](focus = "lamps" => Leds!TypeOK)
  BY LampInvariant, PTL DEF LampInv
<1>2. CabinetSpec => [](focus = "writer" => Writer!TypeOK)
  BY WriterInvariant, PTL DEF TagInv
<1>3. CabinetSpec => [](focus = "loading" => Loading!TypeOK)
  BY LoadingInvariant, PTL DEF LoadInv
<1>4. CabinetSpec => [](focus = "filter" => Filter!TypeOK)
  BY FilterInvariant, PTL DEF FilterInv
<1>5. CabinetSpec => [](focus = "scans" => Scans!TypeOK)
  BY ScansInvariant, PTL DEF ScanInv
<1>6. CabinetSpec => [](focus = "readers" => Ports!TypeOK)
  BY ReaderInvariant, PTL DEF ReaderInv
<1>7. CabinetSpec => [](focus = "cells" => Cells!TypeOK)
  BY CellInvariant, PTL DEF CellInv
<1>8. CabinetSpec => [](focus = "wizard" => Wizard!TypeOK)
  BY WizardInvariant, PTL DEF WizardInv
<1>9. CabinetSpec => [](focus = "paint" => Paint!TypeOK)
  BY PaintInvariant, PTL DEF PaintInv
<1>10. CabinetSpec => [](focus = "kivy" => Kivy!TypeOK)
  BY KivyInvariant, PTL DEF KivyInv
<1>11. CabinetSpec => [](focus = "lights" => Pins!TypeOK)
  BY LightInvariant, PTL DEF LightInv
<1>12. CabinetSpec => [](focus = "sounds" => Buzzer!TypeOK)
  BY SoundInvariant, PTL DEF SoundInv
<1>13. CabinetSpec => [](focus = "single" => Reader!TypeOK)
  BY SingleInvariant, PTL DEF SingleInv
<1>14. CabinetSpec => [](focus = "pairing" => Cloud!TypeOK)
  BY PairInvariant, PTL DEF PairInv
<1>15. CabinetSpec => [](focus = "backups" => Copies!TypeOK)
  BY BackupInvariant, PTL DEF BackupInv
<1>16. CabinetSpec => [](focus = "logs" => Log!TypeOK)
  BY LogInvariant, PTL DEF LogInv
<1>17. CabinetSpec => [](focus = "mixing" => Session!TypeOK)
  BY MixingConstants, Session!MixingTypeCorrect, MixingOrNot, CabinetMixes, PTL
<1>18. CabinetSpec => [](focus = "custody" => Tracker!TypeOK)
  BY TrackerConstants, Tracker!TypeCorrect, CustodyOrNot, CabinetTracks, PTL
<1>19. CabinetSpec => [](focus = "claims" => Claims!TypeOK)
  BY ClaimsInvariant, PTL DEF ClaimsInv
<1>20. CabinetSpec => [](focus = "launch" => Processes!TypeOK)
  BY LaunchInvariant, PTL DEF LaunchInv
<1>21. CabinetSpec => [](focus = "board" => Board!TypeOK)
  BY BoardInvariant, PTL DEF BoardInv
<1>22. CabinetSpec => [](focus = "fan" => Fan!TypeOK)
  BY FanInvariant, PTL DEF FanInv
<1>23. focus \in Parts /\ PartsTyped => CabinetTypeOK
  <2>1. CASE focus = "lamps"
    BY <2>1 DEF PartsTyped, DevicesTyped, CabinetTypeOK
  <2>2. CASE focus = "writer"
    BY <2>2 DEF PartsTyped, CrewTyped, CabinetTypeOK
  <2>3. CASE focus = "loading"
    BY <2>3 DEF PartsTyped, CrewTyped, CabinetTypeOK
  <2>4. CASE focus = "filter"
    BY <2>4 DEF PartsTyped, CrewTyped, CabinetTypeOK
  <2>5. CASE focus = "scans"
    BY <2>5 DEF PartsTyped, CrewTyped, CabinetTypeOK
  <2>6. CASE focus = "readers"
    BY <2>6 DEF PartsTyped, DevicesTyped, CabinetTypeOK
  <2>7. CASE focus = "cells"
    BY <2>7 DEF PartsTyped, DevicesTyped, CabinetTypeOK
  <2>8. CASE focus = "wizard"
    BY <2>8 DEF PartsTyped, RestTyped, CabinetTypeOK
  <2>9. CASE focus = "paint"
    BY <2>9 DEF PartsTyped, CrewTyped, CabinetTypeOK
  <2>10. CASE focus = "kivy"
    BY <2>10 DEF PartsTyped, CrewTyped, CabinetTypeOK
  <2>11. CASE focus = "lights"
    BY <2>11 DEF PartsTyped, DevicesTyped, CabinetTypeOK
  <2>12. CASE focus = "sounds"
    BY <2>12 DEF PartsTyped, DevicesTyped, CabinetTypeOK
  <2>13. CASE focus = "single"
    BY <2>13 DEF PartsTyped, DevicesTyped, CabinetTypeOK
  <2>14. CASE focus = "pairing"
    BY <2>14 DEF PartsTyped, RestTyped, CabinetTypeOK
  <2>15. CASE focus = "backups"
    BY <2>15 DEF PartsTyped, RestTyped, CabinetTypeOK
  <2>16. CASE focus = "logs"
    BY <2>16 DEF PartsTyped, RestTyped, CabinetTypeOK
  <2>17. CASE focus = "mixing"
    BY <2>17 DEF PartsTyped, RestTyped, CabinetTypeOK
  <2>18. CASE focus = "custody"
    BY <2>18 DEF PartsTyped, RestTyped, CabinetTypeOK
  <2>19. CASE focus = "claims"
    BY <2>19 DEF PartsTyped, RestTyped, CabinetTypeOK
  <2>20. CASE focus = "launch"
    BY <2>20 DEF PartsTyped, RestTyped, CabinetTypeOK
  <2>21. CASE focus = "board"
    BY <2>21 DEF PartsTyped, RestTyped, CabinetTypeOK
  <2>22. CASE focus = "fan"
    BY <2>22 DEF PartsTyped, RestTyped, CabinetTypeOK
  <2> QED
    BY <2>1, <2>2, <2>3, <2>4, <2>5, <2>6, <2>7, <2>8, <2>9, <2>10, <2>11, <2>12, <2>13,
       <2>14, <2>15, <2>16, <2>17, <2>18, <2>19, <2>20, <2>21, <2>22 DEF Parts
<1>24. CabinetSpec => []CrewTyped
  BY <1>2, <1>3, <1>4, <1>5, <1>9, <1>10, PTL DEF CrewTyped
<1>25. CabinetSpec => []DevicesTyped
  BY <1>1, <1>11, <1>12, <1>6, <1>13, <1>7, PTL DEF DevicesTyped
<1>26. CabinetSpec => []RestTyped
  BY <1>8, <1>14, <1>15, <1>16, <1>17, <1>18, <1>19, <1>20, <1>21, <1>22, PTL
  DEF RestTyped
<1> QED
  BY <1>23, <1>24, <1>25, <1>26, OnePart, PTL DEF PartsTyped
=============================================================================
