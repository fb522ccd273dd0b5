--------------------------- MODULE MCCabinet_proofs ---------------------------
(***************************************************************************)
(* Proofs about the parts of MCCabinet.  The focus of a behaviour never    *)
(* changes, so a behaviour about one part is a behaviour of that part.     *)
(***************************************************************************)
EXTENDS MCCabinet, SequenceTheorems, TLAPS

LEMMA FocusStays == [CabinetNext]_cells => UNCHANGED focus
BY DEF CabinetNext, cells, Kept8, Kept9, Kept10, Kept11, Kept13, Kept14, Kept16, Kept17, Kept18,
    Kept19, Kept21, Kept25

LEMMA MixingOrNot == CabinetSpec => [](focus = "mixing") \/ []~(focus = "mixing")
<1>1. focus = "mixing" /\ [CabinetNext]_cells => (focus = "mixing")'
  BY FocusStays
<1>2. ~(focus = "mixing") /\ [CabinetNext]_cells => (~(focus = "mixing"))'
  BY FocusStays
<1>3. QED
  BY <1>1, <1>2, PTL DEF CabinetSpec

LEMMA CustodyOrNot == CabinetSpec => [](focus = "custody") \/ []~(focus = "custody")
<1>1. focus = "custody" /\ [CabinetNext]_cells => (focus = "custody")'
  BY FocusStays
<1>2. ~(focus = "custody") /\ [CabinetNext]_cells => (~(focus = "custody"))'
  BY FocusStays
<1>3. QED
  BY <1>1, <1>2, PTL DEF CabinetSpec

-----------------------------------------------------------------------------
(* Mixing with Qt: a behaviour about it is one of Mixing, so what is       *)
(* proved of Mixing holds of it.                                           *)
LEMMA CabinetMixes == CabinetSpec /\ focus = "mixing" => Session!Spec
<1>1. CabinetInit /\ focus = "mixing" => Session!Init
  BY DEF CabinetInit
<1>2. [CabinetNext]_cells /\ focus = "mixing" => [Session!Next]_(Session!vars)
  BY DEF CabinetNext, cells, Session!vars, Session!engineVars, Session!startVars,
     Session!screenVars, Session!guideVars, Session!shelfVars, Session!scaleVars
<1>3. focus = "mixing" /\ [CabinetNext]_cells => (focus = "mixing")'
  BY FocusStays
<1>4. QED
  BY <1>1, <1>2, <1>3, PTL DEF CabinetSpec, Session!Spec

(* The base the engine remembers is what was weighed: BaseIsWeighed.       *)
THEOREM CabinetWeighsBase == CabinetSpec => []BaseWeightIsTrue
<1>1. Session!Spec => []Session!BaseWeightIsTrue
  BY MixingConstants, Session!BaseIsWeighed
<1>2. QED
  BY <1>1, MixingOrNot, CabinetMixes, PTL DEF BaseWeightIsTrue

(* The screen shows the state the engine is in: ScreenInStep.              *)
THEOREM CabinetShowsState == CabinetSpec => []ScreenFollowsEngine
<1>1. Session!Spec => []Session!ScreenFollowsEngine
  BY MixingConstants, Session!ScreenInStep
<1>2. QED
  BY <1>1, MixingOrNot, CabinetMixes, PTL DEF ScreenFollowsEngine

(* A pour is guided to the can it asks for: PouringGuided. No light stays  *)
(* on for a can that is on the shelf: NoLightForNothing. With RFID no can  *)
(* is picked by hand: PickedByReader.                                      *)
THEOREM CabinetGuidesPour == CabinetSpec => PourIsGuided
<1>1. Session!Spec => []Session!PourIsGuided
  BY MixingConstants, Session!PouringGuided
<1>2. Session!Spec => []Session!LightsAreTrue
  BY MixingConstants, Session!NoLightForNothing
<1>3. CabinetSpec => [](focus = "mixing" => Session!PourIsGuided /\ Session!LightsAreTrue)
  BY <1>1, <1>2, MixingOrNot, CabinetMixes, PTL
<1>4. Session!Spec => [][Session!PicksByHand]_(Session!vars)
  BY MixingConstants, Session!PickedByReader DEF Session!NoManualPick
<1>5. [CabinetNext]_cells /\ [Session!PicksByHand]_(Session!vars)
        => [focus = "mixing" => Session!PicksByHand]_cells
  BY FocusStays DEF cells, Session!vars, Session!engineVars, Session!startVars,
     Session!screenVars, Session!guideVars, Session!shelfVars, Session!scaleVars
<1>6. ~(focus = "mixing") => [focus = "mixing" => Session!PicksByHand]_cells
  OBVIOUS
<1>7. CabinetSpec => [][focus = "mixing" => Session!PicksByHand]_cells
  BY <1>4, <1>5, <1>6, MixingOrNot, CabinetMixes, PTL DEF CabinetSpec
<1>8. QED
  BY <1>3, <1>7, PTL DEF PourIsGuided

-----------------------------------------------------------------------------
(* The tracker.                                                            *)
LEMMA CabinetTracks == CabinetSpec /\ focus = "custody" => Tracker!Spec
<1>1. CabinetInit /\ focus = "custody" => Tracker!Init
  BY DEF CabinetInit
<1>2. [CabinetNext]_cells /\ focus = "custody" => [Tracker!Next]_(Tracker!vars)
  BY DEF CabinetNext, cells, Tracker!vars, Tracker!shelfVars, Tracker!uiVars, Tracker!slotVars,
     Tracker!pollVars
<1>3. focus = "custody" /\ [CabinetNext]_cells => (focus = "custody")'
  BY FocusStays
<1>4. QED
  BY <1>1, <1>2, <1>3, PTL DEF CabinetSpec, Tracker!Spec

(* The tracker implements CanCustody, records no can in two slots and      *)
(* times exactly the cans that are out, through missed reads and restarts, *)
(* as long as the driver stays healthy, the crew leaves each change to be  *)
(* seen by a poll and opens no screen that interferes with polling.        *)
THEOREM CabinetTellsCustody ==
  ASSUME {"outage", "fast_moves"} \cap Env = {}, Tracker!OrdinaryScreens
  PROVE  CabinetSpec => TrackerTellsCustody
<1>1. Tracker!Spec => [](Tracker!OneSlotPerTag /\ Tracker!OccupiedIsTracked)
  BY TrackerConstants, Tracker!NoCanTwice
<1>2. Tracker!Spec => []Tracker!TimersMatch
  BY TrackerConstants, Tracker!TimersCorrect DEF Tracker!OrdinaryScreens
<1>3. Tracker!Spec => Tracker!TellsCustody
  BY TrackerConstants, Tracker!CustodyIsTold
<1>4. [Tracker!Abstract!Next]_(Tracker!Abstract!custodyVars)
        => [focus = "custody" => [Tracker!Abstract!Next]_(Tracker!Abstract!custodyVars)]_cells
  OBVIOUS
<1>5. ~(focus = "custody")
        => [focus = "custody" => [Tracker!Abstract!Next]_(Tracker!Abstract!custodyVars)]_cells
  OBVIOUS
<1>6. QED
  BY <1>1, <1>2, <1>3, <1>4, <1>5, CustodyOrNot, CabinetTracks, PTL
     DEF TrackerTellsCustody, Tracker!TellsCustody, Tracker!Abstract!Spec

-----------------------------------------------------------------------------
(* The lamps. The cells by the names that Lamps gives them.                *)
config == c1
hw == c2
commands == c3
lamp == c4
user == c5
sets == c6
copied == c7
sending == c8
awake == c9
settled == c10
crossed == c11
overtaken == c12

USE LampConstants
    DEF config, hw, commands, lamp, user, sets, copied, sending, awake, settled, crossed,
    overtaken, Leds!LampAssumption

Names(m, s) == s \in Leds!Named(m.slot)
NotedOf(u, s) == user[u].pc = "noted" /\ Names(user[u], s)
Flying(s) == sending.slot = s \/ \E u \in Users : NotedOf(u, s)
NamedIn(s) == {i \in 1 .. Len(commands) : Names(commands[i], s)}
Sent(s) == \/ \E i \in NamedIn(s) : commands[i].on = hw[s] /\ \A j \in NamedIn(s) : j <= i
           \/ NamedIn(s) = {} /\ lamp[s] = hw[s]
Agrees(s) ==
  /\ sending.slot = s => sending.on = hw[s]
  /\ \A u \in Users : NotedOf(u, s) => hw[s] = FALSE
  /\ Flying(s) \/ Sent(s)
LampPlaces ==
  /\ sending # Leds!NoneSent => awake /\ sending.slot \in Lights
  /\ ~awake => \A s \in Lights : copied[s] = "none"
  /\ \A u \in Users : IF user[u].pc = "idle" THEN user[u] = Leds!Resting ELSE user[u].slot # NoSlot
Passed == settled => \A s \in Lights :
  /\ copied[s] \in {config[s], "none"}
  /\ copied[s] = "none" => /\ config[s] = "solid" => hw[s] = TRUE
                           /\ config[s] = "off" => hw[s] = FALSE
Clearing(s) == \E u \in Users : user[u].pc = "configured" /\ Names(user[u], s)
Dark == \A s \in Lights \ overtaken : config[s] = "none" =>
  /\ copied[s] = "none"
  /\ hw[s] = FALSE \/ Clearing(s)

LampInv == /\ Leds!TypeOK /\ LampPlaces /\ Passed /\ Dark
           /\ \A s \in Lights \ crossed : Agrees(s)

LEMMA LampInit == Leds!Init => LampInv
<1> SUFFICES ASSUME Leds!Init PROVE LampInv
  OBVIOUS
<1> USE DEF Leds!Init
<1>1. Leds!TypeOK
  <2>1. user \in [Users -> [pc : {"idle", "configured", "noted"},
                            slot : Lights \cup {AllSlots, NoSlot}]]
    BY DEF Leds!Resting
  <2>2. commands \in Seq(Leds!Command) /\ Len(commands) <= MaxQueued /\ sets \in 0 .. MaxSets
    BY LampConstants
  <2>3. hw \in [Lights -> BOOLEAN] /\ lamp \in [Lights -> BOOLEAN]
    BY DEF Leds!Off
  <2> QED
    BY <2>1, <2>2, <2>3 DEF Leds!TypeOK
<1>2. LampPlaces
  BY DEF LampPlaces, Leds!Resting
<1>3. Passed /\ Dark
  BY DEF Passed, Dark, Leds!Off
<1>4. ASSUME NEW s \in Lights PROVE Agrees(s)
  <2>1. sending.slot # s
    BY LampConstants DEF Leds!NoneSent
  <2>2. \A u \in Users : ~NotedOf(u, s)
    BY DEF NotedOf, Leds!Resting
  <2>3. NamedIn(s) = {}
    BY DEF NamedIn
  <2>4. lamp[s] = hw[s]
    OBVIOUS
  <2> QED
    BY <2>1, <2>2, <2>3, <2>4 DEF Agrees, Sent
<1> QED
  BY <1>1, <1>2, <1>3, <1>4 DEF LampInv

(* A command that is queued for a lamp is the last one for it.             *)
LEMMA SentAppended ==
  ASSUME commands \in Seq(Leds!Command), NEW m, commands' = Append(commands, m),
         NEW s \in Lights,
         IF Names(m, s) THEN m.on = hw'[s] ELSE Sent(s) /\ hw'[s] = hw[s] /\ lamp'[s] = lamp[s]
  PROVE  Sent(s)'
<1>1. /\ Len(commands) \in Nat /\ Len(commands') = Len(commands) + 1
      /\ commands'[Len(commands) + 1] = m
      /\ \A i \in 1 .. Len(commands) : commands'[i] = commands[i]
  OBVIOUS
<1>2. CASE Names(m, s)
  <2>1. Len(commands) + 1 \in NamedIn(s)'
    BY <1>1, <1>2 DEF NamedIn
  <2>2. \A j \in NamedIn(s)' : j <= Len(commands) + 1
    BY <1>1 DEF NamedIn
  <2> QED
    BY <1>1, <1>2, <2>1, <2>2 DEF Sent
<1>3. CASE ~Names(m, s)
  <2>1. NamedIn(s)' = NamedIn(s)
    BY <1>1, <1>3 DEF NamedIn, Names
  <2>2. \A i \in NamedIn(s) : commands'[i] = commands[i]
    BY <1>1 DEF NamedIn
  <2> QED
    BY <1>3, <2>1, <2>2 DEF Sent
<1> QED
  BY <1>2, <1>3

(* The first command is carried out.                                       *)
LEMMA SentShifted ==
  ASSUME commands \in Seq(Leds!Command), commands # <<>>, commands' = Tail(commands),
         NEW s \in Lights, Sent(s), hw'[s] = hw[s],
         \/ lamp'[s] = IF Names(commands[1], s) THEN commands[1].on ELSE lamp[s]
         \/ \E k \in 2 .. Len(commands) : Names(commands[k], s)
  PROVE  Sent(s)'
<1>1. /\ Len(commands) \in Nat \ {0} /\ Len(commands') = Len(commands) - 1
      /\ \A i \in 1 .. Len(commands') : commands'[i] = commands[i + 1]
  OBVIOUS
<1>2. \A i \in 1 .. Len(commands) - 1 : i \in NamedIn(s)' <=> i + 1 \in NamedIn(s)
  BY <1>1 DEF NamedIn, Names
<1>3. /\ NamedIn(s) \subseteq 1 .. Len(commands)
      /\ NamedIn(s)' \subseteq 1 .. Len(commands) - 1
  BY <1>1 DEF NamedIn
<1>4. ASSUME NEW i \in NamedIn(s), commands[i].on = hw[s], \A j \in NamedIn(s) : j <= i
      PROVE  Sent(s)'
  <2>1. CASE i = 1
    <3>1. NamedIn(s)' = {}
      <4> SUFFICES ASSUME NEW j \in NamedIn(s)' PROVE FALSE
        OBVIOUS
      <4>1. j \in 1 .. Len(commands) - 1 /\ j + 1 \in NamedIn(s)
        BY <1>1, <1>2, <1>3
      <4> QED
        BY <4>1, <1>4, <2>1
    <3>2. Names(commands[1], s)
      BY <2>1 DEF NamedIn
    <3>3. lamp'[s] = hw'[s]
      <4>1. ASSUME NEW k \in 2 .. Len(commands), Names(commands[k], s) PROVE FALSE
        BY <1>1, <1>4, <2>1, <4>1 DEF NamedIn
      <4> QED
        BY <1>4, <2>1, <3>2, <4>1
    <3> QED
      BY <3>1, <3>3 DEF Sent
  <2>2. CASE i # 1
    <3>1. i - 1 \in 1 .. Len(commands) - 1 /\ i \in 1 .. Len(commands)
      BY <1>1, <1>3, <2>2
    <3>2. i - 1 \in NamedIn(s)'
      BY <1>1, <1>2, <3>1
    <3>3. commands'[i - 1] = commands[i]
      BY <1>1, <3>1
    <3>4. ASSUME NEW j \in NamedIn(s)' PROVE j <= i - 1
      <4>1. j \in 1 .. Len(commands) - 1 /\ j + 1 \in NamedIn(s)
        BY <1>1, <1>2, <1>3
      <4> QED
        BY <4>1, <1>4, <3>1
    <3> QED
      BY <1>4, <3>2, <3>3, <3>4 DEF Sent
  <2> QED
    BY <2>1, <2>2
<1>5. CASE NamedIn(s) = {} /\ lamp[s] = hw[s]
  <2>1. NamedIn(s)' = {}
    <3> SUFFICES ASSUME NEW j \in NamedIn(s)' PROVE FALSE
      OBVIOUS
    <3>1. j \in 1 .. Len(commands) - 1
      BY <1>3
    <3> QED
      BY <1>2, <1>5, <3>1
  <2>2. ~Names(commands[1], s) /\ \A k \in 2 .. Len(commands) : ~Names(commands[k], s)
    BY <1>1, <1>5 DEF NamedIn
  <2> QED
    BY <1>5, <2>1, <2>2 DEF Sent
<1> QED
  BY <1>4, <1>5 DEF Sent

(* Nothing of a lamp's commands changes.                                   *)
LEMMA AgreesKept ==
  ASSUME NEW s \in Lights, Agrees(s), hw'[s] = hw[s], lamp'[s] = lamp[s],
         UNCHANGED <<commands, sending>>,
         \A u \in Users : NotedOf(u, s)' <=> NotedOf(u, s)
  PROVE  Agrees(s)'
<1>1. NamedIn(s)' = NamedIn(s)
  BY DEF NamedIn
<1>2. Sent(s) => Sent(s)'
  BY <1>1 DEF Sent
<1> QED
  BY <1>2 DEF Agrees, Flying

LEMMA UnderWayIsFlying == ASSUME NEW s \in Lights PROVE s \in Leds!UnderWay <=> Flying(s)
BY DEF Leds!UnderWay, Flying, NotedOf, Names

-----------------------------------------------------------------------------
(* Types.                                                                  *)
LEMMA EnqueueTypes ==
  ASSUME Leds!TypeOK, NEW m \in Leds!Command, Leds!Enqueue(m)
  PROVE  /\ commands' \in Seq(Leds!Command) /\ Len(commands') <= MaxQueued
         /\ crossed' \subseteq Lights
<1>1. CASE Len(commands) < MaxQueued
  BY <1>1, LampConstants DEF Leds!Enqueue, Leds!TypeOK
<1>2. CASE ~(Len(commands) < MaxQueued)
  <2>1. Leds!Named(m.slot) \subseteq Lights
    BY DEF Leds!Command, Leds!Named
  <2> QED
    BY <1>2, <2>1 DEF Leds!Enqueue, Leds!TypeOK
<1> QED
  BY <1>1, <1>2

LEMMA LampTypes == Leds!TypeOK /\ LampPlaces /\ [Leds!Next]_(Leds!lampVars) => Leds!TypeOK'
<1> SUFFICES ASSUME Leds!TypeOK, LampPlaces, [Leds!Next]_(Leds!lampVars) PROVE Leds!TypeOK'
  OBVIOUS
<1>1. ASSUME NEW u \in Users, NEW s \in Lights, NEW c \in Leds!Shown, Leds!SetSlot(u, s,
             c) PROVE Leds!TypeOK'
  <2>1. config' \in [Lights -> Leds!Shown \cup {"none", "off"}] /\ sets' \in 0 .. MaxSets
    BY <1>1 DEF Leds!SetSlot, Leds!Say, Leds!TypeOK
  <2> QED
    BY <1>1, <2>1 DEF Leds!SetSlot, Leds!TypeOK
<1>2. ASSUME NEW u \in Users, NEW s \in Lights \cup {AllSlots}, Leds!Clear(u, s)
      PROVE Leds!TypeOK'
  <2>1. config' \in [Lights -> Leds!Shown \cup {"none", "off"}] /\ sets' \in 0 .. MaxSets
    BY <1>2 DEF Leds!Clear, Leds!Say, Leds!TypeOK
  <2>2. user' \in [Users -> [pc : {"idle", "configured", "noted"},
                             slot : Lights \cup {AllSlots, NoSlot}]]
    BY <1>2 DEF Leds!Clear, Leds!TypeOK
  <2>3. overtaken' \subseteq Lights
    BY <1>2 DEF Leds!Clear, Leds!TypeOK
  <2> QED
    BY <1>2, <2>1, <2>2, <2>3 DEF Leds!Clear, Leds!TypeOK
<1>3. ASSUME NEW u \in Users, Leds!ClearState(u) PROVE Leds!TypeOK'
  <2>1. hw' \in [Lights -> BOOLEAN]
    BY <1>3 DEF Leds!ClearState, Leds!Noted, Leds!TypeOK
  <2>2. user' \in [Users -> [pc : {"idle", "configured", "noted"},
                             slot : Lights \cup {AllSlots, NoSlot}]]
    BY <1>3 DEF Leds!ClearState, Leds!TypeOK
  <2>3. crossed' \subseteq Lights
    <3>1. Leds!Named(user[u].slot) \subseteq Lights
      BY <1>3 DEF Leds!ClearState, LampPlaces, Leds!TypeOK, Leds!Named
    <3> QED
      BY <1>3, <3>1 DEF Leds!ClearState, Leds!Cross, Leds!TypeOK
  <2> QED
    BY <1>3, <2>1, <2>2, <2>3 DEF Leds!ClearState, Leds!TypeOK
<1>4. ASSUME NEW u \in Users, Leds!ClearSend(u) PROVE Leds!TypeOK'
  <2>1. [slot |-> user[u].slot, on |-> FALSE] \in Leds!Command
    BY <1>4 DEF Leds!ClearSend, LampPlaces, Leds!TypeOK, Leds!Command
  <2>2. user' \in [Users -> [pc : {"idle", "configured", "noted"},
                             slot : Lights \cup {AllSlots, NoSlot}]]
    BY <1>4 DEF Leds!ClearSend, Leds!TypeOK, Leds!Resting
  <2> QED
    BY <1>4, <2>1, <2>2, EnqueueTypes DEF Leds!ClearSend, Leds!TypeOK
<1>5. CASE Leds!BeginPass \/ Leds!EndPass
  BY <1>5 DEF Leds!BeginPass, Leds!EndPass, Leds!TypeOK
<1>6. ASSUME NEW s \in Lights, NEW beat \in BOOLEAN, Leds!Visit(s, beat) PROVE Leds!TypeOK'
  <2>1. copied' \in [Lights -> Leds!Shown \cup {"none", "off"}]
    BY <1>6 DEF Leds!Visit, Leds!TypeOK
  <2>2. hw' \in [Lights -> BOOLEAN] /\ sending' \in Leds!Command \cup {Leds!NoneSent}
        /\ crossed' \subseteq Lights
    <3>1. Leds!Wanted(s, beat) \subseteq BOOLEAN
      BY DEF Leds!Wanted, Leds!TypeOK
    <3>2. CASE Leds!Wanted(s, beat) = {}
      BY <1>6, <3>2 DEF Leds!Visit, Leds!TypeOK
    <3>3. CASE Leds!Wanted(s, beat) # {}
      <4>1. PICK on \in Leds!Wanted(s, beat) : /\ hw' = [hw EXCEPT ![s] = on]
                                          /\ sending' = [slot |-> s, on |-> on]
                                          /\ Leds!Cross({s})
        BY <1>6, <3>3 DEF Leds!Visit
      <4> QED
        BY <3>1, <4>1 DEF Leds!TypeOK, Leds!Command, Leds!Cross
    <3> QED
      BY <3>2, <3>3
  <2> QED
    BY <1>6, <2>1, <2>2 DEF Leds!Visit, Leds!TypeOK
<1>7. CASE Leds!SendHw
  <2>1. sending \in Leds!Command
    BY <1>7 DEF Leds!SendHw, Leds!TypeOK
  <2> QED
    BY <1>7, <2>1, EnqueueTypes DEF Leds!SendHw, Leds!TypeOK
<1>8. CASE Leds!Drain \/ Leds!DrainLost
  <2>0. /\ commands \in Seq(Leds!Command) /\ commands # <<>> /\ commands' = Tail(commands)
        /\ Len(commands) \in Nat /\ Len(commands) <= MaxQueued
    BY <1>8 DEF Leds!Drain, Leds!DrainLost, Leds!TypeOK
  <2>1. commands' \in Seq(Leds!Command) /\ Len(commands') <= MaxQueued
        /\ commands[1] \in Leds!Command
    BY <2>0
  <2>2. lamp' \in [Lights -> BOOLEAN]
    <3>1. lamp' = lamp \/ lamp' = Leds!CarriedOut(commands[1])
      BY <1>8, <2>0 DEF Leds!Drain, Leds!DrainLost
    <3>2. Leds!CarriedOut(commands[1]) \in [Lights -> BOOLEAN]
      BY <2>1 DEF Leds!CarriedOut, Leds!TypeOK, Leds!Command
    <3> QED
      BY <3>1, <3>2 DEF Leds!TypeOK
  <2>3. Leds!Named(commands[1].slot) \subseteq Lights
    BY <2>1 DEF Leds!Command, Leds!Named
  <2>4. crossed' \subseteq Lights
    BY <1>8, <2>3 DEF Leds!Drain, Leds!DrainLost, Leds!TypeOK
  <2> QED
    BY <1>8, <2>1, <2>2, <2>4 DEF Leds!Drain, Leds!DrainLost, Leds!TypeOK
<1>9. CASE UNCHANGED Leds!lampVars
  BY <1>9 DEF Leds!lampVars, Leds!TypeOK
<1> QED
  BY <1>1, <1>2, <1>3, <1>4, <1>5, <1>6, <1>7, <1>8, <1>9
     DEF Leds!Next, Leds!UserStep, Leds!BlinkStep

-----------------------------------------------------------------------------
(* What was said, and what the driver takes the lamps to be.               *)
LEMMA LampConfig ==
  Leds!TypeOK /\ LampPlaces /\ Passed /\ Dark /\ [Leds!Next]_(Leds!lampVars)
      => LampPlaces' /\ Passed' /\ Dark'
<1> SUFFICES ASSUME Leds!TypeOK, LampPlaces, Passed, Dark, [Leds!Next]_(Leds!lampVars)
    PROVE  LampPlaces' /\ Passed' /\ Dark'
  OBVIOUS
<1>1. ASSUME NEW u \in Users, NEW s \in Lights, NEW c \in Leds!Shown, Leds!SetSlot(u, s, c)
      PROVE  LampPlaces' /\ Passed' /\ Dark'
  <2>1. /\ UNCHANGED <<hw, user, copied, sending, awake>> /\ settled' = FALSE
        /\ \A x \in Lights : config'[x] = IF x = s THEN c ELSE config[x]
        /\ overtaken' = overtaken \ {s} /\ c # "none"
    BY <1>1 DEF Leds!SetSlot, Leds!Say, Leds!Shown
  <2> QED
    BY <2>1 DEF LampPlaces, Passed, Dark, Clearing
<1>2. ASSUME NEW u \in Users, NEW s \in Lights \cup {AllSlots}, Leds!Clear(u, s)
      PROVE  LampPlaces' /\ Passed' /\ Dark'
  <2>1. /\ UNCHANGED <<hw, copied, sending, awake>> /\ settled' = FALSE
        /\ user' = [user EXCEPT ![u] = [pc |-> "configured", slot |-> s]]
    BY <1>2 DEF Leds!Clear
  <2>2. LampPlaces' /\ Passed'
    BY <2>1 DEF LampPlaces, Passed, Leds!TypeOK
  <2>3. user'[u].pc = "configured" /\ user'[u].slot = s /\ user[u].pc = "idle"
    BY <2>1, <1>2 DEF Leds!TypeOK, Leds!Clear, Leds!Resting
  <2>4. ASSUME NEW x \in Lights, Clearing(x) PROVE Clearing(x)'
    BY <2>1, <2>3, <2>4 DEF Clearing, Leds!TypeOK, Names
  <2>5. CASE s = AllSlots
    <3>1. overtaken' = {x \in Lights : copied[x] # "none"}
      BY <1>2, <2>5 DEF Leds!Clear
    <3>2. \A x \in Lights : Clearing(x)'
      BY <2>3, <2>5 DEF Clearing, Names, Leds!Named
    <3> QED
      BY <2>1, <2>2, <3>1, <3>2 DEF Dark
  <2>6. CASE s # AllSlots
    <3>1. /\ overtaken' = overtaken \ {s}
          /\ \A x \in Lights : config'[x] = IF x = s THEN "off" ELSE config[x]
      BY <1>2, <2>6 DEF Leds!Clear, Leds!Say, Leds!Named
    <3> QED
      BY <2>1, <2>2, <2>4, <3>1 DEF Dark
  <2> QED
    BY <2>5, <2>6
<1>3. ASSUME NEW u \in Users, Leds!ClearState(u) PROVE LampPlaces' /\ Passed' /\ Dark'
  <2>1. /\ UNCHANGED <<config, copied, sending, awake, overtaken>> /\ settled' = FALSE
        /\ user' = [user EXCEPT ![u].pc = "noted"]
        /\ \A x \in Lights : hw'[x] = (hw[x] /\ x \notin Leds!Named(user[u].slot))
    BY <1>3 DEF Leds!ClearState, Leds!Noted
  <2>2. LampPlaces' /\ Passed'
    BY <1>3, <2>1 DEF LampPlaces, Passed, Leds!TypeOK, Leds!ClearState
  <2>3. ASSUME NEW x \in Lights \ overtaken, config[x] = "none"
        PROVE  hw'[x] = FALSE \/ Clearing(x)'
    <3>1. CASE x \in Leds!Named(user[u].slot)
      BY <2>1, <3>1
    <3>2. CASE hw[x] = FALSE
      BY <2>1, <3>2
    <3>3. CASE Clearing(x) /\ x \notin Leds!Named(user[u].slot)
      <4>1. PICK v \in Users : user[v].pc = "configured" /\ Names(user[v], x)
        BY <3>3 DEF Clearing
      <4>2. v # u
        BY <3>3, <4>1 DEF Names
      <4> QED
        BY <2>1, <4>1, <4>2 DEF Clearing, Names, Leds!TypeOK
    <3> QED
      BY <2>3, <3>1, <3>2, <3>3 DEF Dark
  <2> QED
    BY <2>1, <2>2, <2>3 DEF Dark
<1>4. ASSUME NEW u \in Users, Leds!ClearSend(u) PROVE LampPlaces' /\ Passed' /\ Dark'
  <2>1. /\ UNCHANGED <<config, hw, copied, sending, awake, settled, overtaken>>
        /\ user' = [user EXCEPT ![u] = Leds!Resting] /\ user[u].pc = "noted"
    BY <1>4 DEF Leds!ClearSend
  <2>2. LampPlaces' /\ Passed'
    BY <2>1 DEF LampPlaces, Passed, Leds!TypeOK, Leds!Resting
  <2>3. ASSUME NEW x \in Lights, Clearing(x) PROVE Clearing(x)'
    <3>1. PICK v \in Users : user[v].pc = "configured" /\ Names(user[v], x)
      BY <2>3 DEF Clearing
    <3> QED
      BY <2>1, <3>1 DEF Clearing, Names, Leds!TypeOK
  <2> QED
    BY <2>1, <2>2, <2>3 DEF Dark
<1>5. CASE Leds!BeginPass
  <2>1. /\ UNCHANGED <<config, hw, user, sending, overtaken>> /\ copied' = config
        /\ awake' = TRUE /\ awake = FALSE
    BY <1>5 DEF Leds!BeginPass, Leds!TypeOK
  <2> QED
    BY <2>1 DEF LampPlaces, Passed, Dark, Clearing
<1>6. ASSUME NEW s \in Lights, NEW beat \in BOOLEAN, Leds!Visit(s, beat)
      PROVE  LampPlaces' /\ Passed' /\ Dark'
  <2>1. /\ UNCHANGED <<config, user, awake, settled, overtaken>> /\ awake /\ copied[s] # "none"
        /\ copied' = [copied EXCEPT ![s] = "none"]
    BY <1>6 DEF Leds!Visit
  <2>2. /\ \A x \in Lights : x # s => hw'[x] = hw[x]
        /\ copied[s] = "solid" => hw'[s] = TRUE
        /\ copied[s] = "off" => hw'[s] = FALSE
    <3>1. CASE Leds!Wanted(s, beat) = {}
      <4>1. UNCHANGED hw
        BY <1>6, <3>1 DEF Leds!Visit
      <4>2. copied[s] = "solid" => hw[s] = TRUE
        BY <3>1 DEF Leds!Wanted, Leds!TypeOK
      <4>3. copied[s] = "off" => hw[s] = FALSE
        BY <3>1 DEF Leds!Wanted, Leds!TypeOK
      <4> QED
        BY <4>1, <4>2, <4>3
    <3>2. CASE Leds!Wanted(s, beat) # {}
      <4>1. PICK on \in Leds!Wanted(s, beat) : hw' = [hw EXCEPT ![s] = on]
        BY <1>6, <3>2 DEF Leds!Visit
      <4>2. copied[s] = "solid" => on = TRUE
        BY <4>1 DEF Leds!Wanted
      <4>3. copied[s] = "off" => on = FALSE
        BY <4>1 DEF Leds!Wanted
      <4> QED
        BY <4>1, <4>2, <4>3 DEF Leds!TypeOK
    <3> QED
      BY <3>1, <3>2
  <2>3. LampPlaces'
    <3>1. sending' = sending \/ sending'.slot = s
      BY <1>6 DEF Leds!Visit
    <3> QED
      BY <2>1, <3>1 DEF LampPlaces
  <2>4. Passed'
    BY <2>1, <2>2 DEF Passed, Leds!TypeOK
  <2>5. Dark'
    <3>1. s \in overtaken \/ config[s] # "none"
      BY <2>1 DEF Dark
    <3> QED
      BY <2>1, <2>2, <3>1 DEF Dark, Clearing, Leds!TypeOK
  <2> QED
    BY <2>3, <2>4, <2>5
<1>7. CASE Leds!SendHw
  BY <1>7 DEF Leds!SendHw, LampPlaces, Passed, Dark, Clearing, Leds!NoneSent
<1>8. CASE Leds!EndPass \/ Leds!Drain \/ Leds!DrainLost \/ UNCHANGED Leds!lampVars
  BY <1>8 DEF Leds!EndPass, Leds!Drain, Leds!DrainLost, Leds!lampVars, LampPlaces, Passed,
              Dark, Clearing
<1> QED
  BY <1>1, <1>2, <1>3, <1>4, <1>5, <1>6, <1>7, <1>8 DEF Leds!Next, Leds!UserStep, Leds!BlinkStep

-----------------------------------------------------------------------------
(* What is on its way to the lamps.                                        *)
LEMMA EnqueueAgrees ==
  ASSUME Leds!TypeOK, NEW m \in Leds!Command, Leds!Enqueue(m), UNCHANGED <<hw, lamp>>,
         NEW s \in Lights \ crossed', Agrees(s),
         sending' # sending => sending'.slot # s,
         \A u \in Users : NotedOf(u, s)' => NotedOf(u, s),
         ~Names(m, s) => (Flying(s)' <=> Flying(s)),
         Names(m, s) => m.on = hw[s]
  PROVE  Agrees(s)'
<1>1. (sending.slot = s => sending.on = hw[s])'
  BY DEF Agrees
<1>2. (\A u \in Users : NotedOf(u, s) => hw[s] = FALSE)'
  BY DEF Agrees
<1>3. CASE commands' = Append(commands, m)
  <2>1. CASE Names(m, s)
    <3>1. Sent(s)'
      BY <1>3, <2>1, SentAppended DEF Leds!TypeOK
    <3> QED
      BY <1>1, <1>2, <3>1 DEF Agrees
  <2>2. CASE ~Names(m, s) /\ Flying(s)
    BY <1>1, <1>2, <2>2 DEF Agrees
  <2>3. CASE ~Names(m, s) /\ ~Flying(s)
    <3>1. Sent(s)'
      BY <1>3, <2>3, SentAppended DEF Leds!TypeOK, Agrees
    <3> QED
      BY <1>1, <1>2, <3>1 DEF Agrees
  <2> QED
    BY <2>1, <2>2, <2>3
<1>4. CASE UNCHANGED commands /\ crossed' = crossed \cup Leds!Named(m.slot)
  <2>1. ~Names(m, s)
    BY <1>4 DEF Names
  <2>2. NamedIn(s)' = NamedIn(s)
    BY <1>4 DEF NamedIn
  <2>3. Sent(s) => Sent(s)'
    BY <1>4, <2>2 DEF Sent
  <2> QED
    BY <1>1, <1>2, <2>1, <2>3 DEF Agrees
<1> QED
  BY <1>3, <1>4 DEF Leds!Enqueue

LEMMA LampWay ==
  ASSUME Leds!TypeOK, LampPlaces, \A s \in Lights \ crossed : Agrees(s),
         [Leds!Next]_(Leds!lampVars),
         NEW s \in Lights \ crossed'
  PROVE  Agrees(s)'
<1>1. ASSUME NEW u \in Users, NEW x \in Lights, NEW c \in Leds!Shown, Leds!SetSlot(u, x, c)
      PROVE  Agrees(s)'
  BY <1>1, AgreesKept DEF Leds!SetSlot, NotedOf
<1>2. ASSUME NEW u \in Users, NEW x \in Lights \cup {AllSlots}, Leds!Clear(u, x)
      PROVE Agrees(s)'
  <2>1. \A v \in Users : NotedOf(v, s)' <=> NotedOf(v, s)
    BY <1>2 DEF Leds!Clear, NotedOf, Leds!Resting, Leds!TypeOK, Names
  <2> QED
    BY <1>2, <2>1, AgreesKept DEF Leds!Clear
<1>3. ASSUME NEW u \in Users, Leds!ClearState(u) PROVE Agrees(s)'
  <2>1. /\ UNCHANGED <<commands, lamp, sending>>
        /\ user' = [user EXCEPT ![u].pc = "noted"] /\ user[u].pc = "configured"
        /\ hw'[s] = (hw[s] /\ s \notin Leds!Named(user[u].slot))
        /\ crossed' = (crossed \ Leds!Named(user[u].slot))
                   \cup (Leds!Named(user[u].slot) \cap Leds!UnderWay)
    BY <1>3 DEF Leds!ClearState, Leds!Noted, Leds!Cross
  <2>2. user'[u].pc = "noted" /\ user'[u].slot = user[u].slot
        /\ \A v \in Users : v # u => user'[v] = user[v]
    BY <2>1 DEF Leds!TypeOK
  <2>3. CASE s \in Leds!Named(user[u].slot)
    <3>1. ~Flying(s)
      BY <2>1, <2>3, UnderWayIsFlying
    <3>2. NotedOf(u, s)'
      BY <2>2, <2>3 DEF NotedOf, Names
    <3>3. hw'[s] = FALSE
      BY <2>1, <2>3
    <3> QED
      BY <2>1, <3>1, <3>2, <3>3 DEF Agrees, Flying
  <2>4. CASE s \notin Leds!Named(user[u].slot)
    <3>1. s \notin crossed /\ hw'[s] = hw[s]
      BY <2>1, <2>4 DEF Leds!TypeOK
    <3>2. \A v \in Users : NotedOf(v, s)' <=> NotedOf(v, s)
      BY <2>1, <2>2, <2>4 DEF NotedOf, Names
    <3> QED
      BY <2>1, <3>1, <3>2, AgreesKept
  <2> QED
    BY <2>3, <2>4
<1>4. ASSUME NEW u \in Users, Leds!ClearSend(u) PROVE Agrees(s)'
  <2> DEFINE m == [slot |-> user[u].slot, on |-> FALSE]
  <2>1. /\ Leds!Enqueue(m) /\ UNCHANGED <<hw, lamp, sending>> /\ user[u].pc = "noted"
        /\ user' = [user EXCEPT ![u] = Leds!Resting]
    BY <1>4 DEF Leds!ClearSend
  <2>2. m \in Leds!Command /\ (Names(m, s) <=> Names(user[u], s))
    BY <2>1 DEF LampPlaces, Leds!TypeOK, Leds!Command, Names
  <2>3. s \notin crossed
    BY <2>1 DEF Leds!Enqueue
  <2>4. user'[u].pc = "idle" /\ \A v \in Users : v # u => user'[v] = user[v]
    BY <2>1 DEF Leds!TypeOK, Leds!Resting
  <2>5. \A v \in Users : NotedOf(v, s)' <=> v # u /\ NotedOf(v, s)
    BY <2>4 DEF NotedOf, Names
  <2>6. ~Names(m, s) => (Flying(s)' <=> Flying(s))
    BY <2>1, <2>2, <2>5 DEF Flying, NotedOf
  <2>7. Names(m, s) => m.on = hw[s]
    BY <2>1, <2>2, <2>3 DEF Agrees, NotedOf
  <2> HIDE DEF m
  <2> QED
    BY <2>1, <2>2, <2>3, <2>5, <2>6, <2>7, EnqueueAgrees
<1>5. ASSUME NEW x \in Lights, NEW beat \in BOOLEAN, Leds!Visit(x, beat) PROVE Agrees(s)'
  <2>1. UNCHANGED <<commands, lamp, user>> /\ sending = Leds!NoneSent
    BY <1>5 DEF Leds!Visit
  <2>2. \A v \in Users : NotedOf(v, s)' <=> NotedOf(v, s)
    BY <2>1 DEF NotedOf
  <2>3. CASE Leds!Wanted(x, beat) = {}
    BY <1>5, <2>1, <2>2, <2>3, AgreesKept DEF Leds!Visit
  <2>4. CASE Leds!Wanted(x, beat) # {}
    <3>1. PICK on \in Leds!Wanted(x, beat) : /\ hw' = [hw EXCEPT ![x] = on]
                                        /\ sending' = [slot |-> x, on |-> on]
                                        /\ Leds!Cross({x})
      BY <1>5, <2>4 DEF Leds!Visit
    <3>2. CASE s = x
      <4>1. ~Flying(s)
        BY <3>1, <3>2, UnderWayIsFlying DEF Leds!Cross
      <4>2. sending'.slot = s /\ sending'.on = on /\ hw'[s] = on
        BY <3>1, <3>2 DEF Leds!TypeOK
      <4> QED
        BY <2>2, <4>1, <4>2 DEF Agrees, Flying
    <3>3. CASE s # x
      <4>1. s \notin crossed /\ hw'[s] = hw[s] /\ sending'.slot # s /\ sending.slot # s
        BY <2>1, <3>1, <3>3 DEF Leds!Cross, Leds!TypeOK, Leds!NoneSent
      <4>2. NamedIn(s)' = NamedIn(s)
        BY <2>1 DEF NamedIn
      <4>3. Sent(s) => Sent(s)'
        BY <2>1, <4>1, <4>2 DEF Sent
      <4> QED
        BY <2>2, <4>1, <4>3 DEF Agrees, Flying
    <3> QED
      BY <3>2, <3>3
  <2> QED
    BY <2>3, <2>4
<1>6. CASE Leds!SendHw
  <2>1. Leds!Enqueue(sending) /\ UNCHANGED <<hw, lamp, user>> /\ sending' = Leds!NoneSent
        /\ sending # Leds!NoneSent
    BY <1>6 DEF Leds!SendHw
  <2>2. sending \in Leds!Command /\ (Names(sending, s) <=> sending.slot = s)
    BY <2>1 DEF LampPlaces, Leds!TypeOK, Names, Leds!Named
  <2>3. \A v \in Users : NotedOf(v, s)' <=> NotedOf(v, s)
    BY <2>1 DEF NotedOf
  <2>4. sending'.slot # s /\ s \notin crossed
    BY <2>1 DEF Leds!NoneSent, Leds!Enqueue
  <2>5. ~Names(sending, s) => (Flying(s)' <=> Flying(s))
    BY <2>2, <2>3, <2>4 DEF Flying
  <2>6. Names(sending, s) => sending.on = hw[s]
    BY <2>2, <2>4 DEF Agrees
  <2> QED
    BY <2>1, <2>2, <2>3, <2>4, <2>5, <2>6, EnqueueAgrees
<1>7. CASE Leds!Drain
  <2>1. commands # <<>> /\ commands' = Tail(commands)
        /\ UNCHANGED <<hw, user, sending, crossed>>
        /\ lamp'[s] = IF Names(commands[1], s) THEN commands[1].on ELSE lamp[s]
    BY <1>7 DEF Leds!Drain, Leds!CarriedOut, Names
  <2>2. Sent(s) => Sent(s)'
    BY <2>1, SentShifted DEF Leds!TypeOK
  <2> QED
    BY <2>1, <2>2 DEF Agrees, Flying, NotedOf
<1>8. CASE Leds!DrainLost
  <2>1. commands # <<>> /\ commands' = Tail(commands) /\ UNCHANGED <<hw, lamp, user, sending>>
        /\ s \notin crossed
    BY <1>8 DEF Leds!DrainLost
  <2>2. CASE Flying(s)
    BY <2>1, <2>2 DEF Agrees, Flying, NotedOf
  <2>3. CASE ~Names(commands[1], s)
    <3>1. Sent(s) => Sent(s)'
      BY <2>1, <2>3, SentShifted DEF Leds!TypeOK
    <3> QED
      BY <2>1, <3>1 DEF Agrees, Flying, NotedOf
  <2>4. CASE Names(commands[1], s) /\ ~Flying(s)
    <3>1. \E k \in 2 .. Len(commands) : Names(commands[k], s)
      BY <1>8, <2>1, <2>4, UnderWayIsFlying DEF Leds!DrainLost, Names
    <3>2. Sent(s) => Sent(s)'
      BY <2>1, <3>1, SentShifted DEF Leds!TypeOK
    <3> QED
      BY <2>1, <2>4, <3>2 DEF Agrees, Flying, NotedOf
  <2> QED
    BY <2>2, <2>3, <2>4
<1>9. CASE Leds!BeginPass \/ Leds!EndPass \/ UNCHANGED Leds!lampVars
  <2>1. UNCHANGED <<hw, lamp, commands, sending, user, crossed>>
    BY <1>9 DEF Leds!BeginPass, Leds!EndPass, Leds!lampVars
  <2> QED
    BY <2>1, AgreesKept DEF NotedOf
<1> QED
  BY <1>1, <1>2, <1>3, <1>4, <1>5, <1>6, <1>7, <1>8, <1>9
     DEF Leds!Next, Leds!UserStep, Leds!BlinkStep

-----------------------------------------------------------------------------
(* A lamp that nothing is under way for is as its last command left it.    *)
LEMMA LampShows == LampInv => Leds!LampsShowConfig
<1> SUFFICES ASSUME LampInv, settled, ~awake, commands = <<>>,
                    \A u \in Users : user[u] = Leds!Resting,
                    NEW s \in Lights \ (crossed \cup overtaken), config[s] # "blink"
             PROVE  lamp[s] = (config[s] = "solid")
  BY DEF Leds!LampsShowConfig
<1>1. lamp[s] = hw[s]
  <2>1. sending.slot # s
    BY LampConstants DEF LampInv, LampPlaces, Leds!NoneSent
  <2>2. ~Flying(s)
    BY <2>1 DEF Flying, NotedOf, Leds!Resting
  <2>3. NamedIn(s) = {}
    BY DEF NamedIn
  <2> QED
    BY <2>2, <2>3 DEF LampInv, Agrees, Sent
<1>2. copied[s] = "none"
  BY DEF LampInv, LampPlaces
<1>3. ~Clearing(s)
  BY DEF Clearing, Leds!Resting
<1>4. config[s] \in {"none", "off", "solid"} /\ hw[s] \in BOOLEAN
  BY DEF LampInv, Leds!TypeOK, Leds!Shown
<1>5. hw[s] = (config[s] = "solid")
  BY <1>2, <1>3, <1>4 DEF LampInv, Passed, Dark
<1> QED
  BY <1>1, <1>5

LEMMA LampStep == LampInv /\ [Leds!Next]_(Leds!lampVars) => LampInv'
<1> SUFFICES ASSUME LampInv, [Leds!Next]_(Leds!lampVars) PROVE LampInv'
  OBVIOUS
<1>1. Leds!TypeOK'
  BY LampTypes DEF LampInv
<1>2. LampPlaces' /\ Passed' /\ Dark'
  BY LampConfig DEF LampInv
<1>3. ASSUME NEW s \in Lights \ crossed' PROVE Agrees(s)'
  BY <1>3, LampWay DEF LampInv
<1> QED
  BY <1>1, <1>2, <1>3 DEF LampInv

LEMMA LampInvariant == CabinetSpec => [](focus = "lamps" => LampInv)
<1>1. CabinetInit => (focus = "lamps" => LampInv)
  BY LampInit DEF CabinetInit
<1>2. (focus = "lamps" => LampInv) /\ [CabinetNext]_cells => (focus = "lamps" => LampInv)'
  <2>1. [CabinetNext]_cells /\ focus = "lamps" => [Leds!Next]_(Leds!lampVars)
    BY DEF CabinetNext, cells, Leds!lampVars
  <2> QED
    BY <2>1, LampStep, FocusStays
<1> QED
  BY <1>1, <1>2, PTL DEF CabinetSpec

HIDE LampConstants
    DEF config, hw, commands, lamp, user, sets, copied, sending, awake, settled, crossed,
    overtaken, Leds!LampAssumption

-----------------------------------------------------------------------------
(* The load cells. The cells by the names that LoadCell gives them.        *)
load == c1
offset == c2
last == c3
spikes == c4
cached == c5
request == c6
done == c7
pc == c8
channel == c9
sample == c10
todo == c11
call == c12
served == c13
doubt == c14
steady == c15
moves == c16
calls == c17
faults == c18

USE CellConstants DEF load, offset, last, spikes, cached, request, done, pc, channel, sample, todo,
    call, served, doubt, steady, moves, calls, faults, Cells!CellAssumption

(* The reader is at a channel from the request on, and from the reading    *)
(* on.                                                                     *)
CellPlaces == pc \in {"clear", "tare", "set", "store"} => channel \in Channels
(* Good readings in a row that did not count yet have been held back, each *)
(* of them.                                                                *)
Steady(c) == \/ steady[c] = 0
             \/ last[c] = Cells!Net(c) /\ cached[c] = Cells!Net(c)
             \/ steady[c] <= 2 /\ spikes[c] >= steady[c]
(* A request that is on its way, or being carried out.                     *)
Waiting(u) ==
  \/ /\ request = call[u]
     /\ \/ pc \in {"check", "read", "store"}
        \/ pc = "clear" /\ channel = request
  \/ pc \in {"tare", "set"} /\ channel = call[u]
(* A caller that is not served yet is not told so.                         *)
Asked == ~doubt => \A u \in Callers \ served : call[u] # NoChannel => ~done /\ Waiting(u)
CellInv == Cells!TypeOK /\ CellPlaces /\ Asked /\ \A c \in Channels : Steady(c)

LEMMA MostIsMost == Cells!Most \in Loads /\ Cells!Most \in Nat /\ \A x \in Loads : x <= Cells!Most
BY DEF Cells!Most

LEMMA ClippedLoads == \A x, y \in Loads : Cells!Clipped(x - y) \in 0 .. Cells!Most
BY MostIsMost DEF Cells!Clipped

LEMMA CellInit == Cells!Init => CellInv
<1> SUFFICES ASSUME Cells!Init PROVE CellInv
  OBVIOUS
<1>1. Cells!TypeOK
  <2>1. /\ load \in [Channels -> Loads] /\ offset \in [Channels -> Loads]
        /\ last \in [Channels -> 0 .. Cells!Most] /\ cached \in [Channels -> 0 .. Cells!Most]
    BY MostIsMost DEF Cells!Init
  <2>2. spikes \in [Channels -> 0 .. 2] /\ steady \in [Channels -> 0 .. 3]
    BY DEF Cells!Init
  <2>3. moves \in 0 .. CellMoves /\ calls \in 0 .. MaxCalls /\ faults \in 0 .. MaxFaults
    BY DEF Cells!Init
  <2> QED
    BY <2>1, <2>2, <2>3 DEF Cells!Init, Cells!TypeOK
<1>2. CellPlaces /\ Asked /\ \A c \in Channels : Steady(c)
  BY DEF Cells!Init, CellPlaces, Asked, Steady
<1> QED
  BY <1>1, <1>2 DEF CellInv

LEMMA SampleTypes == ASSUME Cells!TypeOK, NEW c \in Channels, Cells!ReadAveraged(c)
                     PROVE  sample' \in Loads \cup {Cells!Failed} /\ faults' \in 0 .. MaxFaults
BY MostIsMost DEF Cells!ReadAveraged, Cells!TypeOK

LEMMA StoreStep ==
  ASSUME Cells!TypeOK, channel \in Channels, Cells!Store
  PROVE  LET g == Cells!Clipped(sample - offset[channel])
         IN /\ sample # Cells!Failed => g \in 0 .. Cells!Most /\ sample \in Loads
            /\ last' = IF sample = Cells!Failed \/ Cells!HeldBack(channel, g) THEN last
                                          ELSE [last EXCEPT ![channel] = g]
            /\ spikes' = IF sample = Cells!Failed THEN spikes ELSE
                 [spikes EXCEPT ![channel] = IF Cells!HeldBack(channel, g) THEN @ + 1 ELSE 0]
<1>1. sample # Cells!Failed => sample \in Loads
  BY DEF Cells!TypeOK
<1>2. offset[channel] \in Loads
  BY DEF Cells!TypeOK
<1>3. sample # Cells!Failed => Cells!Clipped(sample - offset[channel]) \in 0 .. Cells!Most
  BY <1>1, <1>2, ClippedLoads
<1> QED
  BY <1>1, <1>3 DEF Cells!Store

LEMMA CellTypes == Cells!TypeOK /\ CellPlaces /\ [Cells!Next]_(Cells!vars) => Cells!TypeOK'
<1> SUFFICES ASSUME Cells!TypeOK, CellPlaces, [Cells!Next]_(Cells!vars) PROVE Cells!TypeOK'
  OBVIOUS
<1>1. CASE Cells!CheckRequest
  BY <1>1 DEF Cells!CheckRequest, Cells!cellVars, Cells!callVars, Cells!TypeOK
<1>2. CASE Cells!ClearRequest
  BY <1>2 DEF Cells!ClearRequest, Cells!cellVars, Cells!callVars, Cells!TypeOK
<1>3. CASE Cells!SampleZero
  <2>1. sample' \in Loads \cup {Cells!Failed} /\ faults' \in 0 .. MaxFaults
    BY <1>3, SampleTypes DEF Cells!SampleZero, CellPlaces
  <2> QED
    BY <1>3, <2>1 DEF Cells!SampleZero, Cells!cellVars, Cells!callVars, Cells!TypeOK
<1>4. CASE Cells!SetZero
  <2>1. /\ offset' \in [Channels -> Loads] /\ last' \in [Channels -> 0 .. Cells!Most]
        /\ steady' \in [Channels -> 0 .. 3] /\ served' \subseteq Callers
    BY <1>4, MostIsMost DEF Cells!SetZero, Cells!Zeroed, Cells!TypeOK
  <2> QED
    BY <1>4, <2>1 DEF Cells!SetZero, Cells!TypeOK
<1>5. CASE Cells!SampleWeight
  <2>0. channel' \in Channels
    BY <1>5 DEF Cells!SampleWeight, Cells!TypeOK
  <2>1. sample' \in Loads \cup {Cells!Failed} /\ faults' \in 0 .. MaxFaults
    <3>1. Cells!ReadAveraged(channel')
      BY <1>5 DEF Cells!SampleWeight
    <3>2. /\ load \in [Channels -> Loads] /\ faults \in 0 .. MaxFaults
      BY DEF Cells!TypeOK
    <3> QED
      BY <2>0, <3>1, <3>2, MostIsMost DEF Cells!ReadAveraged
  <2> QED
    BY <1>5, <2>0, <2>1 DEF Cells!SampleWeight, Cells!cellVars, Cells!callVars, Cells!TypeOK
<1>6. CASE Cells!Store
  <2>0. channel \in Channels
    BY <1>6 DEF Cells!Store, CellPlaces
  <2>1. last' \in [Channels -> 0 .. Cells!Most]
    BY <1>6, <2>0, StoreStep DEF Cells!TypeOK
  <2>2. spikes' \in [Channels -> 0 .. 2]
    <3>0. spikes \in [Channels -> 0 .. 2]
      BY DEF Cells!TypeOK
    <3> QED
      BY <1>6, <2>0, <3>0, StoreStep DEF Cells!HeldBack
  <2>3. cached' \in [Channels -> 0 .. Cells!Most]
    BY <1>6, <2>0, <2>1 DEF Cells!Store, Cells!TypeOK
  <2>4. steady' \in [Channels -> 0 .. 3]
    BY <1>6, <2>0 DEF Cells!Store, Cells!TypeOK
  <2> QED
    BY <1>6, <2>0, <2>1, <2>2, <2>3, <2>4 DEF Cells!Store, Cells!callVars, Cells!TypeOK
<1>7. ASSUME NEW c \in Channels, Cells!SetCalibration(c) PROVE Cells!TypeOK'
  <2>1. offset' \in [Channels -> Loads]
    BY <1>7 DEF Cells!SetCalibration, Cells!TypeOK
  <2>2. last' \in [Channels -> 0 .. Cells!Most] /\ steady' \in [Channels -> 0 .. 3]
    BY <1>7, MostIsMost DEF Cells!SetCalibration, Cells!TypeOK
  <2>3. calls' \in 0 .. MaxCalls
    BY <1>7 DEF Cells!SetCalibration, Cells!TypeOK
  <2> QED
    BY <1>7, <2>1, <2>2, <2>3 DEF Cells!SetCalibration, Cells!TypeOK
<1>8. ASSUME NEW c \in Channels, Cells!Move(c) PROVE Cells!TypeOK'
  BY <1>8 DEF Cells!Move, Cells!cellVars, Cells!callVars, Cells!TypeOK
<1>9. ASSUME NEW c \in Channels, NEW u \in Callers, Cells!Tare(u, c) PROVE Cells!TypeOK'
  <2>1. call' \in [Callers -> Channels \cup {NoChannel}] /\ calls' \in 0 .. MaxCalls
    BY <1>9 DEF Cells!Tare, Cells!TypeOK
  <2>2. doubt' \in BOOLEAN
    BY <1>9, Zenon DEF Cells!Tare
  <2> QED
    BY <1>9, <2>1, <2>2 DEF Cells!Tare, Cells!Cleared, Cells!cellVars, Cells!TypeOK
<1>10. ASSUME NEW u \in Callers, Cells!TareDone(u) \/ Cells!TareTimesOut(u) PROVE Cells!TypeOK'
  BY <1>10 DEF Cells!TareDone, Cells!TareTimesOut, Cells!cellVars, Cells!TypeOK
<1>11. CASE UNCHANGED Cells!vars
  BY <1>11 DEF Cells!vars, Cells!cellVars, Cells!TypeOK
<1> QED
  BY <1>1, <1>2, <1>3, <1>4, <1>5, <1>6, <1>7, <1>8, <1>9, <1>10, <1>11
     DEF Cells!Next, Cells!Reader

LEMMA CellPlacesKept == Cells!TypeOK /\ CellPlaces /\ [Cells!Next]_(Cells!vars) => CellPlaces'
<1> SUFFICES ASSUME Cells!TypeOK, CellPlaces, [Cells!Next]_(Cells!vars) PROVE CellPlaces'
  OBVIOUS
<1> QED
  BY DEF Cells!Next, Cells!Reader, Cells!CheckRequest, Cells!ClearRequest, Cells!SampleZero,
         Cells!SetZero, Cells!SampleWeight, Cells!Store, Cells!Tare,
     Cells!TareDone, Cells!TareTimesOut, Cells!SetCalibration, Cells!Move, Cells!vars, CellPlaces,
         Cells!TypeOK

LEMMA AskedKept == Cells!TypeOK /\ CellPlaces /\ Asked /\ [Cells!Next]_(Cells!vars) => Asked'
<1> SUFFICES ASSUME Cells!TypeOK, CellPlaces, Asked, [Cells!Next]_(Cells!vars), ~doubt',
                    NEW v \in Callers, v \notin served', call'[v] # NoChannel
             PROVE  ~done' /\ Waiting(v)'
  BY DEF Asked
<1> USE DEF Waiting
<1>0. call \in [Callers -> Channels \cup {NoChannel}]
  BY DEF Cells!TypeOK
<1>1. CASE Cells!CheckRequest
  BY <1>0, <1>1 DEF Cells!CheckRequest, Cells!callVars, Asked
<1>2. CASE Cells!ClearRequest
  BY <1>0, <1>2 DEF Cells!ClearRequest, Asked
<1>3. CASE Cells!SampleZero
  BY <1>0, <1>3 DEF Cells!SampleZero, Cells!callVars, Asked
<1>4. CASE Cells!SetZero
  BY <1>0, <1>4 DEF Cells!SetZero, Asked
<1>5. CASE Cells!SampleWeight
  BY <1>0, <1>5 DEF Cells!SampleWeight, Cells!callVars, Asked
<1>6. CASE Cells!Store
  BY <1>0, <1>6 DEF Cells!Store, Cells!callVars, Asked
<1>7. ASSUME NEW c \in Channels, Cells!SetCalibration(c) \/ Cells!Move(c)
      PROVE ~done' /\ Waiting(v)'
  BY <1>0, <1>7 DEF Cells!SetCalibration, Cells!Move, Cells!callVars, Asked
<1>8. ASSUME NEW c \in Channels, NEW u \in Callers, Cells!Tare(u, c) PROVE ~done' /\ Waiting(v)'
  BY <1>0, <1>8 DEF Cells!Tare, Cells!Cleared, Cells!TypeOK
<1>9. ASSUME NEW u \in Callers, Cells!TareDone(u) \/ Cells!TareTimesOut(u)
      PROVE ~done' /\ Waiting(v)'
  BY <1>0, <1>9 DEF Cells!TareDone, Cells!TareTimesOut, Asked
<1>10. CASE UNCHANGED Cells!vars
  BY <1>0, <1>10 DEF Cells!vars, Cells!callVars, Asked
<1> QED
  BY <1>1, <1>2, <1>3, <1>4, <1>5, <1>6, <1>7, <1>8, <1>9, <1>10 DEF Cells!Next, Cells!Reader

LEMMA SteadyKept == ASSUME Cells!TypeOK, CellPlaces, \A c \in Channels : Steady(c),
                           [Cells!Next]_(Cells!vars),
                           NEW d \in Channels
                    PROVE  Steady(d)'
<1>0. /\ steady \in [Channels -> 0 .. 3] /\ spikes \in [Channels -> 0 .. 2]
      /\ load \in [Channels -> Loads] /\ offset \in [Channels -> Loads]
      /\ last \in [Channels -> 0 .. Cells!Most] /\ cached \in [Channels -> 0 .. Cells!Most]
  BY DEF Cells!TypeOK
<1>1. CASE UNCHANGED <<load, Cells!cellVars, cached, steady>>
  BY <1>0, <1>1 DEF Cells!cellVars, Steady, Cells!Net
<1>2. CASE Cells!SetZero
  BY <1>0, <1>2 DEF Cells!SetZero, Cells!Zeroed, Steady, Cells!Net
<1>3. ASSUME NEW c \in Channels, Cells!SetCalibration(c) \/ Cells!Move(c) PROVE Steady(d)'
  BY <1>0, <1>3 DEF Cells!SetCalibration, Cells!Move, Cells!cellVars, Steady, Cells!Net
<1>4. CASE Cells!Store
  <2> DEFINE g == Cells!Clipped(sample - offset[channel])
  <2>0. channel \in Channels
    BY <1>4 DEF Cells!Store, CellPlaces
  <2>1. CASE channel # d
    BY <1>0, <1>4, <2>0, <2>1 DEF Cells!Store, Steady, Cells!Net
  <2>2. CASE channel = d /\ sample # load[d]
    BY <1>0, <1>4, <2>2 DEF Cells!Store, Steady
  <2>3. CASE channel = d /\ sample = load[d]
    <3>1. g = Cells!Net(d) /\ sample # Cells!Failed /\ Cells!Net(d)' = Cells!Net(d)
      BY <1>0, <1>4, <2>3 DEF Cells!Net, Cells!Failed, Cells!Store
    <3>2. g \in Nat
      <4>1. sample \in Loads /\ offset[channel] \in Loads
        BY <1>0, <2>3
      <4>2. g \in 0 .. Cells!Most
        BY <4>1, ClippedLoads
      <4> QED
        BY <4>2, MostIsMost
    <3>3. /\ last' = IF Cells!HeldBack(d, g) THEN last ELSE [last EXCEPT ![d] = g]
          /\ spikes' = [spikes EXCEPT ![d] = IF Cells!HeldBack(d, g) THEN @ + 1 ELSE 0]
      BY <1>4, <2>3, <3>1, StoreStep
    <3>4. /\ cached'[d] = last'[d]
          /\ steady'[d] = IF steady[d] = 3 THEN 3 ELSE steady[d] + 1
      BY <1>0, <1>4, <2>3 DEF Cells!Store
    <3>5. CASE Cells!HeldBack(d, g)
      <4>1. spikes[d] < 2 /\ last[d] # g
        BY <1>0, <3>2, <3>5 DEF Cells!HeldBack, Cells!Far
      <4>2. spikes'[d] = spikes[d] + 1
        BY <1>0, <3>3, <3>5
      <4> QED
        BY <1>0, <3>1, <3>4, <4>1, <4>2 DEF Steady
    <3>6. CASE ~Cells!HeldBack(d, g)
      BY <1>0, <3>1, <3>3, <3>4, <3>6 DEF Steady
    <3> QED
      BY <3>5, <3>6
  <2> QED
    BY <2>1, <2>2, <2>3
<1> QED
  BY <1>1, <1>2, <1>3, <1>4
     DEF Cells!Next, Cells!Reader, Cells!CheckRequest, Cells!ClearRequest, Cells!SampleZero,
     Cells!SampleWeight, Cells!Tare, Cells!TareDone, Cells!TareTimesOut, Cells!vars, Cells!cellVars

LEMMA CellStep == CellInv /\ [Cells!Next]_(Cells!vars) => CellInv'
BY CellTypes, CellPlacesKept, AskedKept, SteadyKept DEF CellInv

LEMMA CellShows == CellInv => Cells!ReadingCatchesUp
BY DEF CellInv, Steady, Cells!ReadingCatchesUp, Cells!TypeOK

LEMMA CellTells == CellInv => Cells!TareWasMine
BY DEF CellInv, Asked, Cells!TareWasMine, Cells!TareDone

HIDE CellConstants DEF load, offset, last, spikes, cached, request, done, pc, channel, sample,
    todo, call, served, doubt, steady, moves, calls, faults, Cells!CellAssumption

LEMMA CellInvariant == CabinetSpec => [](focus = "cells" => CellInv)
<1>1. CabinetInit => (focus = "cells" => CellInv)
  BY CellInit DEF CabinetInit
<1>2. (focus = "cells" => CellInv) /\ [CabinetNext]_cells => (focus = "cells" => CellInv)'
  <2>1. [CabinetNext]_cells /\ focus = "cells" => [Cells!Next]_(Cells!vars)
    BY DEF CabinetNext, cells, Cells!vars, Cells!cellVars, Cells!callVars
  <2> QED
    BY <2>1, CellStep, FocusStays
<1> QED
  BY <1>1, <1>2, PTL DEF CabinetSpec

-----------------------------------------------------------------------------
(* The calibration. The cells by the names that Calibration gives them.    *)
shown == c1
step == c2
zeroOffset == c3
known == c4
loaded == c5
scale == c6
zeroButton == c7
readButton == c8
saveButton == c9
goOn == c10
again == c11
applied == c12
stored == c13
hurried == c14
failed == c15
steps == c16

USE WizardConstants DEF shown, step, zeroOffset, known, loaded, scale, zeroButton, readButton,
    saveButton, goOn, again, applied, stored, hurried, failed, steps, Wizard!WizardAssumption

(* Every timer was started by a step that counts.                          *)
TimersCounted == /\ \A s \in {1, 3} : goOn[s] <= steps
                 /\ \A b \in {"read", "save"} : again[b] <= steps
(* From READ on the scale is that of the last reading; the timer that READ *)
(* starts finds the wizard where it was, unless somebody hurried.          *)
ResultFits == ~hurried =>
  /\ goOn[3] > 0 => step \in {2, 3}
  /\ (goOn[3] > 0 \/ step = 3) => scale = Wizard!Scale(zeroOffset, loaded, known)
ResultKept ==
  /\ stored # Wizard!None /\ ~stored.hurried =>
       stored.scale = Wizard!Scale(stored.offset, stored.loaded, stored.known)
  /\ stored # Wizard!None /\ ~failed => applied = <<stored.offset, stored.scale>>
WizardInv == Wizard!TypeOK /\ TimersCounted /\ ResultFits /\ ResultKept

LEMMA WizardScales == \A zero, raw \in Nat : \A grams \in Presets \cup {0} :
                        Wizard!Scale(zero, raw, grams) \in Wizard!Scales
BY DEF Wizard!Scale, Wizard!Scales, Wizard!Diff, Wizard!NoScale

LEMMA WizardInit == Wizard!Init => WizardInv
<1> SUFFICES ASSUME Wizard!Init PROVE WizardInv
  OBVIOUS
<1>1. Wizard!NoScale \in Wizard!Scales
  BY DEF Wizard!NoScale, Wizard!Scales
<1>2. Wizard!TypeOK
  <2>1. goOn \in [{1, 3} -> 0 .. WizardSteps] /\ again \in [{"read", "save"} -> 0 .. WizardSteps]
    BY DEF Wizard!Init
  <2>2. applied \in (Raws \cup {0}) \X Wizard!Scales /\ scale \in Wizard!Scales
    BY <1>1 DEF Wizard!Init
  <2>3. step \in 0 .. 3 /\ steps \in 0 .. WizardSteps
    BY DEF Wizard!Init
  <2>4. zeroOffset \in Raws \cup {0} /\ loaded \in Raws \cup {0} /\ known \in Presets \cup {0}
    BY DEF Wizard!Init
  <2>5. /\ shown \in BOOLEAN /\ hurried \in BOOLEAN /\ failed \in BOOLEAN
        /\ zeroButton \in BOOLEAN /\ readButton \in BOOLEAN /\ saveButton \in BOOLEAN
    BY Zenon DEF Wizard!Init
  <2> QED
    BY <2>1, <2>2, <2>3, <2>4, <2>5, Zenon DEF Wizard!TypeOK
<1>3. TimersCounted /\ ResultFits /\ ResultKept
  BY DEF Wizard!Init, TimersCounted, ResultFits, ResultKept
<1> QED
  BY <1>2, <1>3 DEF WizardInv

LEMMA WizardStep == WizardInv /\ [Wizard!Next]_(Wizard!vars) => WizardInv'
<1> SUFFICES ASSUME WizardInv, [Wizard!Next]_(Wizard!vars) PROVE WizardInv'
  OBVIOUS
<1>0. /\ zeroOffset \in Nat /\ loaded \in Nat /\ known \in Presets \cup {0}
      /\ scale \in Wizard!Scales
      /\ step \in 0 .. 3 /\ steps \in Nat /\ steps <= WizardSteps
      /\ goOn \in [{1, 3} -> 0 .. WizardSteps] /\ again \in [{"read", "save"} -> 0 .. WizardSteps]
      /\ TimersCounted /\ ResultFits /\ ResultKept /\ hurried \in BOOLEAN
  BY DEF WizardInv, Wizard!TypeOK
<1>1. Wizard!TypeOK' /\ TimersCounted'
  <2>1. ASSUME NEW raw \in Raws, Wizard!SetZero(raw) PROVE Wizard!TypeOK' /\ TimersCounted'
    <3>1. goOn' \in [{1, 3} -> 0 .. WizardSteps] /\ \A s \in {1, 3} : goOn'[s] <= steps'
      BY <1>0, <2>1 DEF Wizard!SetZero, Wizard!Counted, TimersCounted
    <3>2. steps' \in 0 .. WizardSteps /\ \A b \in {"read", "save"} : again'[b] <= steps'
      BY <1>0, <2>1 DEF Wizard!SetZero, Wizard!Counted, TimersCounted
    <3> QED
      BY <2>1, <3>1, <3>2
         DEF Wizard!SetZero, Wizard!savedVars, WizardInv, Wizard!TypeOK, TimersCounted
  <2>2. ASSUME NEW raw \in Raws, Wizard!ReadLoaded(raw) PROVE Wizard!TypeOK' /\ TimersCounted'
    <3>1. scale' \in Wizard!Scales
      BY <1>0, <2>2, WizardScales DEF Wizard!ReadLoaded, Wizard!ScaleRead
    <3>2. goOn' \in [{1, 3} -> 0 .. WizardSteps] /\ \A s \in {1, 3} : goOn'[s] <= steps'
      BY <1>0, <2>2 DEF Wizard!ReadLoaded, Wizard!Counted, TimersCounted
    <3>3. steps' \in 0 .. WizardSteps /\ \A b \in {"read", "save"} : again'[b] <= steps'
      BY <1>0, <2>2 DEF Wizard!ReadLoaded, Wizard!Counted, TimersCounted
    <3> QED
      BY <2>2, <3>1, <3>2, <3>3
         DEF Wizard!ReadLoaded, Wizard!savedVars, WizardInv, Wizard!TypeOK, TimersCounted
  <2>3. ASSUME NEW grams \in Presets, Wizard!SetKnownWeight(grams)
        PROVE Wizard!TypeOK' /\ TimersCounted'
    BY <1>0, <2>3
       DEF Wizard!SetKnownWeight, Wizard!Counted, Wizard!buttonVars, Wizard!timerVars,
           Wizard!savedVars, WizardInv,
       Wizard!TypeOK, TimersCounted
  <2>4. CASE Wizard!ConfirmKnownWeight \/ Wizard!Back
    BY <1>0, <2>4
       DEF Wizard!ConfirmKnownWeight, Wizard!Back, Wizard!GoStep, Wizard!timerVars,
           Wizard!savedVars, WizardInv,
       Wizard!TypeOK, TimersCounted
  <2>5. CASE Wizard!ReadFails
    <3>1. /\ again' \in [{"read", "save"} -> 0 .. WizardSteps]
          /\ \A b \in {"read", "save"} : again'[b] <= steps'
      BY <1>0, <2>5 DEF Wizard!ReadFails, Wizard!Counted, TimersCounted
    <3>2. steps' \in 0 .. WizardSteps /\ \A s \in {1, 3} : goOn'[s] <= steps'
      BY <1>0, <2>5 DEF Wizard!ReadFails, Wizard!Counted, TimersCounted
    <3> QED
      BY <2>5, <3>1, <3>2
         DEF Wizard!ReadFails, Wizard!pageVars, Wizard!buttonVars, Wizard!savedVars, WizardInv,
             Wizard!TypeOK,
         TimersCounted
  <2>6. CASE Wizard!Close
    BY <1>0, <2>6
       DEF Wizard!Close, Wizard!pageVars, Wizard!buttonVars, Wizard!timerVars, Wizard!savedVars,
           WizardInv, Wizard!TypeOK,
       TimersCounted
  <2>7. CASE Wizard!Open
    <3>1. goOn' \in [{1, 3} -> 0 .. WizardSteps]
          /\ again' \in [{"read", "save"} -> 0 .. WizardSteps]
      BY <1>0, <2>7 DEF Wizard!Open, Wizard!Blank
    <3>2. scale' \in Wizard!Scales
      BY <2>7 DEF Wizard!Open, Wizard!Blank, Wizard!NoScale, Wizard!Scales
    <3>3. step' \in 0 .. 3 /\ steps' \in 0 .. WizardSteps
      BY <1>0, <2>7 DEF Wizard!Open, Wizard!Blank
    <3>4. /\ zeroOffset' \in Raws \cup {0} /\ loaded' \in Raws \cup {0}
          /\ known' \in Presets \cup {0}
      BY <2>7 DEF Wizard!Open, Wizard!Blank
    <3>5. /\ shown' \in BOOLEAN /\ hurried' \in BOOLEAN
          /\ zeroButton' \in BOOLEAN /\ readButton' \in BOOLEAN /\ saveButton' \in BOOLEAN
      BY <2>7, Zenon DEF Wizard!Open, Wizard!Blank
    <3>6. applied' \in (Raws \cup {0}) \X Wizard!Scales /\ failed' \in BOOLEAN
      BY <2>7 DEF Wizard!Open, Wizard!savedVars, WizardInv, Wizard!TypeOK
    <3>7. TimersCounted'
      BY <1>0, <2>7 DEF Wizard!Open, Wizard!Blank, TimersCounted
    <3> QED
      BY <3>1, <3>2, <3>3, <3>4, <3>5, <3>6, <3>7, Zenon DEF Wizard!TypeOK
  <2>8. ASSUME NEW fails \in BOOLEAN, Wizard!Save(fails) PROVE Wizard!TypeOK' /\ TimersCounted'
    <3>1. /\ again' \in [{"read", "save"} -> 0 .. WizardSteps]
          /\ \A b \in {"read", "save"} : again'[b] <= steps'
      <4>1. CASE fails
        BY <1>0, <2>8, <4>1 DEF Wizard!Save, Wizard!Counted, TimersCounted
      <4>2. CASE ~fails
        BY <1>0, <2>8, <4>2 DEF Wizard!Save, Wizard!Counted, TimersCounted
      <4> QED
        BY <4>1, <4>2
    <3>2. steps' \in 0 .. WizardSteps /\ \A s \in {1, 3} : goOn'[s] <= steps'
      BY <1>0, <2>8 DEF Wizard!Save, Wizard!Counted, TimersCounted
    <3>3. applied' \in (Raws \cup {0}) \X Wizard!Scales /\ failed' \in BOOLEAN
          /\ saveButton' \in BOOLEAN
      BY <2>8 DEF Wizard!Save, WizardInv, Wizard!TypeOK
    <3> QED
      BY <2>8, <3>1, <3>2, <3>3
         DEF Wizard!Save, Wizard!pageVars, WizardInv, Wizard!TypeOK, TimersCounted
  <2>9. ASSUME NEW s \in {1, 3}, Wizard!GoOn(s) PROVE Wizard!TypeOK' /\ TimersCounted'
    <3>1. /\ goOn' \in [{1, 3} -> 0 .. WizardSteps] /\ \A r \in {1, 3} : goOn'[r] <= steps'
          /\ steps' = steps
      BY <1>0, <2>9 DEF Wizard!GoOn, TimersCounted
    <3>2. step' \in 0 .. 3 /\ hurried' \in BOOLEAN
      BY <1>0, <2>9 DEF Wizard!GoOn, Wizard!GoStep
    <3>3. zeroButton' \in BOOLEAN /\ readButton' \in BOOLEAN /\ saveButton' \in BOOLEAN
      <4>1. zeroButton \in BOOLEAN /\ readButton \in BOOLEAN /\ saveButton \in BOOLEAN
        BY DEF WizardInv, Wizard!TypeOK
      <4>2. /\ zeroButton' = (zeroButton \/ s = 0) /\ readButton' = (readButton \/ s = 2)
            /\ saveButton' = IF s = 3 THEN scale[1] > 0 ELSE saveButton
        BY <2>9 DEF Wizard!GoOn, Wizard!GoStep
      <4>3. saveButton' \in BOOLEAN
        <5>1. CASE s = 3
          BY <4>2, <5>1
        <5>2. CASE s # 3
          BY <4>1, <4>2, <5>2
        <5> QED
          BY <5>1, <5>2
      <4> QED
        BY <4>1, <4>2, <4>3, Zenon
    <3> QED
      BY <2>9, <3>1, <3>2, <3>3
         DEF Wizard!GoOn, Wizard!savedVars, WizardInv, Wizard!TypeOK, TimersCounted
  <2>10. ASSUME NEW b \in {"read", "save"}, Wizard!EnableAgain(b)
         PROVE Wizard!TypeOK' /\ TimersCounted'
    <3>1. /\ again' \in [{"read", "save"} -> 0 .. WizardSteps]
          /\ \A r \in {"read", "save"} : again'[r] <= steps'
          /\ steps' = steps
      BY <1>0, <2>10 DEF Wizard!EnableAgain, TimersCounted
    <3> QED
      BY <2>10, <3>1
         DEF Wizard!EnableAgain, Wizard!pageVars, Wizard!savedVars, WizardInv, Wizard!TypeOK,
             TimersCounted
  <2>11. CASE UNCHANGED Wizard!vars
    BY <2>11 DEF Wizard!vars, Wizard!pageVars, Wizard!buttonVars, Wizard!timerVars,
                 Wizard!savedVars, WizardInv, Wizard!TypeOK, TimersCounted
  <2> QED
    BY <2>1, <2>2, <2>3, <2>4, <2>5, <2>6, <2>7, <2>8, <2>9, <2>10, <2>11 DEF Wizard!Next
<1>2. ResultFits'
  <2>1. ASSUME NEW raw \in Raws, Wizard!SetZero(raw) PROVE ResultFits'
    BY <1>0, <2>1 DEF Wizard!SetZero, ResultFits
  <2>2. ASSUME NEW raw \in Raws, Wizard!ReadLoaded(raw) PROVE ResultFits'
    BY <1>0, <2>2 DEF Wizard!ReadLoaded, Wizard!ScaleRead, ResultFits
  <2>3. ASSUME NEW grams \in Presets, Wizard!SetKnownWeight(grams) PROVE ResultFits'
    BY <1>0, <2>3 DEF Wizard!SetKnownWeight, Wizard!timerVars, ResultFits
  <2>4. CASE Wizard!ConfirmKnownWeight \/ Wizard!Back
    <3>1. CASE Wizard!ConfirmKnownWeight
      BY <1>0, <2>4, <3>1
         DEF Wizard!ConfirmKnownWeight, Wizard!GoStep, Wizard!timerVars, ResultFits
    <3>2. CASE Wizard!Back
      <4>1. hurried' = (hurried \/ goOn[3] > 0) /\ goOn' = goOn /\ step' # 3
            /\ UNCHANGED <<zeroOffset, known, loaded, scale>>
        BY <1>0, <3>2 DEF Wizard!Back, Wizard!GoStep, Wizard!timerVars
      <4>2. ~hurried' => ~hurried /\ ~(goOn[3] > 0)
        BY <4>1, Zenon
      <4> QED
        BY <4>1, <4>2 DEF ResultFits
    <3> QED
      BY <2>4, <3>1, <3>2
  <2>5. CASE Wizard!ReadFails \/ Wizard!Close \/ \E b \in {"read", "save"} : Wizard!EnableAgain(b)
    BY <1>0, <2>5
       DEF Wizard!ReadFails, Wizard!Close, Wizard!EnableAgain, Wizard!pageVars, Wizard!timerVars,
           ResultFits
  <2>6. CASE Wizard!Open
    BY <2>6 DEF Wizard!Open, Wizard!Blank, ResultFits
  <2>7. ASSUME NEW fails \in BOOLEAN, Wizard!Save(fails) PROVE ResultFits'
    BY <1>0, <2>7 DEF Wizard!Save, Wizard!pageVars, ResultFits
  <2>8. CASE Wizard!GoOn(1)
    BY <1>0, <2>8 DEF Wizard!GoOn, Wizard!GoStep, ResultFits
  <2>9. CASE Wizard!GoOn(3)
    BY <1>0, <2>9 DEF Wizard!GoOn, Wizard!GoStep, ResultFits
  <2>10. CASE UNCHANGED Wizard!vars
    BY <1>0, <2>10 DEF Wizard!vars, Wizard!pageVars, Wizard!timerVars, ResultFits
  <2> QED
    BY <2>1, <2>2, <2>3, <2>4, <2>5, <2>6, <2>7, <2>8, <2>9, <2>10 DEF Wizard!Next
<1>3. ResultKept'
  <2>1. CASE UNCHANGED Wizard!savedVars
    BY <1>0, <2>1 DEF Wizard!savedVars, ResultKept
  <2>2. ASSUME NEW fails \in BOOLEAN, Wizard!Save(fails) PROVE ResultKept'
    <3>1. CASE fails
      BY <1>0, <2>2, <3>1 DEF Wizard!Save, ResultKept
    <3>2. CASE ~fails
      <4>1. stored' = [offset |-> zeroOffset, scale |-> scale, known |-> known,
                       loaded |-> loaded, hurried |-> hurried]
            /\ applied' = <<zeroOffset, scale>>
            /\ (~hurried => scale = Wizard!Scale(zeroOffset, loaded, known))
        BY <1>0, <2>2, <3>2 DEF Wizard!Save, ResultFits
      <4> QED
        BY <4>1 DEF ResultKept
    <3> QED
      BY <3>1, <3>2
  <2> QED
    BY <2>1, <2>2
       DEF Wizard!Next, Wizard!SetZero, Wizard!ReadLoaded, Wizard!SetKnownWeight,
           Wizard!ConfirmKnownWeight, Wizard!ReadFails,
       Wizard!Back, Wizard!Close, Wizard!Open, Wizard!GoOn, Wizard!EnableAgain, Wizard!vars
<1> QED
  BY <1>1, <1>2, <1>3 DEF WizardInv

LEMMA WizardFits == WizardInv => Wizard!CalibrationFits
BY DEF WizardInv, ResultFits, ResultKept, Wizard!CalibrationFits

HIDE WizardConstants DEF shown, step, zeroOffset, known, loaded, scale, zeroButton, readButton,
    saveButton, goOn, again, applied, stored, hurried, failed, steps, Wizard!WizardAssumption

LEMMA WizardInvariant == CabinetSpec => [](focus = "wizard" => WizardInv)
<1>1. CabinetInit => (focus = "wizard" => WizardInv)
  BY WizardInit DEF CabinetInit
<1>2. (focus = "wizard" => WizardInv) /\ [CabinetNext]_cells => (focus = "wizard" => WizardInv)'
  <2>1. [CabinetNext]_cells /\ focus = "wizard" => [Wizard!Next]_(Wizard!vars)
    BY DEF CabinetNext, cells, Wizard!vars, Wizard!pageVars, Wizard!buttonVars, Wizard!timerVars,
           Wizard!savedVars
  <2> QED
    BY <2>1, WizardStep, FocusStays
<1> QED
  BY <1>1, <1>2, PTL DEF CabinetSpec

(* A load cell shows what lies on it, however its readings jumped; a tare  *)
(* is the caller's own; and what is calibrated is of one measurement: for  *)
(* any loads, channels and callers.                                        *)
THEOREM CabinetReadsTrue == CabinetSpec => ReadingsAreTrue
<1>1. (focus = "cells" => CellInv) => (focus = "cells" => Cells!ReadingCatchesUp)
  BY CellShows
<1>2. (focus = "cells" => CellInv) => [focus = "cells" => Cells!TareWasMine]_cells
  BY CellTells
<1>3. (focus = "wizard" => WizardInv) => (focus = "wizard" => Wizard!CalibrationFits)
  BY WizardFits
<1> QED
  BY <1>1, <1>2, <1>3, CellInvariant, WizardInvariant, PTL DEF ReadingsAreTrue, CabinetSpec
-----------------------------------------------------------------------------
(* The readers. The cells by the names that RfidReaders gives them.        *)
readers == c1
slotOf == c2
healthy == c3
saved == c4
cans == c5
toAsk == c6
polling == c7
got == c8
ui == c9
lostSave == c10
changed == c11
swaps == c12
restarted == c13

USE ReaderConstants DEF readers, slotOf, healthy, saved, cans, toAsk, polling, got, ui, lostSave,
    changed, swaps, restarted, Ports!ReaderAssumption

(* The map never has one slot twice, and no port that has no reader has a  *)
(* slot, so the map may be saved whole.                                    *)
MapApart == \A p, q \in Ports!Ports : saved[p] # 0 /\ saved[p] = saved[q] => p = q
SlotsApart ==
  /\ \A p \in Ports!Ports : p \in readers <=> slotOf[p] # 0
  /\ \A p, q \in readers : slotOf[p] = slotOf[q] => p = q
AsMapped == ui = "idle" /\ ~lostSave =>
              \A p \in readers : saved[p] # 0 => slotOf[p] = saved[p]
(* What the running poll has got so far.                                   *)
GotSoFar == polling => \A p \in readers \ changed :
  {r \in got : r[1] = p} = IF p \in cans \ toAsk THEN {<<p, slotOf[p]>>} ELSE {}
ReaderInv == Ports!TypeOK /\ MapApart /\ SlotsApart /\ AsMapped /\ GotSoFar

LEMMA ReaderInit == Ports!Init => ReaderInv
<1> SUFFICES ASSUME Ports!Init PROVE ReaderInv
  OBVIOUS
<1>1. Ports!TypeOK
  <2>1. slotOf \in [Ports!Ports -> Ports!SlotIds \cup {0}]
        /\ saved \in [Ports!Ports -> Ports!SlotIds \cup {0}]
    BY DEF Ports!Init, Ports!Ports, Ports!SlotIds
  <2>2. readers \subseteq Ports!Ports /\ healthy \subseteq readers /\ cans \subseteq Ports!Ports
    BY DEF Ports!Init
  <2>3. swaps \in 0 .. MaxSwaps
    BY DEF Ports!Init
  <2> QED
    BY <2>1, <2>2, <2>3 DEF Ports!Init, Ports!TypeOK
<1>2. MapApart /\ SlotsApart /\ AsMapped /\ GotSoFar
  BY DEF Ports!Init, MapApart, SlotsApart, AsMapped, GotSoFar, Ports!Ports
<1> QED
  BY <1>1, <1>2 DEF ReaderInv

LEMMA InOrderApart ==
  ASSUME NEW ports \in SUBSET Ports!Ports, NEW slots \in SUBSET Ports!SlotIds,
         NEW f \in Ports!InOrder(ports, slots)
  PROVE  /\ f \in [ports -> slots]
         /\ \A p, q \in ports : f[p] = f[q] => p = q
<1>1. f \in [ports -> slots] /\ \A p, q \in ports : p < q => f[p] < f[q]
  BY DEF Ports!InOrder
<1>2. ASSUME NEW p \in ports PROVE p \in Nat /\ f[p] \in Nat
  <2>1. p \in Ports!Ports /\ f[p] \in Ports!SlotIds
    BY <1>1
  <2> QED
    BY <2>1 DEF Ports!Ports, Ports!SlotIds
<1>3. ASSUME NEW p \in ports, NEW q \in ports, f[p] = f[q] PROVE p = q
  <2>1. ~(p < q) /\ ~(q < p)
    BY <1>1, <1>2, <1>3
  <2> QED
    BY <1>2, <2>1
<1> QED
  BY <1>1, <1>3

(* Each reader gets its slot of the map, or one that no reader has.        *)
LEMMA BootSlots ==
  ASSUME Ports!TypeOK, MapApart, Ports!Boot
  PROVE  Ports!TypeOK' /\ SlotsApart' /\ AsMapped'
<1>1. PICK found \in SUBSET Ports!Ports : \E auto \in Ports!InOrder(found, Ports!SlotIds) :
        \E answering \in SUBSET found \ {{}} :
          \E rest \in Ports!InOrder(Ports!Unknown(answering), Ports!Free(answering)) :
            /\ readers' = answering
            /\ slotOf' = Ports!Restored(auto, rest, answering)
  BY DEF Ports!Boot
<1>2. PICK auto \in Ports!InOrder(found, Ports!SlotIds) :
        \E answering \in SUBSET found \ {{}} :
          \E rest \in Ports!InOrder(Ports!Unknown(answering), Ports!Free(answering)) :
            /\ readers' = answering
            /\ slotOf' = Ports!Restored(auto, rest, answering)
  BY <1>1
<1>3. PICK answering \in SUBSET found \ {{}} :
        \E rest \in Ports!InOrder(Ports!Unknown(answering), Ports!Free(answering)) :
          /\ readers' = answering
          /\ slotOf' = Ports!Restored(auto, rest, answering)
  BY <1>2
<1>4. PICK rest \in Ports!InOrder(Ports!Unknown(answering), Ports!Free(answering)) :
        /\ readers' = answering
        /\ slotOf' = Ports!Restored(auto, rest, answering)
  BY <1>3
<1>5. answering \subseteq Ports!Ports /\ readers' = answering /\ saved' = saved
      /\ saved \in [Ports!Ports -> Ports!SlotIds \cup {0}]
  BY <1>4 DEF Ports!Boot, Ports!TypeOK
<1>6. /\ auto \in [found -> Ports!SlotIds]
      /\ \A p, q \in found : auto[p] = auto[q] => p = q
  BY InOrderApart
<1>7. /\ Ports!Unknown(answering) \subseteq Ports!Ports
      /\ Ports!Free(answering) \subseteq Ports!SlotIds
      /\ \A p \in answering : p \in Ports!Unknown(answering) <=> saved[p] = 0
      /\ \A s \in Ports!Free(answering), p \in answering : saved[p] # s
  BY <1>5 DEF Ports!Unknown, Ports!Free
<1>8. /\ rest \in [Ports!Unknown(answering) -> Ports!Free(answering)]
      /\ \A p, q \in Ports!Unknown(answering) : rest[p] = rest[q] => p = q
  <2> DEFINE unknown == Ports!Unknown(answering)
             free == Ports!Free(answering)
  <2>1. unknown \in SUBSET Ports!Ports /\ free \in SUBSET Ports!SlotIds
        /\ rest \in Ports!InOrder(unknown, free)
    BY <1>4, <1>7
  <2> HIDE DEF unknown, free
  <2>2. /\ rest \in [unknown -> free]
        /\ \A p, q \in unknown : rest[p] = rest[q] => p = q
    BY <2>1, InOrderApart
  <2> QED
    BY <2>2 DEF unknown, free
<1>9. \A p \in Ports!Ports : slotOf'[p] = IF p \notin answering THEN 0
                         ELSE IF saved[p] # 0 THEN saved[p]
                         ELSE IF \A q \in Ports!Ports : saved[q] = 0 THEN auto[p] ELSE rest[p]
  BY <1>4 DEF Ports!Restored
<1>10. \A p \in answering : slotOf'[p] \in Ports!SlotIds
  BY <1>4, <1>5, <1>6, <1>7, <1>8, <1>9
<1>11. 0 \notin Ports!SlotIds
  BY DEF Ports!SlotIds
<1>12. \A p, q \in answering : slotOf'[p] = slotOf'[q] => p = q
  <2>1. CASE \A q \in Ports!Ports : saved[q] = 0
    BY <1>4, <1>5, <1>6, <1>9, <2>1
  <2>2. CASE ~(\A q \in Ports!Ports : saved[q] = 0)
    <3>1. \A p \in answering : slotOf'[p] = IF saved[p] # 0 THEN saved[p] ELSE rest[p]
      BY <1>5, <1>9, <2>2
    <3>2. \A p, q \in answering : saved[p] # 0 /\ saved[q] = 0 => slotOf'[p] # slotOf'[q]
      BY <1>7, <1>8, <3>1
    <3>3. \A p, q \in answering : saved[p] # 0 /\ saved[q] # 0 /\ slotOf'[p] = slotOf'[q] => p = q
      BY <1>5, <3>1 DEF MapApart
    <3>4. \A p, q \in answering : saved[p] = 0 /\ saved[q] = 0 /\ slotOf'[p] = slotOf'[q] => p = q
      BY <1>7, <1>8, <3>1
    <3> QED
      BY <3>2, <3>3, <3>4
  <2> QED
    BY <2>1, <2>2
<1>13. slotOf' \in [Ports!Ports -> Ports!SlotIds \cup {0}]
  <2>1. DOMAIN slotOf' = Ports!Ports /\ slotOf' = [p \in Ports!Ports |-> slotOf'[p]]
    BY <1>4 DEF Ports!Restored
  <2> QED
    BY <1>5, <1>9, <1>10, <2>1
<1> QED
  BY <1>5, <1>9, <1>10, <1>11, <1>12, <1>13 DEF Ports!Boot, Ports!TypeOK, SlotsApart, AsMapped

LEMMA ReaderStep == ReaderInv /\ [Ports!Next]_(Ports!vars) => ReaderInv'
<1> SUFFICES ASSUME ReaderInv, [Ports!Next]_(Ports!vars) PROVE ReaderInv'
  OBVIOUS
<1>0. Ports!TypeOK /\ MapApart /\ SlotsApart /\ AsMapped /\ GotSoFar
  BY DEF ReaderInv
<1>1. CASE Ports!Boot
  <2>1. MapApart'
    BY <1>0, <1>1 DEF Ports!Boot, MapApart
  <2>2. GotSoFar'
    BY <1>1 DEF Ports!Boot, GotSoFar
  <2> QED
    BY <1>0, <1>1, <2>1, <2>2, BootSlots DEF ReaderInv
<1>2. CASE Ports!PollBegin
  <2>1. Ports!TypeOK' /\ MapApart' /\ SlotsApart' /\ AsMapped'
    BY <1>0, <1>2
       DEF Ports!PollBegin, Ports!readerVars, Ports!TypeOK, MapApart, SlotsApart, AsMapped
  <2>2. GotSoFar'
    BY <1>0, <1>2 DEF Ports!PollBegin, Ports!readerVars, Ports!TypeOK, GotSoFar
  <2> QED
    BY <2>1, <2>2 DEF ReaderInv
<1>3. CASE Ports!PollEnd
  BY <1>0, <1>3
     DEF Ports!PollEnd, Ports!readerVars, Ports!TypeOK, MapApart, SlotsApart, AsMapped, GotSoFar,
         ReaderInv
<1>4. CASE Ports!SaveMap
  <2>1. Ports!TypeOK' /\ SlotsApart' /\ GotSoFar'
    BY <1>0, <1>4
       DEF Ports!SaveMap, Ports!readerVars, Ports!pollVars, Ports!TypeOK, SlotsApart, GotSoFar
  <2>2. MapApart'
    BY <1>0, <1>4 DEF Ports!SaveMap, MapApart, SlotsApart
  <2>3. AsMapped'
    BY <1>0, <1>4 DEF Ports!SaveMap, Ports!readerVars, AsMapped
  <2> QED
    BY <2>1, <2>2, <2>3 DEF ReaderInv
<1>5. ASSUME NEW p \in Ports!Ports, Ports!PollOne(p) PROVE ReaderInv'
  <2>1. got' \subseteq Ports!Ports \X Ports!SlotIds
    BY <1>0, <1>5 DEF Ports!PollOne, Ports!Reading, Ports!TypeOK, SlotsApart
  <2>2. Ports!TypeOK' /\ MapApart' /\ SlotsApart' /\ AsMapped'
    BY <1>0, <1>5, <2>1
       DEF Ports!PollOne, Ports!readerVars, Ports!TypeOK, MapApart, SlotsApart, AsMapped
  <2>3. GotSoFar'
    <3> SUFFICES ASSUME NEW q \in readers \ changed
                 PROVE  {r \in got' : r[1] = q}
                          = IF q \in cans \ toAsk' THEN {<<q, slotOf[q]>>} ELSE {}
      BY <1>5 DEF Ports!PollOne, Ports!readerVars, GotSoFar
    <3>1. {r \in got : r[1] = q} = IF q \in cans \ toAsk THEN {<<q, slotOf[q]>>} ELSE {}
      BY <1>0, <1>5 DEF Ports!PollOne, GotSoFar
    <3>2. toAsk' = toAsk \ {p} /\ p \in toAsk
          /\ got' = IF p \in cans THEN got \cup {<<p, slotOf[p]>>} ELSE got
      BY <1>5 DEF Ports!PollOne, Ports!Reading
    <3>3. CASE p = q /\ p \in cans
      <4>1. {r \in got' : r[1] = q} = {r \in got : r[1] = q} \cup {<<q, slotOf[q]>>}
        BY <3>2, <3>3
      <4> QED
        BY <3>1, <3>2, <3>3, <4>1
    <3>4. CASE ~(p = q /\ p \in cans)
      <4>1. {r \in got' : r[1] = q} = {r \in got : r[1] = q}
        BY <3>2, <3>4
      <4> QED
        BY <3>1, <3>2, <3>4, <4>1
    <3> QED
      BY <3>3, <3>4
  <2> QED
    BY <2>2, <2>3 DEF ReaderInv
<1>6. ASSUME NEW p \in Ports!Ports, Ports!PollFails(p) PROVE ReaderInv'
  <2>1. Ports!TypeOK' /\ MapApart' /\ SlotsApart' /\ AsMapped'
    BY <1>0, <1>6 DEF Ports!PollFails, Ports!TypeOK, MapApart, SlotsApart, AsMapped
  <2>2. GotSoFar'
    BY <1>0, <1>6 DEF Ports!PollFails, GotSoFar
  <2> QED
    BY <2>1, <2>2 DEF ReaderInv
<1>7. ASSUME NEW p \in Ports!Ports, Ports!PollTimesOut(p) PROVE ReaderInv'
  <2>1. Ports!TypeOK' /\ MapApart'
    BY <1>0, <1>7 DEF Ports!PollTimesOut, Ports!TypeOK, MapApart
  <2>2. SlotsApart' /\ AsMapped' /\ GotSoFar'
    BY <1>0, <1>7 DEF Ports!PollTimesOut, SlotsApart, AsMapped, GotSoFar
  <2> QED
    BY <2>1, <2>2 DEF ReaderInv
<1>8. ASSUME NEW p \in Ports!Ports, NEW q \in Ports!Ports, Ports!Swap(p, q) PROVE ReaderInv'
  <2>1. /\ slotOf' \in [Ports!Ports -> Ports!SlotIds \cup {0}]
        /\ slotOf'[p] = slotOf[q] /\ slotOf'[q] = slotOf[p]
        /\ \A r \in Ports!Ports \ {p, q} : slotOf'[r] = slotOf[r]
    BY <1>0, <1>8 DEF Ports!Swap, Ports!Swapped, Ports!TypeOK, Ports!Ports
  <2>2. Ports!TypeOK' /\ MapApart'
    BY <1>0, <1>8, <2>1 DEF Ports!Swap, Ports!TypeOK, MapApart
  <2>3. SlotsApart'
    BY <1>0, <1>8, <2>1 DEF Ports!Swap, Ports!TypeOK, SlotsApart
  <2>4. AsMapped'
    BY <1>8 DEF Ports!Swap, AsMapped
  <2>5. GotSoFar'
    BY <1>0, <1>8, <2>1 DEF Ports!Swap, Ports!TypeOK, GotSoFar
  <2> QED
    BY <2>2, <2>3, <2>4, <2>5 DEF ReaderInv
<1>9. CASE UNCHANGED Ports!vars
  BY <1>0, <1>9
     DEF Ports!vars, Ports!readerVars, Ports!pollVars, Ports!TypeOK, MapApart, SlotsApart,
         AsMapped, GotSoFar,
     ReaderInv
<1> QED
  BY <1>1, <1>2, <1>3, <1>4, <1>5, <1>6, <1>7, <1>8, <1>9 DEF Ports!Next

LEMMA ReadersShow == ReaderInv => Ports!ReadersKeepSlots
BY DEF ReaderInv, SlotsApart, AsMapped, Ports!ReadersKeepSlots, Ports!TypeOK

LEMMA PollShows == ReaderInv => Ports!PollTellsAll
BY DEF ReaderInv, GotSoFar, Ports!PollTellsAll, Ports!PollEnd

HIDE ReaderConstants DEF readers, slotOf, healthy, saved, cans, toAsk, polling, got, ui, lostSave,
    changed, swaps, restarted, Ports!ReaderAssumption

LEMMA ReaderInvariant == CabinetSpec => [](focus = "readers" => ReaderInv)
<1>1. CabinetInit => (focus = "readers" => ReaderInv)
  BY ReaderInit DEF CabinetInit
<1>2. (focus = "readers" => ReaderInv) /\ [CabinetNext]_cells => (focus = "readers" => ReaderInv)'
  <2>1. [CabinetNext]_cells /\ focus = "readers" => [Ports!Next]_(Ports!vars)
    BY DEF CabinetNext, cells, Ports!vars, Ports!readerVars, Ports!pollVars
  <2> QED
    BY <2>1, ReaderStep, FocusStays
<1> QED
  BY <1>1, <1>2, PTL DEF CabinetSpec

-----------------------------------------------------------------------------
(* The single lamps.  The cells by the names that Lights gives them; a name *)
(* that an earlier part has taken has the word pin before it.              *)
driver == c1
state == c2
lit == c3
pinUser == c4
pinCopied == c5
animated == c6
up == c7
pinSets == c8
pinCrossed == c9
pinOvertaken == c10

USE LightConstants DEF driver, state, lit, pinUser, pinCopied, animated, up, pinSets, pinCrossed,
    pinOvertaken, Pins!LightAssumption

(* A call that has noted what it was asked for, and has still to show it.  *)
ToShow(u, s) == pinUser[u].pc \in {"write", "last"} /\ s \in Pins!Named(pinUser[u].slot)

MayDiffer(s) == \/ state[s] = "blink" \/ s \in pinCrossed \/ s \in pinOvertaken
                \/ \E u \in Users : ToShow(u, s)

(* On pins a call shows at once what it notes.                             *)
PinsAtOnce ==
  /\ driver = "pins" => pinCopied = {} /\ \A u \in Users : pinUser[u].pc \notin {"write", "last"}
  /\ \A u \in Users : pinUser[u].pc = "idle" => pinUser[u] = Pins!Resting

(* On the strip it will show what was noted last, unless it was crossed.   *)
NotedLast ==
  \A u \in Users, s \in Lights :
    ToShow(u, s)
        => s \in pinCrossed \/ (state[s] # "blink" /\ (pinUser[u].on <=> state[s] = "solid"))

LitAsNoted == /\ \A s \in Lights : MayDiffer(s) \/ (s \in lit <=> state[s] = "solid")
              /\ \A s \in pinCopied : MayDiffer(s)

LightInv == Pins!TypeOK /\ PinsAtOnce /\ NotedLast /\ LitAsNoted

LEMMA LightInit == Pins!Init => LightInv
<1> SUFFICES ASSUME Pins!Init PROVE LightInv
  OBVIOUS
<1>1. Pins!TypeOK
  <2>1. \A u \in Users : pinUser[u] = Pins!Resting
    BY DEF Pins!Init
  <2>2. pinUser \in [Users -> [pc : {"idle", "write", "joining", "last", "closing"},
                            slot : Lights \cup {AllSlots}, on : BOOLEAN]]
    BY DEF Pins!Init, Pins!Resting
  <2>3. 0 \in 0 .. MaxSets
    OBVIOUS
  <2> QED
    BY <2>2, <2>3 DEF Pins!Init, Pins!TypeOK
<1>2. \A u \in Users : pinUser[u] = Pins!Resting /\ pinUser[u].pc = "idle"
  BY DEF Pins!Init, Pins!Resting
<1>3. \A s \in Lights : s \notin lit /\ state[s] = "none"
  BY DEF Pins!Init
<1>4. PinsAtOnce
  BY <1>2 DEF Pins!Init, PinsAtOnce
<1>5. NotedLast
  BY <1>2 DEF NotedLast, ToShow
<1>6. LitAsNoted
  BY <1>3 DEF Pins!Init, LitAsNoted
<1> QED
  BY <1>1, <1>4, <1>5, <1>6 DEF LightInv

LEMMA LightTypes ==
  ASSUME Pins!TypeOK
  PROVE  /\ driver \in {"pins", "strip"} /\ state \in [Lights -> {"none", "off", "solid", "blink"}]
         /\ pinUser \in [Users -> [pc : {"idle", "write", "joining", "last", "closing"},
                                slot : Lights \cup {AllSlots}, on : BOOLEAN]]
         /\ lit \subseteq Lights /\ pinCopied \subseteq Lights /\ pinCrossed \subseteq Lights
         /\ pinOvertaken \subseteq Lights /\ animated \in BOOLEAN /\ up \in BOOLEAN
         /\ pinSets \in 0 .. MaxSets
         /\ \A u \in Users : Pins!Named(pinUser[u].slot) \subseteq Lights
BY DEF Pins!TypeOK, Pins!Named

(* One user goes on and nothing is noted or shown.                         *)
LEMMA UserGoesOn ==
  ASSUME LightInv, NEW u \in Users, pinUser[u].pc \notin {"write", "last"},
         NEW c \in [pc : {"idle", "joining", "closing"}, slot : Lights \cup {AllSlots},
             on : BOOLEAN],
         c.pc = "idle" => c = Pins!Resting,
         pinUser' = [pinUser EXCEPT ![u] = c], UNCHANGED <<driver, state, lit, pinCopied,
             pinCrossed, pinOvertaken, pinSets>>,
         up' \in BOOLEAN, animated' \in BOOLEAN
  PROVE  LightInv'
<1>0. Pins!TypeOK /\ PinsAtOnce /\ NotedLast /\ LitAsNoted
  BY DEF LightInv
<1>1. pinUser'[u] = c /\ \A v \in Users : v # u => pinUser'[v] = pinUser[v]
  BY <1>0, LightTypes
<1>2. Pins!TypeOK'
  BY <1>0, LightTypes DEF Pins!TypeOK
<1>3. \A v \in Users, s \in Lights : ToShow(v, s)' <=> ToShow(v, s)
  BY <1>1 DEF ToShow
<1>4. PinsAtOnce'
  BY <1>0, <1>1 DEF PinsAtOnce
<1>5. NotedLast'
  BY <1>0, <1>1, <1>3 DEF NotedLast, ToShow
<1>6. \A s \in Lights : MayDiffer(s)' <=> MayDiffer(s)
  BY <1>3 DEF MayDiffer
<1>7. LitAsNoted'
  BY <1>0, <1>6, LightTypes DEF LitAsNoted
<1> QED
  BY <1>2, <1>4, <1>5, <1>7 DEF LightInv

(* One slot or all are noted: on pins they are shown too, unless they      *)
(* blink; on the strip the user has still to show them.                    *)
LEMMA NotedOnPins ==
  ASSUME LightInv, driver = "pins", NEW S \in SUBSET Lights, NEW c \in {"none", "solid", "blink"},
         Pins!Said(S, c), c = "blink" => lit' = lit, c # "blink" => Pins!Light(S, c = "solid"),
         UNCHANGED <<driver, pinCopied, pinCrossed, pinOvertaken>>,
         Pins!TypeOK', \A u \in Users : pinUser'[u].pc \notin {"write", "last"},
         \A u \in Users : pinUser'[u].pc = "idle" => pinUser'[u] = Pins!Resting
  PROVE  LightInv'
<1>0. Pins!TypeOK /\ PinsAtOnce /\ NotedLast /\ LitAsNoted
  BY DEF LightInv
<1>1. \A s \in Lights : state'[s] = IF s \in S THEN c ELSE state[s]
  BY DEF Pins!Said
<1>2. c # "blink" => \A s \in Lights : s \in lit' <=> IF s \in S THEN c = "solid" ELSE s \in lit
  <2>1. CASE c = "solid"
    BY <2>1 DEF Pins!Light
  <2>2. CASE c = "none"
    BY <2>2 DEF Pins!Light
  <2> QED
    BY <2>1, <2>2
<1>3. \A u \in Users, s \in Lights : ~ToShow(u, s) /\ ~ToShow(u, s)'
  BY <1>0 DEF ToShow, PinsAtOnce
<1>4. PinsAtOnce'
  BY <1>0 DEF PinsAtOnce
<1>5. NotedLast'
  BY <1>3 DEF NotedLast
<1>6. \A s \in Lights : MayDiffer(s)' \/ (s \in lit' <=> state'[s] = "solid")
  BY <1>0, <1>1, <1>2, <1>3 DEF LitAsNoted, MayDiffer
<1>7. LitAsNoted'
  BY <1>0, <1>6 DEF LitAsNoted, PinsAtOnce
<1> QED
  BY <1>4, <1>5, <1>7 DEF LightInv

LEMMA NotedOnStrip ==
  ASSUME LightInv, driver = "strip", NEW u \in Users, pinUser[u].pc \notin {"write", "last"},
         NEW named \in Lights \cup {AllSlots}, NEW c \in {"none", "off", "solid", "blink"},
         NEW after \in [pc : {"idle", "write", "last"}, slot : Lights \cup {AllSlots},
             on : BOOLEAN],
         Pins!Said(Pins!Named(named), c), pinUser' = [pinUser EXCEPT ![u] = after],
         c = "blink" => after = Pins!Resting,
         c # "blink" => after.pc # "idle" /\ after.slot = named /\ (after.on <=> c = "solid"),
         pinCrossed' = (pinCrossed \ Pins!Named(named))
                    \cup (Pins!Named(named) \cap Pins!UnderWay(u)),
         UNCHANGED <<driver, lit, pinCopied, pinOvertaken>>, Pins!TypeOK'
  PROVE  LightInv'
<1>0. Pins!TypeOK /\ PinsAtOnce /\ NotedLast /\ LitAsNoted
  BY DEF LightInv
<1> DEFINE S == Pins!Named(named)
<1>1. \A s \in Lights : state'[s] = IF s \in S THEN c ELSE state[s]
  BY DEF Pins!Said
<1>2. pinUser'[u] = after /\ \A v \in Users : v # u => pinUser'[v] = pinUser[v]
  BY <1>0, LightTypes
<1>3. \A v \in Users : v # u => \A s \in Lights : ToShow(v, s)' <=> ToShow(v, s)
  BY <1>2 DEF ToShow
<1>4. \A s \in Lights : ~ToShow(u, s)
  BY DEF ToShow
<1>5. \A s \in Lights : ToShow(u, s)' <=> (c # "blink" /\ s \in S)
  BY <1>2 DEF ToShow, Pins!Resting
<1>6. \A v \in Users, s \in Lights : v # u /\ ToShow(v, s) => s \in Pins!UnderWay(u)
  BY DEF ToShow, Pins!UnderWay
<1> HIDE DEF S
<1>7. PinsAtOnce'
  BY <1>0, <1>2 DEF PinsAtOnce, Pins!Resting
<1>8. NotedLast'
  <2> SUFFICES ASSUME NEW v \in Users, NEW s \in Lights, ToShow(v, s)'
               PROVE  s \in pinCrossed'
                          \/ (state'[s] # "blink" /\ (pinUser'[v].on <=> state'[s] = "solid"))
    BY DEF NotedLast
  <2>1. CASE v = u
    <3>1. c # "blink" /\ s \in S
      BY <1>5, <2>1
    <3> QED
      BY <1>1, <1>2, <2>1, <3>1
  <2>2. CASE v # u /\ s \in S
    BY <1>3, <1>6, <2>2 DEF S
  <2>3. CASE v # u /\ s \notin S
    <3>1. ToShow(v, s) /\ pinUser'[v] = pinUser[v] /\ state'[s] = state[s]
      BY <1>1, <1>2, <1>3, <2>3
    <3>2. s \in pinCrossed' <=> s \in pinCrossed
      BY <2>3 DEF S
    <3> QED
      BY <1>0, <3>1, <3>2 DEF NotedLast
  <2> QED
    BY <2>1, <2>2, <2>3
<1>9. \A s \in S \cap Lights : MayDiffer(s)'
  <2> SUFFICES ASSUME NEW s \in S, s \in Lights
               PROVE  MayDiffer(s)'
    OBVIOUS
  <2>1. state'[s] = c
    BY <1>1
  <2>2. CASE c = "blink"
    BY <2>1, <2>2 DEF MayDiffer
  <2>3. CASE c # "blink"
    BY <1>5, <2>3 DEF MayDiffer
  <2> QED
    BY <2>2, <2>3
<1>10. \A s \in Lights \ S : MayDiffer(s)' <=> MayDiffer(s)
  <2> SUFFICES ASSUME NEW s \in Lights, s \notin S
               PROVE  MayDiffer(s)' <=> MayDiffer(s)
    OBVIOUS
  <2>1. s \in pinCrossed' <=> s \in pinCrossed
    BY DEF S
  <2>2. state'[s] = state[s]
    BY <1>1
  <2>3. \A v \in Users : ToShow(v, s)' <=> ToShow(v, s)
    BY <1>3, <1>4, <1>5
  <2> QED
    BY <2>1, <2>2, <2>3 DEF MayDiffer
<1>11. LitAsNoted'
  <2>1. \A s \in Lights : MayDiffer(s)' \/ (s \in lit' <=> state'[s] = "solid")
    BY <1>0, <1>1, <1>9, <1>10 DEF LitAsNoted
  <2>2. \A s \in pinCopied : MayDiffer(s)'
    BY <1>0, <1>9, <1>10, LightTypes DEF LitAsNoted
  <2> QED
    BY <2>1, <2>2 DEF LitAsNoted
<1> QED
  BY <1>7, <1>8, <1>11 DEF LightInv

LEMMA SetKeeps ==
  ASSUME LightInv, NEW u \in Users, NEW s \in Lights, NEW c \in {"solid", "blink", "off"},
         Pins!SetSlot(u, s, c)
  PROVE  LightInv'
<1>0. Pins!TypeOK /\ PinsAtOnce
  BY DEF LightInv
<1>1. /\ pinUser[u] = Pins!Resting /\ pinSets < MaxSets /\ pinSets' = pinSets + 1
      /\ UNCHANGED <<driver, pinCopied, animated, up>>
  BY DEF Pins!SetSlot
<1>2. pinSets' \in 0 .. MaxSets /\ Pins!Named(s) = {s} /\ pinUser[u].pc = "idle"
  BY <1>0, <1>1, LightTypes DEF Pins!Named, Pins!Resting
<1>3. CASE driver = "pins"
  <2> DEFINE d == IF c = "off" THEN "none" ELSE c
  <2>1. Pins!SetPin(s, d)
    BY <1>3 DEF Pins!SetSlot
  <2>2. /\ Pins!Said({s}, d)
        /\ d = "blink" => lit' = lit
        /\ d # "blink" => Pins!Light({s}, d = "solid")
        /\ UNCHANGED <<pinUser, pinCrossed, pinOvertaken>>
    BY <2>1 DEF Pins!SetPin
  <2>3. d \in {"none", "solid", "blink"}
    OBVIOUS
  <2> HIDE DEF d
  <2>4. Pins!TypeOK'
    <3>1. state' \in [Lights -> {"none", "off", "solid", "blink"}]
      BY <1>0, <2>2, <2>3, LightTypes DEF Pins!Said
    <3>2. lit' \subseteq Lights
      BY <1>0, <2>2, LightTypes DEF Pins!Light
    <3> QED
      BY <1>0, <1>1, <1>2, <2>2, <3>1, <3>2 DEF Pins!TypeOK
  <2> QED
    BY <1>0, <1>1, <1>3, <2>2, <2>3, <2>4, NotedOnPins DEF PinsAtOnce
<1>4. CASE driver # "pins"
  <2>1. driver = "strip" /\ Pins!SetPixel(u, s, c)
    BY <1>0, <1>4, LightTypes DEF Pins!SetSlot
  <2> DEFINE after == IF c = "blink" THEN Pins!Resting ELSE [pc |-> "write", slot |-> s,
      on |-> c = "solid"]
  <2>2. /\ Pins!Said({s}, c) /\ pinUser' = [pinUser EXCEPT ![u] = after]
        /\ pinCrossed' = (pinCrossed \ {s}) \cup ({s} \cap Pins!UnderWay(u))
        /\ UNCHANGED <<lit, pinOvertaken>>
    BY <2>1 DEF Pins!SetPixel
  <2>3. /\ after \in [pc : {"idle", "write", "last"}, slot : Lights \cup {AllSlots}, on : BOOLEAN]
        /\ c = "blink" => after = Pins!Resting
        /\ c # "blink" => after.pc # "idle" /\ after.slot = s /\ (after.on <=> c = "solid")
    BY DEF Pins!Resting
  <2> HIDE DEF after
  <2>4. Pins!TypeOK'
    <3>1. state' \in [Lights -> {"none", "off", "solid", "blink"}]
      BY <1>0, <2>2, LightTypes DEF Pins!Said
    <3>2. pinUser' \in [Users -> [pc : {"idle", "write", "joining", "last", "closing"},
                               slot : Lights \cup {AllSlots}, on : BOOLEAN]]
      BY <1>0, <2>2, <2>3, LightTypes
    <3>3. pinCrossed' \subseteq Lights
      BY <1>0, <2>2, LightTypes
    <3> QED
      BY <1>0, <1>1, <1>2, <2>2, <3>1, <3>2, <3>3 DEF Pins!TypeOK
  <2>5. /\ Pins!Said(Pins!Named(s), c) /\ UNCHANGED <<driver, lit, pinCopied, pinOvertaken>>
        /\ pinCrossed' = (pinCrossed \ Pins!Named(s)) \cup (Pins!Named(s) \cap Pins!UnderWay(u))
    BY <1>1, <1>2, <2>2
  <2>6. /\ pinUser[u].pc \notin {"write", "last"} /\ s \in Lights \cup {AllSlots}
        /\ c \in {"none", "off", "solid", "blink"}
    BY <1>2
  <2> QED
    BY <2>1, <2>2, <2>3, <2>4, <2>5, <2>6, NotedOnStrip, ZenonT(60)
<1> QED
  BY <1>3, <1>4

LEMMA ClearKeeps ==
  ASSUME LightInv, NEW u \in Users, NEW next \in {"write", "last"}, Pins!ClearNoted(u, next),
         pinUser[u] = Pins!Resting \/ (pinUser[u].pc = "joining" /\ next = "last"),
         next = "write" => pinUser[u] = Pins!Resting,
         pinSets' \in 0 .. MaxSets, UNCHANGED <<driver, pinCopied, animated, up, pinOvertaken>>
  PROVE  LightInv'
<1>0. Pins!TypeOK /\ PinsAtOnce
  BY DEF LightInv
<1>1. Pins!Named(AllSlots) = Lights /\ pinUser[u].pc \notin {"write", "last"}
      /\ Pins!Said(Lights, "none")
  BY DEF Pins!Named, Pins!Resting, Pins!ClearNoted
<1>2. state' \in [Lights -> {"none", "off", "solid", "blink"}]
  BY <1>1 DEF Pins!Said
<1>3. CASE driver = "pins"
  <2>1. /\ Pins!Light(Lights, FALSE) /\ pinCrossed' = pinCrossed
        /\ pinUser' = [pinUser EXCEPT ![u].pc = IF next = "last" THEN "closing" ELSE "idle"]
    BY <1>3 DEF Pins!ClearNoted
  <2>2. /\ pinUser'[u] = [pinUser[u] EXCEPT !.pc = IF next = "last" THEN "closing" ELSE "idle"]
        /\ \A v \in Users : v # u => pinUser'[v] = pinUser[v]
    BY <1>0, <2>1, LightTypes
  <2>3. lit' \subseteq Lights
    BY <1>0, <2>1, LightTypes DEF Pins!Light
  <2>4. pinUser[u] \in [pc : {"idle", "write", "joining", "last", "closing"},
                     slot : Lights \cup {AllSlots}, on : BOOLEAN]
    BY <1>0, LightTypes
  <2>5. pinUser' \in [Users -> [pc : {"idle", "write", "joining", "last", "closing"},
                             slot : Lights \cup {AllSlots}, on : BOOLEAN]]
    BY <1>0, <2>1, <2>4, LightTypes
  <2>6. Pins!TypeOK'
    BY <1>0, <1>2, <2>1, <2>3, <2>5 DEF Pins!TypeOK
  <2>7. next = "write" => pinUser'[u] = Pins!Resting
    BY <2>2 DEF Pins!Resting
  <2>8. pinUser'[u].pc \in {"closing", "idle"} /\ (next = "last" => pinUser'[u].pc = "closing")
    BY <2>2, <2>4
  <2>9. \A v \in Users : pinUser'[v].pc \notin {"write", "last"}
        /\ (pinUser'[v].pc = "idle" => pinUser'[v] = Pins!Resting)
    BY <1>0, <1>3, <2>2, <2>7, <2>8 DEF PinsAtOnce
  <2>10. Pins!Light(Lights, "none" = "solid")
    BY <2>1
  <2> QED
    BY <1>1, <1>3, <2>1, <2>6, <2>9, <2>10, NotedOnPins
<1>4. CASE driver # "pins"
  <2> DEFINE after == [pc |-> next, slot |-> AllSlots, on |-> FALSE]
  <2>1. driver = "strip" /\ pinUser' = [pinUser EXCEPT ![u] = after]
        /\ pinCrossed' = Pins!UnderWay(u) /\ lit' = lit
    BY <1>0, <1>4, LightTypes DEF Pins!ClearNoted
  <2>2. after \in [pc : {"idle", "write", "last"}, slot : Lights \cup {AllSlots}, on : BOOLEAN]
    OBVIOUS
  <2>3. after.pc # "idle" /\ after.slot = AllSlots /\ (after.on <=> "none" = "solid")
    OBVIOUS
  <2> HIDE DEF after
  <2>4. Pins!UnderWay(u) \subseteq Lights
    BY <1>0, LightTypes DEF Pins!UnderWay
  <2>5. pinCrossed' = (pinCrossed \ Pins!Named(AllSlots))
             \cup (Pins!Named(AllSlots) \cap Pins!UnderWay(u))
    BY <1>0, <1>1, <2>1, <2>4, LightTypes
  <2>6. pinUser' \in [Users -> [pc : {"idle", "write", "joining", "last", "closing"},
                             slot : Lights \cup {AllSlots}, on : BOOLEAN]]
    BY <1>0, <2>1, <2>2, LightTypes
  <2>7. Pins!TypeOK'
    BY <1>0, <1>2, <2>1, <2>4, <2>6 DEF Pins!TypeOK
  <2>8. Pins!Said(Pins!Named(AllSlots), "none")
    BY <1>1
  <2> QED
    BY <1>1, <2>1, <2>2, <2>3, <2>5, <2>7, <2>8, NotedOnStrip
<1> QED
  BY <1>3, <1>4

(* What was noted is shown, or its writing fails.                          *)
LEMMA WriteKeeps == ASSUME LightInv, NEW u \in Users, Pins!Write(u) PROVE LightInv'
<1>0. Pins!TypeOK /\ PinsAtOnce /\ NotedLast /\ LitAsNoted
  BY DEF LightInv
<1> DEFINE S == Pins!Named(pinUser[u].slot)
<1>1. /\ pinUser[u].pc \in {"write", "last"} /\ S \subseteq Lights
      /\ UNCHANGED <<driver, state, pinCopied, animated, up, pinSets>>
      /\ pinOvertaken' = (pinOvertaken \ S) \cup (pinCopied \cap S)
  BY <1>0, LightTypes DEF Pins!Write
<1>2. \/ Pins!Light(S, pinUser[u].on) /\ pinCrossed' = pinCrossed
      \/ lit' = lit /\ pinCrossed' = pinCrossed \cup S
  BY DEF Pins!Write
<1>3. pinUser[u] \in [pc : {"idle", "write", "joining", "last", "closing"},
                   slot : Lights \cup {AllSlots}, on : BOOLEAN]
  BY <1>0, LightTypes
<1> DEFINE after == IF pinUser[u].pc = "last" THEN [pinUser[u] EXCEPT !.pc = "closing"]
    ELSE Pins!Resting
<1>4. pinUser' = [pinUser EXCEPT ![u] = after]
  BY DEF Pins!Write
<1>5. /\ after \in [pc : {"idle", "closing"}, slot : Lights \cup {AllSlots}, on : BOOLEAN]
      /\ after.pc = "idle" => after = Pins!Resting
  BY <1>3 DEF Pins!Resting
<1>6. \A s \in S : ToShow(u, s)
  BY <1>1 DEF ToShow
<1>7. \A s \in Lights : ToShow(u, s) => s \in S
  BY DEF ToShow
<1>8. \A s \in S : s \in pinCrossed
           \/ (state[s] # "blink" /\ (pinUser[u].on <=> state[s] = "solid"))
  BY <1>0, <1>1, <1>6 DEF NotedLast
<1> HIDE DEF after, S
<1>9. pinUser'[u] = after /\ \A v \in Users : v # u => pinUser'[v] = pinUser[v]
  BY <1>0, <1>4, LightTypes
<1>10. \A s \in Lights : ~ToShow(u, s)'
  BY <1>5, <1>9 DEF ToShow
<1>11. \A v \in Users, s \in Lights : v # u => (ToShow(v, s)' <=> ToShow(v, s))
  BY <1>9 DEF ToShow
<1>12. pinCrossed \subseteq pinCrossed'
      /\ \A s \in S : s \in pinCrossed' \/ (s \in lit' <=> pinUser[u].on)
  BY <1>2 DEF Pins!Light
<1>13. \A s \in Lights \ S : (s \in lit' <=> s \in lit)
      /\ (s \in pinOvertaken' <=> s \in pinOvertaken)
  BY <1>1, <1>2 DEF Pins!Light
<1>14. Pins!TypeOK'
  <2>1. lit' \subseteq Lights /\ pinCrossed' \subseteq Lights /\ pinOvertaken' \subseteq Lights
    BY <1>0, <1>1, <1>2, LightTypes DEF Pins!Light
  <2>2. pinUser' \in [Users -> [pc : {"idle", "write", "joining", "last", "closing"},
                             slot : Lights \cup {AllSlots}, on : BOOLEAN]]
    BY <1>0, <1>4, <1>5, LightTypes
  <2> QED
    BY <1>0, <1>1, <2>1, <2>2 DEF Pins!TypeOK
<1>15. PinsAtOnce'
  BY <1>0, <1>1, <1>5, <1>9 DEF PinsAtOnce
<1>16. NotedLast'
  <2> SUFFICES ASSUME NEW v \in Users, NEW s \in Lights, ToShow(v, s)'
               PROVE  s \in pinCrossed'
                          \/ (state'[s] # "blink" /\ (pinUser'[v].on <=> state'[s] = "solid"))
    BY DEF NotedLast
  <2>1. v # u /\ ToShow(v, s) /\ pinUser'[v] = pinUser[v]
    BY <1>9, <1>10, <1>11
  <2> QED
    BY <1>0, <1>1, <1>12, <2>1 DEF NotedLast
<1>17. \A s \in S : MayDiffer(s)' \/ (s \in lit' <=> state'[s] = "solid")
  BY <1>1, <1>8, <1>12 DEF MayDiffer
<1>18. \A s \in Lights \ S : MayDiffer(s) => MayDiffer(s)'
  <2> SUFFICES ASSUME NEW s \in Lights, s \notin S, MayDiffer(s)
               PROVE  MayDiffer(s)'
    OBVIOUS
  <2>1. CASE state[s] = "blink" \/ s \in pinCrossed \/ s \in pinOvertaken
    BY <1>1, <1>12, <1>13, <2>1 DEF MayDiffer
  <2>2. ASSUME NEW v \in Users, ToShow(v, s) PROVE MayDiffer(s)'
    <3>1. v # u
      BY <1>7, <2>2
    <3> QED
      BY <1>11, <2>2, <3>1 DEF MayDiffer
  <2> QED
    BY <2>1, <2>2 DEF MayDiffer
<1>19. LitAsNoted'
  <2>1. \A s \in Lights : MayDiffer(s)' \/ (s \in lit' <=> state'[s] = "solid")
    BY <1>0, <1>1, <1>13, <1>17, <1>18 DEF LitAsNoted
  <2>2. \A s \in pinCopied : MayDiffer(s)'
    <3> SUFFICES ASSUME NEW s \in pinCopied PROVE MayDiffer(s)'
      OBVIOUS
    <3>1. CASE s \in S
      BY <1>1, <3>1 DEF MayDiffer
    <3>2. CASE s \notin S
      BY <1>0, <1>18, <3>2, LightTypes DEF LitAsNoted
    <3> QED
      BY <3>1, <3>2
  <2> QED
    BY <1>1, <2>1, <2>2 DEF LitAsNoted
<1> QED
  BY <1>14, <1>15, <1>16, <1>19 DEF LightInv

(* The animation lights and darkens lamps that may differ.                 *)
LEMMA AnimationKeeps ==
  ASSUME LightInv, UNCHANGED <<driver, state, pinUser, animated, up, pinSets, pinCrossed,
         pinOvertaken>>,
         lit' \subseteq Lights, pinCopied' \subseteq Lights,
         \A s \in Lights : MayDiffer(s) \/ (s \in lit' <=> s \in lit),
         \A s \in pinCopied' : MayDiffer(s),
         driver = "pins" => pinCopied' = {}
  PROVE  LightInv'
<1>0. Pins!TypeOK /\ PinsAtOnce /\ NotedLast /\ LitAsNoted
  BY DEF LightInv
<1>1. \A u \in Users, s \in Lights : ToShow(u, s)' <=> ToShow(u, s)
  BY DEF ToShow
<1>2. \A s \in Lights : MayDiffer(s)' <=> MayDiffer(s)
  BY <1>1 DEF MayDiffer
<1>3. Pins!TypeOK' /\ PinsAtOnce'
  BY <1>0 DEF Pins!TypeOK, PinsAtOnce
<1>4. NotedLast'
  BY <1>0, <1>1 DEF NotedLast
<1>5. LitAsNoted'
  BY <1>0, <1>2 DEF LitAsNoted
<1> QED
  BY <1>3, <1>4, <1>5 DEF LightInv

LEMMA LightStep == LightInv /\ [Pins!Next]_(Pins!lightVars) => LightInv'
<1> SUFFICES ASSUME LightInv, [Pins!Next]_(Pins!lightVars) PROVE LightInv'
  OBVIOUS
<1>0. Pins!TypeOK /\ PinsAtOnce /\ NotedLast /\ LitAsNoted
  BY DEF LightInv
<1>1. CASE UNCHANGED Pins!lightVars
  BY <1>0, <1>1, AnimationKeeps, LightTypes DEF Pins!lightVars, LitAsNoted, PinsAtOnce
<1>2. ASSUME NEW u \in Users, NEW s \in Lights, NEW c \in {"solid", "blink", "off"},
             Pins!SetSlot(u, s, c)
      PROVE  LightInv'
  BY <1>2, SetKeeps
<1>3. ASSUME NEW u \in Users, Pins!ClearAll(u)
      PROVE  LightInv'
  <2>1. pinUser[u] = Pins!Resting /\ pinSets' \in 0 .. MaxSets
    BY <1>0, <1>3, LightTypes DEF Pins!ClearAll
  <2> QED
    BY <1>3, <2>1, ClearKeeps DEF Pins!ClearAll
<1>4. ASSUME NEW u \in Users, Pins!ShutdownClears(u)
      PROVE  LightInv'
  <2>1. pinUser[u].pc = "joining" /\ pinSets' \in 0 .. MaxSets
    BY <1>0, <1>4, LightTypes DEF Pins!ShutdownClears
  <2> QED
    BY <1>4, <2>1, ClearKeeps DEF Pins!ShutdownClears
<1>5. ASSUME NEW u \in Users, Pins!Shutdown(u)
      PROVE  LightInv'
  <2> DEFINE c == [Pins!Resting EXCEPT !.pc = "joining"]
  <2>1. /\ pinUser[u] = Pins!Resting /\ pinUser' = [pinUser EXCEPT ![u].pc = "joining"]
        /\ animated' = FALSE
        /\ UNCHANGED <<driver, state, lit, pinCopied, up, pinSets, pinCrossed, pinOvertaken>>
    BY <1>5 DEF Pins!Shutdown
  <2>2. pinUser' = [pinUser EXCEPT ![u] = c]
    BY <1>0, <2>1, LightTypes
  <2>3. c \in [pc : {"idle", "joining", "closing"}, slot : Lights \cup {AllSlots},
      on : BOOLEAN] /\ c.pc = "joining"
    BY DEF Pins!Resting
  <2>4. pinUser[u].pc = "idle"
    BY <2>1 DEF Pins!Resting
  <2>6. up' \in BOOLEAN /\ animated' \in BOOLEAN
    BY <1>0, <2>1, LightTypes
  <2> HIDE DEF c
  <2>5. c.pc = "idle" => c = Pins!Resting
    BY <2>3
  <2> QED
    BY <2>1, <2>2, <2>3, <2>4, <2>5, <2>6, UserGoesOn
<1>6. ASSUME NEW u \in Users, Pins!Close(u)
      PROVE  LightInv'
  <2>1. /\ pinUser[u].pc = "closing" /\ pinUser' = [pinUser EXCEPT ![u] = Pins!Resting]
        /\ up' = FALSE
        /\ UNCHANGED <<driver, state, lit, pinCopied, animated, pinSets, pinCrossed, pinOvertaken>>
    BY <1>6 DEF Pins!Close
  <2>2. Pins!Resting \in [pc : {"idle", "joining", "closing"}, slot : Lights \cup {AllSlots},
      on : BOOLEAN]
    BY DEF Pins!Resting
  <2>3. animated' \in BOOLEAN /\ up' \in BOOLEAN
    BY <1>0, <2>1, LightTypes
  <2> QED
    BY <2>1, <2>2, <2>3, UserGoesOn
<1>7. ASSUME NEW u \in Users, Pins!Write(u)
      PROVE  LightInv'
  BY <1>7, WriteKeeps
<1>8. CASE Pins!CallIgnored
  BY <1>1, <1>8 DEF Pins!CallIgnored
<1>9. CASE Pins!PassOverPins
  <2>1. PICK on \in SUBSET Pins!Blinking : lit' = (lit \ Pins!Blinking) \cup on
    BY <1>9 DEF Pins!PassOverPins
  <2>2. /\ driver = "pins"
        /\ UNCHANGED <<driver, state, pinUser, pinCopied, animated, up, pinSets, pinCrossed,
                   pinOvertaken>>
    BY <1>9 DEF Pins!PassOverPins
  <2>3. \A s \in Pins!Blinking : s \in Lights /\ MayDiffer(s)
    BY DEF Pins!Blinking, MayDiffer
  <2>4. lit' \subseteq Lights /\ pinCopied' = {}
    BY <1>0, <2>1, <2>2, <2>3, LightTypes DEF PinsAtOnce
  <2>5. \A s \in Lights : MayDiffer(s) \/ (s \in lit' <=> s \in lit)
    BY <2>1, <2>3
  <2> QED
    BY <2>2, <2>4, <2>5, AnimationKeeps
<1>10. CASE Pins!BeginPass
  <2>1. /\ driver = "strip" /\ pinCopied' = Pins!Blinking
        /\ UNCHANGED <<driver, state, lit, pinUser, animated, up, pinSets, pinCrossed,
                   pinOvertaken>>
    BY <1>10 DEF Pins!BeginPass
  <2>2. \A s \in Pins!Blinking : s \in Lights /\ MayDiffer(s)
    BY DEF Pins!Blinking, MayDiffer
  <2> QED
    BY <1>0, <2>1, <2>2, AnimationKeeps, LightTypes
<1>11. ASSUME NEW s \in Lights, Pins!Blink(s)
       PROVE  LightInv'
  <2>1. /\ s \in pinCopied /\ pinCopied' = pinCopied \ {s}
        /\ UNCHANGED <<driver, state, pinUser, animated, up, pinSets, pinCrossed, pinOvertaken>>
    BY <1>11 DEF Pins!Blink
  <2>2. lit' = lit \cup {s} \/ lit' = lit \ {s}
    BY <1>11 DEF Pins!Blink, Pins!Light
  <2>3. lit' \subseteq Lights /\ pinCopied' \subseteq Lights
    BY <1>0, <2>1, <2>2, LightTypes
  <2>4. \A t \in Lights : MayDiffer(t) \/ (t \in lit' <=> t \in lit)
    BY <1>0, <2>1, <2>2 DEF LitAsNoted
  <2>5. \A t \in pinCopied' : MayDiffer(t)
    BY <1>0, <2>1 DEF LitAsNoted
  <2>6. driver = "pins" => pinCopied' = {}
    BY <1>0, <2>1 DEF PinsAtOnce
  <2> QED
    BY <2>1, <2>3, <2>4, <2>5, <2>6, AnimationKeeps
<1> QED
  BY <1>1, <1>2, <1>3, <1>4, <1>5, <1>6, <1>7, <1>8, <1>9, <1>10, <1>11
     DEF Pins!Next, Pins!UserStep

LEMMA LightsShow == LightInv => Pins!LightsShowState
<1> SUFFICES ASSUME LightInv, driver # "strip" \/ \A u \in Users : pinUser[u] = Pins!Resting,
                    NEW s \in Lights
             PROVE  \/ state[s] = "blink" \/ s \in pinCrossed \/ s \in pinOvertaken
                    \/ s \in lit <=> state[s] = "solid"
  BY DEF Pins!LightsShowState
<1>0. Pins!TypeOK /\ PinsAtOnce /\ LitAsNoted
  BY DEF LightInv
<1>1. \A u \in Users : ~ToShow(u, s)
  <2>1. CASE driver # "strip"
    <3>1. driver = "pins"
      BY <1>0, <2>1, LightTypes
    <3> QED
      BY <1>0, <3>1 DEF PinsAtOnce, ToShow
  <2>2. CASE \A u \in Users : pinUser[u] = Pins!Resting
    BY <2>2 DEF ToShow, Pins!Resting
  <2> QED
    BY <2>1, <2>2
<1> QED
  BY <1>0, <1>1 DEF LitAsNoted, MayDiffer

HIDE LightConstants DEF driver, state, lit, pinUser, pinCopied, animated, up, pinSets, pinCrossed,
    pinOvertaken, Pins!LightAssumption

LEMMA LightInvariant == CabinetSpec => [](focus = "lights" => LightInv)
<1>1. CabinetInit => (focus = "lights" => LightInv)
  BY LightInit DEF CabinetInit
<1>2. (focus = "lights" => LightInv) /\ [CabinetNext]_cells => (focus = "lights" => LightInv)'
  <2>1. [CabinetNext]_cells /\ focus = "lights" => [Pins!Next]_(Pins!lightVars)
    BY DEF CabinetNext, cells, Pins!lightVars
  <2> QED
    BY <2>1, LightStep, FocusStays
<1> QED
  BY <1>1, <1>2, PTL DEF CabinetSpec

-----------------------------------------------------------------------------
(* The buzzer.  The cells by the names that Sounds gives them; one that was *)
(* taken has the word sound before it.                                     *)
flag == c1
current == c2
tune == c3
alarms == c4
sounding == c5
soundUp == c6
soundCall == c7
plays == c8
want == c9
soundCrossed == c10

USE SoundConstants DEF flag, current, tune, alarms, sounding, soundUp, soundCall, plays, want,
    soundCrossed, Buzzer!SoundAssumption

Busy(p) == soundCall[p].pc # "idle"

(* Every call knows what it is about.                                      *)
CallsKnown ==
  \A p \in Users :
    /\ soundCall[p].pc = "cleared" => soundCall[p].op \in {"alarm", "beep"}
    /\ soundCall[p].pc = "idle" => soundCall[p] = Buzzer!Idle

(* As long as no two calls have crossed there is one at most, and nothing  *)
(* is left of what played before it once that was waited for.              *)
OneCall ==
  /\ \A p, q \in Users : Busy(p) /\ Busy(q) => p = q
  /\ Buzzer!Live \subseteq {current}
  /\ \A p \in Users :
       /\ Busy(p) => want = soundCall[p].op
       /\ soundCall[p].pc \in {"flagged", "joining", "hushed"} => flag
       /\ soundCall[p].pc = "joining" => soundCall[p].joined = current
       /\ soundCall[p].pc \in {"hushed", "cleared"} => Buzzer!Live = {}
  /\ (\A p \in Users : ~Busy(p)) /\ want \in {"stop", "shutdown"} => Buzzer!Live = {}

(* An alarm that was called last is about to be played, or goes on.        *)
Going(t) == t \in alarms /\ tune[t] \in {"check", "tone"} /\ ~flag
Calling(p) == soundCall[p].op = "alarm" /\ soundCall[p].pc \in {"flagged", "joining", "hushed"}
Starting(p) == soundCall[p].op = "alarm" /\ soundCall[p].pc = "cleared" /\ ~flag
AlarmGoes ==
  want = "alarm"
      => (\E p \in Users : Calling(p) \/ Starting(p)) \/ \E t \in Buzzer!Tunes : Going(t)

SoundInv == /\ Buzzer!TypeOK /\ CallsKnown /\ AlarmGoes
            /\ sounding => Buzzer!Live # {}
            /\ ~soundCrossed => OneCall

LEMMA SoundTypes ==
  ASSUME Buzzer!TypeOK
  PROVE  /\ flag \in BOOLEAN /\ sounding \in BOOLEAN /\ soundUp \in BOOLEAN
         /\ soundCrossed \in BOOLEAN
         /\ current \in 0 .. MaxPlays /\ plays \in 0 .. MaxPlays /\ alarms \subseteq Buzzer!Tunes
         /\ tune \in [Buzzer!Tunes -> {"none", "check", "tone", "last", "ended"}]
         /\ soundCall \in [Users -> [pc : {"idle", "flagged", "joining", "hushed", "cleared"},
                                  op : Buzzer!Ops, joined : 0 .. MaxPlays]]
         /\ want \in Buzzer!Ops
BY DEF Buzzer!TypeOK

LEMMA SoundInit == Buzzer!Init => SoundInv
<1> SUFFICES ASSUME Buzzer!Init PROVE SoundInv
  OBVIOUS
<1>1. /\ tune = [t \in Buzzer!Tunes |-> "none"] /\ soundCall = [p \in Users |-> Buzzer!Idle]
      /\ flag = FALSE
      /\ current = 0 /\ alarms = {} /\ sounding = FALSE /\ soundUp = TRUE /\ plays = 0
      /\ want = "stop" /\ soundCrossed = FALSE
  BY DEF Buzzer!Init
<1>2. Buzzer!TypeOK
  <2>1. 0 \in 0 .. MaxPlays
    OBVIOUS
  <2>2. Buzzer!Idle \in [pc : {"idle", "flagged", "joining", "hushed", "cleared"},
                  op : Buzzer!Ops, joined : 0 .. MaxPlays]
    BY <2>1 DEF Buzzer!Idle, Buzzer!Ops
  <2>3. /\ tune \in [Buzzer!Tunes -> {"none", "check", "tone", "last", "ended"}]
        /\ soundCall \in [Users -> [pc : {"idle", "flagged", "joining", "hushed", "cleared"},
                                 op : Buzzer!Ops, joined : 0 .. MaxPlays]]
    BY <1>1, <2>2
  <2> QED
    BY <1>1, <2>1, <2>3 DEF Buzzer!TypeOK, Buzzer!Ops
<1>3. \A p \in Users : soundCall[p] = Buzzer!Idle /\ soundCall[p].pc = "idle"
  BY <1>1 DEF Buzzer!Idle
<1>4. Buzzer!Live = {}
  BY <1>1 DEF Buzzer!Live
<1>5. CallsKnown /\ AlarmGoes
  BY <1>1, <1>3 DEF CallsKnown, AlarmGoes
<1>6. OneCall
  BY <1>1, <1>3, <1>4 DEF OneCall, Busy
<1> QED
  BY <1>1, <1>2, <1>5, <1>6 DEF SoundInv

(* One player goes on.                                                     *)
LEMMA PlayerTypes ==
  ASSUME Buzzer!TypeOK, NEW p \in Users,
         NEW c \in [pc : {"idle", "flagged", "joining", "hushed", "cleared"}, op : Buzzer!Ops,
             joined : 0 .. MaxPlays],
         soundCall' = [soundCall EXCEPT ![p] = c]
  PROVE  /\ soundCall'[p] = c /\ \A q \in Users : q # p => soundCall'[q] = soundCall[q]
         /\ soundCall' \in [Users -> [pc : {"idle", "flagged", "joining", "hushed", "cleared"},
                                   op : Buzzer!Ops, joined : 0 .. MaxPlays]]
BY SoundTypes

LEMMA CallKeeps == ASSUME SoundInv, NEW p \in Users, NEW op \in Buzzer!Ops, Buzzer!Call(p,
                          op) PROVE SoundInv'
<1>0. /\ Buzzer!TypeOK /\ CallsKnown /\ AlarmGoes
      /\ sounding => Buzzer!Live # {}
      /\ ~soundCrossed => OneCall
  BY DEF SoundInv
<1> DEFINE c == [pc |-> "flagged", op |-> op, joined |-> 0]
<1>1. /\ soundCall[p].pc = "idle" /\ flag' = TRUE /\ soundCall' = [soundCall EXCEPT ![p] = c]
      /\ want' = op
      /\ UNCHANGED <<current, tune, alarms, sounding, soundUp>>
      /\ soundCrossed' = (soundCrossed \/ \E q \in Users : soundCall[q].pc # "idle")
  BY DEF Buzzer!Call
<1>2. plays' \in 0 .. MaxPlays
  <2>1. CASE op \in {"alarm", "beep"}
    <3>1. plays < MaxPlays /\ plays' = plays + 1
      BY <2>1 DEF Buzzer!Call
    <3> QED
      BY <1>0, <3>1, SoundTypes
  <2>2. CASE op \notin {"alarm", "beep"}
    <3>1. plays' = plays
      BY <2>2 DEF Buzzer!Call
    <3> QED
      BY <1>0, <3>1, SoundTypes
  <2> QED
    BY <2>1, <2>2
<1>3. c \in [pc : {"idle", "flagged", "joining", "hushed", "cleared"}, op : Buzzer!Ops,
    joined : 0 .. MaxPlays]
  OBVIOUS
<1>4. c.pc = "flagged" /\ c.op = op
  OBVIOUS
<1> HIDE DEF c
<1>5. /\ soundCall'[p] = c /\ \A q \in Users : q # p => soundCall'[q] = soundCall[q]
      /\ soundCall' \in [Users -> [pc : {"idle", "flagged", "joining", "hushed", "cleared"},
                                op : Buzzer!Ops, joined : 0 .. MaxPlays]]
  BY <1>0, <1>1, <1>3, PlayerTypes
<1>6. soundCrossed' \in BOOLEAN /\ (~soundCrossed' => ~soundCrossed /\ \A q \in Users : ~Busy(q))
  <2>1. CASE soundCrossed
    BY <1>1, <2>1
  <2>2. CASE ~soundCrossed /\ \E q \in Users : soundCall[q].pc # "idle"
    BY <1>1, <2>2
  <2>3. CASE ~soundCrossed /\ ~\E q \in Users : soundCall[q].pc # "idle"
    BY <1>1, <2>3 DEF Busy
  <2> QED
    BY <2>1, <2>2, <2>3
<1>7. Buzzer!TypeOK'
  BY <1>0, <1>1, <1>2, <1>5, <1>6, SoundTypes DEF Buzzer!TypeOK, Buzzer!Tunes
<1>8. CallsKnown'
  BY <1>0, <1>4, <1>5 DEF CallsKnown
<1>9. AlarmGoes'
  BY <1>1, <1>4, <1>5 DEF AlarmGoes, Calling
<1>10. Buzzer!Live' = Buzzer!Live
  BY <1>1 DEF Buzzer!Live, Buzzer!Tunes
<1>11. ~soundCrossed' => OneCall'
  BY <1>0, <1>1, <1>4, <1>5, <1>6, <1>10 DEF OneCall, Busy
<1> QED
  BY <1>0, <1>1, <1>7, <1>8, <1>9, <1>10, <1>11 DEF SoundInv

LEMMA JoinKeeps == ASSUME SoundInv, NEW p \in Users, Buzzer!BeginJoin(p) PROVE SoundInv'
<1>0. /\ Buzzer!TypeOK /\ CallsKnown /\ AlarmGoes
      /\ sounding => Buzzer!Live # {}
      /\ ~soundCrossed => OneCall
  BY DEF SoundInv
<1> DEFINE c == [soundCall[p] EXCEPT !.pc = "joining", !.joined = current]
<1>1. /\ soundCall[p].pc = "flagged"
      /\ soundCall' = [soundCall EXCEPT ![p].pc = "joining", ![p].joined = current]
      /\ UNCHANGED <<flag, current, tune, alarms, sounding, soundUp, plays, want, soundCrossed>>
  BY DEF Buzzer!BeginJoin
<1>2. soundCall' = [soundCall EXCEPT ![p] = c]
  BY <1>0, <1>1, SoundTypes
<1>3. /\ c \in [pc : {"idle", "flagged", "joining", "hushed", "cleared"}, op : Buzzer!Ops,
           joined : 0 .. MaxPlays]
      /\ c.pc = "joining" /\ c.op = soundCall[p].op /\ c.joined = current
  BY <1>0, SoundTypes
<1> HIDE DEF c
<1>5. /\ soundCall'[p] = c /\ \A q \in Users : q # p => soundCall'[q] = soundCall[q]
      /\ soundCall' \in [Users -> [pc : {"idle", "flagged", "joining", "hushed", "cleared"},
                                op : Buzzer!Ops, joined : 0 .. MaxPlays]]
  BY <1>0, <1>2, <1>3, PlayerTypes
<1>7. Buzzer!TypeOK'
  BY <1>0, <1>1, <1>5, SoundTypes DEF Buzzer!TypeOK, Buzzer!Tunes
<1>8. CallsKnown'
  BY <1>0, <1>3, <1>5 DEF CallsKnown
<1>9. AlarmGoes'
  <2>1. \A q \in Users : Calling(q) \/ Starting(q) => Calling(q)' \/ Starting(q)'
    BY <1>1, <1>3, <1>5 DEF Calling, Starting
  <2>2. \A t \in Buzzer!Tunes : Going(t) => Going(t)'
    BY <1>1 DEF Going
  <2> QED
    BY <1>0, <1>1, <2>1, <2>2 DEF AlarmGoes, Buzzer!Tunes
<1>10. Buzzer!Live' = Buzzer!Live
  BY <1>1 DEF Buzzer!Live, Buzzer!Tunes
<1>11. ~soundCrossed' => OneCall'
  BY <1>0, <1>1, <1>3, <1>5, <1>10 DEF OneCall, Busy
<1> QED
  BY <1>0, <1>1, <1>7, <1>8, <1>9, <1>10, <1>11 DEF SoundInv

LEMMA HushKeeps == ASSUME SoundInv, NEW p \in Users, Buzzer!Hush(p) PROVE SoundInv'
<1>0. Buzzer!TypeOK /\ CallsKnown /\ AlarmGoes /\ (~soundCrossed => OneCall)
  BY DEF SoundInv
<1> DEFINE c == [soundCall[p] EXCEPT !.pc = "hushed"]
<1>1. /\ soundCall[p].pc = "joining" /\ (soundCall[p].joined \notin Buzzer!Live \/ ~flag)
      /\ sounding' = FALSE
      /\ soundCall' = [soundCall EXCEPT ![p].pc = "hushed"]
      /\ UNCHANGED <<flag, current, tune, alarms, soundUp, plays, want, soundCrossed>>
  BY DEF Buzzer!Hush, Buzzer!Joined
<1>2. soundCall' = [soundCall EXCEPT ![p] = c]
  BY <1>0, <1>1, SoundTypes
<1>3. /\ c \in [pc : {"idle", "flagged", "joining", "hushed", "cleared"}, op : Buzzer!Ops,
           joined : 0 .. MaxPlays]
      /\ c.pc = "hushed" /\ c.op = soundCall[p].op
  BY <1>0, SoundTypes
<1> HIDE DEF c
<1>5. /\ soundCall'[p] = c /\ \A q \in Users : q # p => soundCall'[q] = soundCall[q]
      /\ soundCall' \in [Users -> [pc : {"idle", "flagged", "joining", "hushed", "cleared"},
                                op : Buzzer!Ops, joined : 0 .. MaxPlays]]
  BY <1>0, <1>2, <1>3, PlayerTypes
<1>7. Buzzer!TypeOK'
  BY <1>0, <1>1, <1>5, SoundTypes DEF Buzzer!TypeOK, Buzzer!Tunes
<1>8. CallsKnown'
  BY <1>0, <1>3, <1>5 DEF CallsKnown
<1>9. AlarmGoes'
  <2>1. \A q \in Users : Calling(q) \/ Starting(q) => Calling(q)' \/ Starting(q)'
    BY <1>1, <1>3, <1>5 DEF Calling, Starting
  <2>2. \A t \in Buzzer!Tunes : Going(t) => Going(t)'
    BY <1>1 DEF Going
  <2> QED
    BY <1>0, <1>1, <2>1, <2>2 DEF AlarmGoes, Buzzer!Tunes
<1>10. Buzzer!Live' = Buzzer!Live
  BY <1>1 DEF Buzzer!Live, Buzzer!Tunes
<1>11. ~soundCrossed => Buzzer!Live = {}
  BY <1>0, <1>1 DEF OneCall
<1>12. ~soundCrossed' => OneCall'
  BY <1>0, <1>1, <1>3, <1>5, <1>10, <1>11 DEF OneCall, Busy
<1> QED
  BY <1>1, <1>7, <1>8, <1>9, <1>12 DEF SoundInv

LEMMA ReturnKeeps == ASSUME SoundInv, NEW p \in Users, Buzzer!Return(p) PROVE SoundInv'
<1>0. /\ Buzzer!TypeOK /\ CallsKnown /\ AlarmGoes
      /\ sounding => Buzzer!Live # {}
      /\ ~soundCrossed => OneCall
  BY DEF SoundInv
<1>1. /\ soundCall[p].pc = "hushed" /\ soundCall[p].op \in {"stop", "shutdown"}
      /\ soundCall' = [soundCall EXCEPT ![p] = Buzzer!Idle]
      /\ soundUp' = (soundUp /\ soundCall[p].op = "stop")
      /\ UNCHANGED <<flag, current, tune, alarms, sounding, plays, want>>
      /\ soundCrossed' = (soundCrossed /\ (Buzzer!Live # {}
                 \/ \E q \in Users \ {p} : soundCall[q].pc # "idle"))
  BY DEF Buzzer!Return
<1>3. /\ Buzzer!Idle \in [pc : {"idle", "flagged", "joining", "hushed", "cleared"},
           op : Buzzer!Ops, joined : 0 .. MaxPlays]
      /\ Buzzer!Idle.pc = "idle"
  BY DEF Buzzer!Idle, Buzzer!Ops
<1>5. /\ soundCall'[p] = Buzzer!Idle /\ \A q \in Users : q # p => soundCall'[q] = soundCall[q]
      /\ soundCall' \in [Users -> [pc : {"idle", "flagged", "joining", "hushed", "cleared"},
                                op : Buzzer!Ops, joined : 0 .. MaxPlays]]
  BY <1>0, <1>1, <1>3, PlayerTypes
<1>6. soundUp' \in BOOLEAN
  <2>1. CASE soundUp /\ soundCall[p].op = "stop"
    BY <1>1, <2>1
  <2>2. CASE ~(soundUp /\ soundCall[p].op = "stop")
    BY <1>1, <2>2
  <2> QED
    BY <2>1, <2>2
<1>7. soundCrossed' \in BOOLEAN
      /\ (~soundCrossed' => ~soundCrossed
                 \/ (Buzzer!Live = {} /\ \A q \in Users : q # p => ~Busy(q)))
  <2>1. CASE ~soundCrossed
    BY <1>1, <2>1
  <2>2. CASE soundCrossed /\ (Buzzer!Live # {} \/ \E q \in Users \ {p} : soundCall[q].pc # "idle")
    BY <1>1, <2>2
  <2>3. CASE soundCrossed /\ ~(Buzzer!Live # {} \/ \E q \in Users \ {p} : soundCall[q].pc # "idle")
    BY <1>1, <2>3 DEF Busy
  <2> QED
    BY <2>1, <2>2, <2>3
<1>8. Buzzer!TypeOK'
  BY <1>0, <1>1, <1>5, <1>6, <1>7, SoundTypes DEF Buzzer!TypeOK, Buzzer!Tunes
<1>9. CallsKnown'
  BY <1>0, <1>3, <1>5 DEF CallsKnown
<1>10. AlarmGoes'
  <2>1. \A q \in Users : Calling(q) \/ Starting(q) => Calling(q)' \/ Starting(q)'
    BY <1>1, <1>5 DEF Calling, Starting
  <2>2. \A t \in Buzzer!Tunes : Going(t) => Going(t)'
    BY <1>1 DEF Going
  <2> QED
    BY <1>0, <1>1, <2>1, <2>2 DEF AlarmGoes, Buzzer!Tunes
<1>11. Buzzer!Live' = Buzzer!Live
  BY <1>1 DEF Buzzer!Live, Buzzer!Tunes
<1>12. ~Busy(p)' /\ \A q \in Users : q # p => (Busy(q)' <=> Busy(q))
  BY <1>3, <1>5 DEF Busy
<1>13. ~soundCrossed' => OneCall'
  <2>1. CASE ~soundCrossed
    <3>1. Buzzer!Live = {} /\ \A q \in Users : q # p => ~Busy(q)
      BY <1>0, <1>1, <2>1 DEF OneCall, Busy
    <3> QED
      BY <1>11, <1>12, <3>1 DEF OneCall, Busy
  <2>2. CASE soundCrossed
    BY <1>7, <1>11, <1>12, <2>2 DEF OneCall, Busy
  <2> QED
    BY <2>1, <2>2
<1> QED
  BY <1>0, <1>1, <1>8, <1>9, <1>10, <1>11, <1>13 DEF SoundInv

LEMMA ClearKeepsSound == ASSUME SoundInv, NEW p \in Users, Buzzer!ClearFlag(p) PROVE SoundInv'
<1>0. /\ Buzzer!TypeOK /\ CallsKnown /\ AlarmGoes
      /\ sounding => Buzzer!Live # {}
      /\ ~soundCrossed => OneCall
  BY DEF SoundInv
<1> DEFINE c == [soundCall[p] EXCEPT !.pc = "cleared"]
<1>1. /\ soundCall[p].pc = "hushed" /\ soundCall[p].op \in {"alarm", "beep"} /\ flag' = FALSE
      /\ soundCall' = [soundCall EXCEPT ![p].pc = "cleared"]
      /\ UNCHANGED <<current, tune, alarms, sounding, soundUp, plays, want, soundCrossed>>
  BY DEF Buzzer!ClearFlag
<1>2. soundCall' = [soundCall EXCEPT ![p] = c]
  BY <1>0, <1>1, SoundTypes
<1>3. /\ c \in [pc : {"idle", "flagged", "joining", "hushed", "cleared"}, op : Buzzer!Ops,
           joined : 0 .. MaxPlays]
      /\ c.pc = "cleared" /\ c.op = soundCall[p].op
  BY <1>0, SoundTypes
<1> HIDE DEF c
<1>5. /\ soundCall'[p] = c /\ \A q \in Users : q # p => soundCall'[q] = soundCall[q]
      /\ soundCall' \in [Users -> [pc : {"idle", "flagged", "joining", "hushed", "cleared"},
                                op : Buzzer!Ops, joined : 0 .. MaxPlays]]
  BY <1>0, <1>2, <1>3, PlayerTypes
<1>7. Buzzer!TypeOK'
  BY <1>0, <1>1, <1>5, SoundTypes DEF Buzzer!TypeOK, Buzzer!Tunes
<1>8. CallsKnown'
  BY <1>0, <1>1, <1>3, <1>5 DEF CallsKnown
<1>9. AlarmGoes'
  <2>1. \A q \in Users : Calling(q) \/ Starting(q) => Calling(q)' \/ Starting(q)'
    BY <1>1, <1>3, <1>5 DEF Calling, Starting
  <2>2. \A t \in Buzzer!Tunes : Going(t) => Going(t)'
    BY <1>1 DEF Going
  <2> QED
    BY <1>0, <1>1, <2>1, <2>2 DEF AlarmGoes, Buzzer!Tunes
<1>10. Buzzer!Live' = Buzzer!Live
  BY <1>1 DEF Buzzer!Live, Buzzer!Tunes
<1>11. ~soundCrossed' => OneCall'
  <2> SUFFICES ASSUME ~soundCrossed' PROVE OneCall'
    OBVIOUS
  <2>1. OneCall /\ Busy(p) /\ Buzzer!Live = {}
    BY <1>0, <1>1 DEF OneCall, Busy
  <2>2. \A q \in Users : q # p => ~Busy(q) /\ ~Busy(q)'
    BY <1>5, <2>1 DEF OneCall, Busy
  <2>3. want' = soundCall'[p].op /\ Busy(p)'
    BY <1>1, <1>3, <1>5, <2>1 DEF OneCall, Busy
  <2> QED
    BY <1>3, <1>5, <1>10, <2>1, <2>2, <2>3 DEF OneCall, Busy
<1> QED
  BY <1>0, <1>1, <1>7, <1>8, <1>9, <1>10, <1>11 DEF SoundInv

LEMMA BeginKeeps == ASSUME SoundInv, NEW p \in Users, Buzzer!Begin(p) PROVE SoundInv'
<1>0. /\ Buzzer!TypeOK /\ CallsKnown /\ AlarmGoes
      /\ sounding => Buzzer!Live # {}
      /\ ~soundCrossed => OneCall
  BY DEF SoundInv
<1>1. /\ soundCall[p].pc = "cleared" /\ soundCall' = [soundCall EXCEPT ![p] = Buzzer!Idle]
      /\ UNCHANGED <<flag, sounding, soundUp, plays, want, soundCrossed>>
  BY DEF Buzzer!Begin
<1>2. PICK t \in Buzzer!Tunes : /\ tune[t] = "none" /\ current' = t
      /\ tune' = [tune EXCEPT ![t] = "check"]
                         /\ alarms' = IF soundCall[p].op = "alarm" THEN alarms \cup {t} ELSE alarms
  BY DEF Buzzer!Begin
<1>3. /\ Buzzer!Idle \in [pc : {"idle", "flagged", "joining", "hushed", "cleared"},
           op : Buzzer!Ops, joined : 0 .. MaxPlays]
      /\ Buzzer!Idle.pc = "idle"
  BY DEF Buzzer!Idle, Buzzer!Ops
<1>5. /\ soundCall'[p] = Buzzer!Idle /\ \A q \in Users : q # p => soundCall'[q] = soundCall[q]
      /\ soundCall' \in [Users -> [pc : {"idle", "flagged", "joining", "hushed", "cleared"},
                                op : Buzzer!Ops, joined : 0 .. MaxPlays]]
  BY <1>0, <1>1, <1>3, PlayerTypes
<1>6. tune' \in [Buzzer!Tunes -> {"none", "check", "tone", "last", "ended"}]
      /\ alarms' \subseteq Buzzer!Tunes
  BY <1>0, <1>2, SoundTypes
<1>7. current' \in 0 .. MaxPlays
  BY <1>2 DEF Buzzer!Tunes
<1>8. Buzzer!TypeOK'
  BY <1>0, <1>1, <1>5, <1>6, <1>7, SoundTypes DEF Buzzer!TypeOK, Buzzer!Tunes
<1>9. CallsKnown'
  BY <1>0, <1>3, <1>5 DEF CallsKnown
<1>10. tune'[t] = "check" /\ (\A s \in Buzzer!Tunes : s # t => tune'[s] = tune[s])
      /\ alarms \subseteq alarms'
  BY <1>0, <1>2, SoundTypes
<1>11. AlarmGoes'
  <2> SUFFICES ASSUME want' = "alarm"
               PROVE  (\E q \in Users : Calling(q)' \/ Starting(q)')
                          \/ \E s \in Buzzer!Tunes : Going(s)'
    BY DEF AlarmGoes, Buzzer!Tunes
  <2>1. want = "alarm"
    BY <1>1
  <2>2. CASE \E q \in Users : q # p /\ (Calling(q) \/ Starting(q))
    <3>1. \A q \in Users : q # p /\ (Calling(q) \/ Starting(q)) => Calling(q)' \/ Starting(q)'
      BY <1>1, <1>5 DEF Calling, Starting
    <3> QED
      BY <2>2, <3>1
  <2>3. CASE Calling(p) \/ Starting(p)
    <3>1. soundCall[p].op = "alarm" /\ ~flag
      BY <1>1, <2>3 DEF Calling, Starting
    <3>2. t \in alarms' /\ tune'[t] = "check" /\ ~flag'
      BY <1>1, <1>2, <1>10, <3>1
    <3> QED
      BY <3>2 DEF Going
  <2>4. CASE \E s \in Buzzer!Tunes : Going(s)
    <3>1. PICK s \in Buzzer!Tunes : Going(s)
      BY <2>4
    <3>2. s # t
      BY <1>2, <3>1 DEF Going
    <3>3. Going(s)'
      BY <1>1, <1>10, <3>1, <3>2 DEF Going
    <3> QED
      BY <3>3
  <2> QED
    BY <1>0, <2>1, <2>2, <2>3, <2>4 DEF AlarmGoes
<1>12. Buzzer!Live' = Buzzer!Live \cup {t}
  BY <1>2, <1>10 DEF Buzzer!Live, Buzzer!Tunes
<1>13. ~Busy(p)' /\ \A q \in Users : q # p => (Busy(q)' <=> Busy(q))
  BY <1>3, <1>5 DEF Busy
<1>14. ~soundCrossed' => OneCall'
  <2> SUFFICES ASSUME ~soundCrossed' PROVE OneCall'
    OBVIOUS
  <2>1. OneCall /\ Busy(p) /\ Buzzer!Live = {} /\ want = soundCall[p].op
        /\ want \in {"alarm", "beep"}
    BY <1>0, <1>1 DEF OneCall, Busy, CallsKnown
  <2>2. \A q \in Users : ~Busy(q)'
    BY <1>13, <2>1 DEF OneCall
  <2>3. Buzzer!Live' = {t} /\ want' \notin {"stop", "shutdown"}
    BY <1>1, <1>12, <2>1
  <2> QED
    BY <1>2, <2>2, <2>3 DEF OneCall, Busy
<1> QED
  BY <1>0, <1>1, <1>8, <1>9, <1>11, <1>12, <1>14 DEF SoundInv

(* A tune goes on: it may end, but no tune begins.                         *)
LEMMA TuneGoesOn ==
  ASSUME SoundInv, NEW t \in Buzzer!Tunes, tune[t] \in {"check", "tone", "last"},
         NEW to \in {"check", "tone", "last", "ended"}, tune' = [tune EXCEPT ![t] = to],
         t \in alarms /\ ~flag /\ tune[t] # "last" => to \in {"check", "tone"},
         UNCHANGED <<flag, current, alarms, soundUp, soundCall, plays, want, soundCrossed>>,
         sounding' \in BOOLEAN, sounding' => to # "ended"
  PROVE  SoundInv'
<1>0. Buzzer!TypeOK /\ CallsKnown /\ AlarmGoes /\ (~soundCrossed => OneCall)
  BY DEF SoundInv
<1>1. tune'[t] = to /\ \A s \in Buzzer!Tunes : s # t => tune'[s] = tune[s]
  BY <1>0, SoundTypes
<1>2. tune' \in [Buzzer!Tunes -> {"none", "check", "tone", "last", "ended"}]
  BY <1>0, SoundTypes
<1>3. Buzzer!TypeOK'
  BY <1>0, <1>2, SoundTypes DEF Buzzer!TypeOK, Buzzer!Tunes
<1>4. CallsKnown'
  BY <1>0 DEF CallsKnown
<1>5. AlarmGoes'
  <2>1. \A q \in Users : Calling(q) \/ Starting(q) => Calling(q)' \/ Starting(q)'
    BY DEF Calling, Starting
  <2>2. \A s \in Buzzer!Tunes : Going(s) => Going(s)'
    BY <1>1 DEF Going
  <2> QED
    BY <1>0, <2>1, <2>2 DEF AlarmGoes, Buzzer!Tunes
<1>6. Buzzer!Live' \subseteq Buzzer!Live /\ (to # "ended" => Buzzer!Live' # {})
  BY <1>1 DEF Buzzer!Live, Buzzer!Tunes
<1>7. ~soundCrossed' => OneCall'
  BY <1>0, <1>6 DEF OneCall, Busy
<1> QED
  BY <1>3, <1>4, <1>5, <1>6, <1>7 DEF SoundInv

LEMMA SoundStep == SoundInv /\ [Buzzer!Next]_(Buzzer!soundVars) => SoundInv'
<1> SUFFICES ASSUME SoundInv, [Buzzer!Next]_(Buzzer!soundVars) PROVE SoundInv'
  OBVIOUS
<1>0. /\ Buzzer!TypeOK /\ CallsKnown /\ AlarmGoes
      /\ sounding => Buzzer!Live # {}
      /\ ~soundCrossed => OneCall
  BY DEF SoundInv
<1>1. CASE UNCHANGED Buzzer!soundVars
  <2>1. UNCHANGED <<flag, current, tune, alarms, sounding, soundUp, soundCall, plays, want,
      soundCrossed>>
    BY <1>1 DEF Buzzer!soundVars
  <2>2. Buzzer!TypeOK' /\ CallsKnown' /\ AlarmGoes'
    BY <1>0, <2>1 DEF Buzzer!TypeOK, CallsKnown, AlarmGoes, Calling, Starting, Going, Buzzer!Tunes
  <2>3. Buzzer!Live' = Buzzer!Live
    BY <2>1 DEF Buzzer!Live, Buzzer!Tunes
  <2>4. ~soundCrossed' => OneCall'
    BY <1>0, <2>1, <2>3 DEF OneCall, Busy
  <2> QED
    BY <1>0, <2>1, <2>2, <2>3, <2>4 DEF SoundInv
<1>2. CASE Buzzer!PlayerStep
  <2>1. PICK p \in Users :
          \/ \E op \in Buzzer!Ops : Buzzer!Call(p, op)
          \/ Buzzer!BeginJoin(p) \/ Buzzer!Hush(p) \/ Buzzer!Return(p) \/ Buzzer!ClearFlag(p)
                     \/ Buzzer!Begin(p)
    BY <1>2 DEF Buzzer!PlayerStep
  <2> QED
    BY <2>1, CallKeeps, JoinKeeps, HushKeeps, ReturnKeeps, ClearKeepsSound, BeginKeeps
<1>3. ASSUME NEW t \in Buzzer!Tunes, Buzzer!Tone(t) PROVE SoundInv'
  <2>1. /\ tune[t] = "check" /\ ~flag
        /\ UNCHANGED <<flag, current, alarms, soundUp, soundCall, plays, want, soundCrossed>>
    BY <1>3 DEF Buzzer!Tone
  <2>2. CASE soundUp
    <3>1. sounding' \in BOOLEAN /\ tune' = [tune EXCEPT ![t] = "tone"]
      BY <1>3, <2>2 DEF Buzzer!Tone
    <3> QED
      BY <2>1, <3>1, TuneGoesOn
  <2>3. CASE ~soundUp
    <3> DEFINE to == IF t \in alarms THEN "check" ELSE "last"
    <3>1. sounding' = sounding /\ tune' = [tune EXCEPT ![t] = to]
      BY <1>3, <2>3 DEF Buzzer!Tone
    <3>2. /\ to \in {"check", "tone", "last", "ended"} /\ to # "ended" /\ sounding' \in BOOLEAN
          /\ t \in alarms => to \in {"check", "tone"}
      BY <1>0, <3>1, SoundTypes
    <3> HIDE DEF to
    <3> QED
      BY <2>1, <3>1, <3>2, TuneGoesOn
  <2> QED
    BY <2>2, <2>3
<1>4. ASSUME NEW t \in Buzzer!Tunes, Buzzer!ToneOver(t) PROVE SoundInv'
  <2>1. /\ tune[t] = "tone" /\ tune' = [tune EXCEPT ![t] = "check"]
        /\ UNCHANGED <<flag, current, alarms, sounding, soundUp, soundCall, plays, want,
                   soundCrossed>>
    BY <1>4 DEF Buzzer!ToneOver
  <2>2. sounding' \in BOOLEAN
    BY <1>0, <2>1, SoundTypes
  <2> QED
    BY <2>1, <2>2, TuneGoesOn
<1>5. ASSUME NEW t \in Buzzer!Tunes, Buzzer!TuneOver(t) PROVE SoundInv'
  <2>1. /\ tune[t] = "check" /\ tune' = [tune EXCEPT ![t] = "last"] /\ (flag \/ t \notin alarms)
        /\ UNCHANGED <<flag, current, alarms, sounding, soundUp, soundCall, plays, want,
                   soundCrossed>>
    BY <1>5 DEF Buzzer!TuneOver
  <2>2. sounding' \in BOOLEAN
    BY <1>0, <2>1, SoundTypes
  <2> QED
    BY <2>1, <2>2, TuneGoesOn
<1>6. ASSUME NEW t \in Buzzer!Tunes, Buzzer!FallSilent(t) PROVE SoundInv'
  <2>1. /\ tune[t] = "last" /\ tune' = [tune EXCEPT ![t] = "ended"] /\ sounding' = FALSE
        /\ UNCHANGED <<flag, current, alarms, soundUp, soundCall, plays, want, soundCrossed>>
    BY <1>6 DEF Buzzer!FallSilent
  <2> QED
    BY <2>1, TuneGoesOn
<1> QED
  BY <1>1, <1>2, <1>3, <1>4, <1>5, <1>6 DEF Buzzer!Next, Buzzer!TuneStep

LEMMA SoundShows == SoundInv => Buzzer!SoundIsAsTold
<1> SUFFICES ASSUME SoundInv PROVE Buzzer!SoundIsAsTold
  OBVIOUS
<1>0. /\ Buzzer!TypeOK /\ CallsKnown /\ AlarmGoes
      /\ sounding => Buzzer!Live # {}
      /\ ~soundCrossed => OneCall
  BY DEF SoundInv
<1>1. ASSUME ~soundCrossed, \A p \in Users : soundCall[p] = Buzzer!Idle
      PROVE  /\ want \in {"stop", "shutdown"} => Buzzer!Live = {}
             /\ want = "alarm" => Buzzer!Live # {} /\ current \in alarms /\ ~flag
  <2>0. Buzzer!Idle.pc = "idle"
    BY DEF Buzzer!Idle
  <2>1. \A p \in Users : soundCall[p].pc = "idle"
    BY <1>1, <2>0
  <2>2. OneCall /\ \A p \in Users : ~Busy(p)
    BY <1>0, <1>1, <2>1 DEF Busy
  <2>3. ASSUME want = "alarm" PROVE Buzzer!Live # {} /\ current \in alarms /\ ~flag
    <3>1. PICK t \in Buzzer!Tunes : Going(t)
      BY <1>0, <2>1, <2>3 DEF AlarmGoes, Calling, Starting
    <3>2. t \in Buzzer!Live /\ t \in alarms /\ ~flag
      BY <3>1 DEF Going, Buzzer!Live
    <3> QED
      BY <2>2, <3>2 DEF OneCall
  <2> QED
    BY <2>2, <2>3 DEF OneCall
<1>2. ~soundCrossed => Buzzer!Live \subseteq {current}
  BY <1>0 DEF OneCall
<1> QED
  BY <1>0, <1>1, <1>2 DEF Buzzer!SoundIsAsTold

HIDE SoundConstants DEF flag, current, tune, alarms, sounding, soundUp, soundCall, plays, want,
    soundCrossed, Buzzer!SoundAssumption

LEMMA SoundInvariant == CabinetSpec => [](focus = "sounds" => SoundInv)
<1>1. CabinetInit => (focus = "sounds" => SoundInv)
  BY SoundInit DEF CabinetInit
<1>2. (focus = "sounds" => SoundInv) /\ [CabinetNext]_cells => (focus = "sounds" => SoundInv)'
  <2>1. [CabinetNext]_cells /\ focus = "sounds" => [Buzzer!Next]_(Buzzer!soundVars)
    BY DEF CabinetNext, cells, Buzzer!soundVars
  <2> QED
    BY <2>1, SoundStep, FocusStays
<1> QED
  BY <1>1, <1>2, PTL DEF CabinetSpec

(* Lamps of each kind are, when nothing is under way, as was said of them  *)
(* last, and what the buzzer was told last is what is heard: for any slots, *)
(* threads and bounds.                                                     *)
THEOREM CabinetShowsSignals == CabinetSpec => []SignalsAreTrue
<1>1. (focus = "lamps" => LampInv) => (focus = "lamps" => Leds!LampsShowConfig)
  BY LampShows
<1>2. (focus = "lights" => LightInv) => (focus = "lights" => Pins!LightsShowState)
  BY LightsShow
<1>3. (focus = "sounds" => SoundInv) => (focus = "sounds" => Buzzer!SoundIsAsTold)
  BY SoundShows
<1> QED
  BY <1>1, <1>2, <1>3, LampInvariant, LightInvariant, SoundInvariant, PTL DEF SignalsAreTrue
-----------------------------------------------------------------------------
(* The single reader.  The cells by the names that SingleReader gives them; *)
(* one that was taken has the word single before it.                       *)
kind == c1
tag == c2
content == c3
cache == c4
ready == c5
open == c6
port == c7
plugged == c8
backoff == c9
poll == c10
writing == c11
closing == c12
reading == c13
spoilt == c14
changes == c15

USE SingleConstants DEF kind, tag, content, cache, ready, open, port, plugged, backoff, poll,
    writing, closing, reading, spoilt, changes, Reader!ReaderAssumption

(* The reader on SPI caches nothing.                                       *)
SingleInv == Reader!TypeOK /\ Reader!SingleTellsTag
      /\ (kind = "spi" => \A t \in LoadTags : cache[t] = NotCached)

(* The parts of Reader!SingleTellsTag.                                            *)
CacheTells == /\ \A t \in LoadTags : t \in spoilt \/ cache[t] \in {NotCached, content[t]}
              /\ kind = "spi" => \A t \in LoadTags : cache[t] = NotCached
ReadingTells == reading.tag \in LoadTags /\ reading.tag \notin spoilt
    => reading.data = content[reading.tag]
PortTells == /\ open # NoPlace => open = port
             /\ ready /\ ~closing => open # NoPlace

LEMMA SingleParts == SingleInv <=> Reader!TypeOK /\ CacheTells /\ ReadingTells /\ PortTells
BY DEF SingleInv, Reader!SingleTellsTag, CacheTells, ReadingTells, PortTells

LEMMA SingleInit == Reader!Init => SingleInv
<1> SUFFICES ASSUME Reader!Init PROVE SingleInv
  OBVIOUS
<1>1. cache \in [LoadTags -> Reader!Contents \cup {NotCached}] /\ 0 \in 0 .. MaxChanges
  BY DEF Reader!Init
<1>2. reading \in [tag : LoadTags \cup {NoWriterTag}, data : Reader!Contents]
  BY DEF Reader!Init, Reader!Nothing, Reader!Contents
<1>3. Reader!TypeOK
  BY <1>1, <1>2 DEF Reader!Init, Reader!TypeOK
<1>4. CacheTells /\ ReadingTells /\ PortTells
  BY DEF Reader!Init, CacheTells, ReadingTells, PortTells, Reader!Nothing
<1> QED
  BY <1>3, <1>4, SingleParts

(* Whether a connection is made or not, the open port is the remembered    *)
(* one, and a reader that is ready has it.                                 *)
LEMMA ConnectKeeps ==
  ASSUME Reader!TypeOK, PortTells, Reader!Connected \/ Reader!NotConnected
  PROVE  /\ open' \in SerialPorts \cup {NoPlace} /\ port' \in SerialPorts \cup {NoPlace}
         /\ ready' \in BOOLEAN
         /\ open' # NoPlace => open' = port'
         /\ ready' => open' # NoPlace
<1>1. CASE Reader!Connected
  <2>1. plugged # NoPlace /\ open' = plugged /\ port' = plugged /\ ready' = TRUE
    BY <1>1 DEF Reader!Connected, Reader!Findable
  <2> QED
    BY <2>1 DEF Reader!TypeOK
<1>2. CASE Reader!NotConnected
  BY <1>2 DEF Reader!NotConnected, Reader!TypeOK
<1> QED
  BY <1>1, <1>2

LEMMA ReconnectKeeps ==
  ASSUME Reader!TypeOK, PortTells, Reader!Reconnect \/ UNCHANGED <<open, port, ready, backoff>>,
         closing' = closing
  PROVE  /\ open' \in SerialPorts \cup {NoPlace} /\ port' \in SerialPorts \cup {NoPlace}
         /\ ready' \in BOOLEAN
         /\ backoff' \in BOOLEAN /\ PortTells'
<1>1. CASE UNCHANGED <<open, port, ready, backoff>>
  BY <1>1 DEF Reader!TypeOK, PortTells
<1>2. CASE Reader!Reconnect /\ ~backoff
  <2>1. backoff' = TRUE /\ (Reader!Connected \/ Reader!NotConnected)
    BY <1>2 DEF Reader!Reconnect
  <2> QED
    BY <2>1, ConnectKeeps DEF PortTells
<1>3. CASE Reader!Reconnect /\ backoff
  BY <1>1, <1>3 DEF Reader!Reconnect
<1> QED
  BY <1>1, <1>2, <1>3 DEF Reader!TypeOK

LEMMA SingleStep == SingleInv /\ [Reader!Next]_(Reader!readerVars) => SingleInv'
<1> SUFFICES ASSUME SingleInv, [Reader!Next]_(Reader!readerVars) PROVE SingleInv'
  OBVIOUS
<1>0. Reader!TypeOK /\ CacheTells /\ ReadingTells /\ PortTells
  BY SingleParts
<1> SUFFICES Reader!TypeOK' /\ CacheTells' /\ ReadingTells' /\ PortTells'
  BY DEF SingleInv, Reader!SingleTellsTag, CacheTells, ReadingTells, PortTells
<1>1. CASE Reader!Initialize
  <2>1. /\ open' \in SerialPorts \cup {NoPlace} /\ port' \in SerialPorts \cup {NoPlace}
        /\ ready' \in BOOLEAN
        /\ open' # NoPlace => open' = port'
        /\ ready' => open' # NoPlace
    BY <1>0, <1>1, ConnectKeeps DEF Reader!Initialize
  <2>2. UNCHANGED <<kind, tag, content, cache, plugged, backoff, poll, writing, closing, reading,
      spoilt, changes>>
    BY <1>1 DEF Reader!Initialize
  <2> QED
    BY <1>0, <2>1, <2>2 DEF Reader!TypeOK, CacheTells, ReadingTells, PortTells
<1>2. CASE Reader!PollDown
  <2>1. Reader!Reconnect \/ UNCHANGED <<open, port, ready, backoff>>
    BY <1>2 DEF Reader!PollDown
  <2>2. UNCHANGED <<kind, tag, content, cache, plugged, poll, writing, closing, spoilt,
      changes>> /\ reading' = Reader!Nothing
    BY <1>2 DEF Reader!PollDown
  <2>3. /\ open' \in SerialPorts \cup {NoPlace} /\ port' \in SerialPorts \cup {NoPlace}
        /\ ready' \in BOOLEAN
        /\ backoff' \in BOOLEAN /\ PortTells'
    BY <1>0, <2>1, <2>2, ReconnectKeeps
  <2>4. Reader!TypeOK'
    BY <1>0, <2>2, <2>3 DEF Reader!TypeOK, Reader!Nothing, Reader!Contents
  <2> QED
    BY <1>0, <2>2, <2>3, <2>4 DEF CacheTells, ReadingTells, Reader!Nothing
<1>3. CASE Reader!PollError
  <2>1. Reader!Reconnect \/ UNCHANGED <<open, port, ready, backoff>>
    BY <1>3 DEF Reader!PollError
  <2>2. UNCHANGED <<kind, tag, content, cache, plugged, poll, writing, closing, spoilt,
      changes>> /\ reading' = Reader!Nothing
    BY <1>3 DEF Reader!PollError
  <2>3. /\ open' \in SerialPorts \cup {NoPlace} /\ port' \in SerialPorts \cup {NoPlace}
        /\ ready' \in BOOLEAN
        /\ backoff' \in BOOLEAN /\ PortTells'
    BY <1>0, <2>1, <2>2, ReconnectKeeps
  <2>4. Reader!TypeOK'
    BY <1>0, <2>2, <2>3 DEF Reader!TypeOK, Reader!Nothing, Reader!Contents
  <2> QED
    BY <1>0, <2>2, <2>3, <2>4 DEF CacheTells, ReadingTells, Reader!Nothing
<1>4. CASE Reader!PollNumber
  <2>1. UNCHANGED <<kind, tag, content, cache, ready, open, port, plugged, backoff, writing,
      closing, spoilt, changes>>
    BY <1>4 DEF Reader!PollNumber
  <2>2. CASE tag = NoWriterTag \/ cache[tag] = NotCached
    <3>1. reading' = Reader!Nothing /\ poll' = tag
      BY <1>4, <2>2 DEF Reader!PollNumber
    <3>2. Reader!TypeOK'
      BY <1>0, <2>1, <3>1 DEF Reader!TypeOK, Reader!Nothing, Reader!Contents
    <3> QED
      BY <1>0, <2>1, <3>1, <3>2 DEF CacheTells, ReadingTells, PortTells, Reader!Nothing
  <2>3. CASE ~(tag = NoWriterTag \/ cache[tag] = NotCached)
    <3>1. reading' = [tag |-> tag, data |-> cache[tag]] /\ poll' = poll
      BY <1>4, <2>3 DEF Reader!PollNumber
    <3>2. tag \in LoadTags /\ cache[tag] \in Reader!Contents
      BY <1>0, <2>3 DEF Reader!TypeOK
    <3>3. Reader!TypeOK'
      BY <1>0, <2>1, <3>1, <3>2 DEF Reader!TypeOK
    <3>4. ReadingTells'
      BY <1>0, <2>1, <2>3, <3>1, <3>2 DEF ReadingTells, CacheTells
    <3> QED
      BY <1>0, <2>1, <3>3, <3>4 DEF CacheTells, PortTells
  <2> QED
    BY <2>2, <2>3
<1>5. CASE Reader!PollPages
  <2>1. poll \in LoadTags /\ poll' = NoWriterTag
    BY <1>0, <1>5 DEF Reader!PollPages, Reader!TypeOK
  <2>2. UNCHANGED <<kind, tag, content, ready, open, port, plugged, backoff, writing, closing,
      changes>>
    BY <1>5 DEF Reader!PollPages
  <2>3. PICK data \in Reader!PagesRead :
          /\ reading' = [tag |-> poll, data |-> data]
          /\ cache' = IF kind = "usb" THEN [cache EXCEPT ![poll] = data] ELSE cache
          /\ spoilt' = IF data = content[poll] THEN spoilt \ {poll} ELSE spoilt \cup {poll}
    BY <1>5 DEF Reader!PollPages
  <2>4. data \in Reader!Contents
    BY <1>0 DEF Reader!PagesRead, Reader!TypeOK, Reader!Contents
  <2>5. cache' \in [LoadTags -> Reader!Contents \cup {NotCached}] /\ spoilt' \subseteq LoadTags
    BY <1>0, <2>1, <2>3, <2>4 DEF Reader!TypeOK
  <2>6. Reader!TypeOK'
    BY <1>0, <2>1, <2>2, <2>3, <2>4, <2>5 DEF Reader!TypeOK
  <2>7. ReadingTells'
    BY <2>1, <2>2, <2>3 DEF ReadingTells
  <2>8. CacheTells'
    <3>1. CASE kind = "usb"
      <4>1. \A t \in LoadTags : cache'[t] = IF t = poll THEN data ELSE cache[t]
        BY <1>0, <2>1, <2>3, <3>1 DEF Reader!TypeOK
      <4>2. \A t \in LoadTags : t # poll => (t \in spoilt' <=> t \in spoilt)
        BY <2>3
      <4>3. poll \in spoilt' \/ data = content[poll]
        BY <2>3
      <4> QED
        BY <1>0, <2>2, <3>1, <4>1, <4>2, <4>3 DEF CacheTells
    <3>2. CASE kind # "usb"
      <4>1. kind = "spi" /\ cache' = cache
        BY <1>0, <2>3, <3>2 DEF Reader!TypeOK
      <4> QED
        BY <1>0, <2>2, <4>1 DEF CacheTells
    <3> QED
      BY <3>1, <3>2
  <2> QED
    BY <1>0, <2>2, <2>6, <2>7, <2>8 DEF PortTells
<1>6. CASE Reader!PauseOver \/ Reader!BeginWrite \/ Reader!MoveCan \/ Reader!MovePlug
           \/ UNCHANGED Reader!readerVars
  <2>1. UNCHANGED <<kind, content, cache, ready, open, port, poll, closing, reading, spoilt>>
    BY <1>6 DEF Reader!PauseOver, Reader!BeginWrite, Reader!MoveCan, Reader!MovePlug,
                Reader!readerVars
  <2>2. backoff' \in BOOLEAN /\ writing' \in BOOLEAN /\ tag' \in LoadTags \cup {NoWriterTag}
        /\ plugged' \in SerialPorts \cup {NoPlace}
    BY <1>0, <1>6
       DEF Reader!PauseOver, Reader!BeginWrite, Reader!MoveCan, Reader!MovePlug,
           Reader!readerVars, Reader!TypeOK
  <2>3. changes' \in 0 .. MaxChanges
    BY <1>0, <1>6
       DEF Reader!PauseOver, Reader!BeginWrite, Reader!MoveCan, Reader!MovePlug,
           Reader!readerVars, Reader!TypeOK
  <2>4. Reader!TypeOK'
    BY <1>0, <2>1, <2>2, <2>3 DEF Reader!TypeOK
  <2> QED
    BY <1>0, <2>1, <2>4 DEF CacheTells, ReadingTells, PortTells
<1>7. CASE Reader!EndWrite
  <2>1. writing' = FALSE
        /\ UNCHANGED <<kind, tag, cache, ready, open, port, plugged, backoff, poll, closing,
                   reading, changes>>
    BY <1>7 DEF Reader!EndWrite
  <2>2. CASE tag = NoWriterTag \/ plugged # open
    <3>1. UNCHANGED <<content, spoilt>>
      BY <1>7, <2>2 DEF Reader!EndWrite
    <3>2. Reader!TypeOK'
      BY <1>0, <2>1, <3>1 DEF Reader!TypeOK
    <3> QED
      BY <1>0, <2>1, <3>1, <3>2 DEF CacheTells, ReadingTells, PortTells
  <2>3. CASE ~(tag = NoWriterTag \/ plugged # open)
    <3>1. PICK p \in Reader!Contents : content' = [content EXCEPT ![tag] = p]
      BY <1>7, <2>3 DEF Reader!EndWrite
    <3>2. spoilt' = spoilt \cup {tag} /\ tag \in LoadTags
      BY <1>0, <1>7, <2>3 DEF Reader!EndWrite, Reader!TypeOK
    <3>3. \A t \in LoadTags : t \in spoilt' \/ content'[t] = content[t]
      BY <1>0, <3>1, <3>2 DEF Reader!TypeOK
    <3>4. Reader!TypeOK'
      BY <1>0, <2>1, <3>1, <3>2 DEF Reader!TypeOK
    <3>5. CacheTells' /\ ReadingTells'
      BY <1>0, <2>1, <3>2, <3>3 DEF CacheTells, ReadingTells
    <3> QED
      BY <1>0, <2>1, <3>4, <3>5 DEF PortTells
  <2> QED
    BY <2>2, <2>3
<1>8. CASE Reader!Shutdown \/ Reader!EndShutdown
  <2>1. UNCHANGED <<kind, tag, content, cache, port, plugged, backoff, poll, writing, reading,
      spoilt, changes>>
    BY <1>8 DEF Reader!Shutdown, Reader!EndShutdown
  <2>2. \/ closing' = TRUE /\ open' = NoPlace /\ ready' = ready
        \/ closing' = FALSE /\ ready' = FALSE /\ open' = open
    BY <1>8 DEF Reader!Shutdown, Reader!EndShutdown
  <2>3. Reader!TypeOK'
    BY <1>0, <2>1, <2>2 DEF Reader!TypeOK
  <2> QED
    BY <1>0, <2>1, <2>2, <2>3 DEF CacheTells, ReadingTells, PortTells
<1> QED
  BY <1>1, <1>2, <1>3, <1>4, <1>5, <1>6, <1>7, <1>8 DEF Reader!Next, Reader!Poll

LEMMA SingleShows == SingleInv => Reader!SingleTellsTag
BY DEF SingleInv

HIDE SingleConstants DEF kind, tag, content, cache, ready, open, port, plugged, backoff, poll,
    writing, closing, reading, spoilt, changes, Reader!ReaderAssumption

LEMMA SingleInvariant == CabinetSpec => [](focus = "single" => SingleInv)
<1>1. CabinetInit => (focus = "single" => SingleInv)
  BY SingleInit DEF CabinetInit
<1>2. (focus = "single" => SingleInv) /\ [CabinetNext]_cells => (focus = "single" => SingleInv)'
  <2>1. [CabinetNext]_cells /\ focus = "single" => [Reader!Next]_(Reader!readerVars)
    BY DEF CabinetNext, cells, Reader!readerVars
  <2> QED
    BY <2>1, SingleStep, FocusStays
<1> QED
  BY <1>1, <1>2, PTL DEF CabinetSpec

(* No two readers stand for one slot, after any swaps and whatever was     *)
(* plugged in at any start, and a poll says what they read; a single reader *)
(* tells what its tag says: for any number of ports and tags.              *)
THEOREM CabinetTellsSlots == CabinetSpec => ReadersTellSlots
<1>1. (focus = "readers" => ReaderInv) => (focus = "readers" => Ports!ReadersKeepSlots)
  BY ReadersShow
<1>2. (focus = "readers" => ReaderInv) => [focus = "readers" => Ports!PollTellsAll]_cells
  BY PollShows
<1>3. (focus = "single" => SingleInv) => (focus = "single" => Reader!SingleTellsTag)
  BY SingleShows
<1> QED
  BY <1>1, <1>2, <1>3, ReaderInvariant, SingleInvariant, PTL DEF ReadersTellSlots, CabinetSpec
-----------------------------------------------------------------------------
(* The pairing.  The cells by the names that Pairing gives them; one that  *)
(* was taken has the word pair before it.                                  *)
toolkit == c1
key == c2
file == c3
issued == c4
running == c5
thread == c6
begun == c7
loops == c8
outlived == c9
socket == c10
socketOn == c11
page == c12
button == c13
asked == c14
going == c15
anew == c16
pairFailed == c17

USE CloudConstants DEF toolkit, key, file, issued, running, thread, begun, loops, outlived, socket,
    socketOn, page, button, asked, going, anew, pairFailed, Cloud!PairingAssumption

(* While sync runs its own loop is the only one that stop has not given    *)
(* up; without it there is none.                                           *)
OneLoop == /\ \A l \in loops : l \in outlived \/ (running /\ l = thread)
           /\ running => thread \in loops \ outlived /\ key # NoKey
           /\ ~running => thread = 0

(* Unless a saving or a removal failed, what the file says holds.          *)
FileFits == ~pairFailed => (key # NoKey => running) /\ (file = key \/ (file = Torn /\ key = NoKey))

SocketFits == socketOn => running /\ (anew \/ socket = key)

PairInv == Cloud!TypeOK /\ OneLoop /\ FileFits /\ SocketFits

LEMMA PairInit == Cloud!Init => PairInv
<1> SUFFICES ASSUME Cloud!Init PROVE PairInv
  OBVIOUS
<1>1. page \in {"pairing", "home", "settings"}
  BY DEF Cloud!Init, Cloud!FirstPage
<1>2. begun \in Nat /\ thread \in 0 .. begun /\ loops \subseteq 1 .. begun
      /\ outlived \subseteq loops
  BY DEF Cloud!Init
<1>3. Cloud!TypeOK
  BY <1>1, <1>2 DEF Cloud!Init, Cloud!TypeOK
<1> QED
  BY <1>3 DEF Cloud!Init, PairInv, OneLoop, FileFits, SocketFits

LEMMA LoopTypes ==
  ASSUME Cloud!TypeOK
  PROVE  /\ begun \in Nat /\ thread \in 0 .. begun /\ loops \subseteq 1 .. begun
         /\ outlived \subseteq loops /\ running \in BOOLEAN /\ socketOn \in BOOLEAN
BY DEF Cloud!TypeOK

LEMMA StartKeeps ==
  ASSUME Cloud!TypeOK, OneLoop, Cloud!Start, key' # NoKey
  PROVE  /\ begun' \in Nat /\ thread' \in 0 .. begun' /\ loops' \subseteq 1 .. begun'
         /\ outlived' \subseteq loops' /\ running' \in BOOLEAN /\ socketOn' \in BOOLEAN
         /\ running' /\ OneLoop'
<1>1. CASE running
  <2>1. UNCHANGED <<running, thread, begun, loops, outlived, socketOn>>
    BY <1>1 DEF Cloud!Start, Cloud!engineVars
  <2> QED
    BY <1>1, <2>1, LoopTypes DEF OneLoop
<1>2. CASE ~running
  <2>1. /\ running' = TRUE /\ begun' = begun + 1 /\ thread' = begun + 1
        /\ loops' = loops \cup {begun + 1} /\ socketOn' = (socket # NoKey)
        /\ outlived' = outlived
    BY <1>2 DEF Cloud!Start
  <2>2. \A l \in loops : l \in outlived
    BY <1>2 DEF OneLoop
  <2>3. begun + 1 \notin outlived
    BY LoopTypes
  <2>4. OneLoop'
    BY <2>1, <2>2, <2>3 DEF OneLoop
  <2> QED
    BY <2>1, <2>4, LoopTypes
<1> QED
  BY <1>1, <1>2

LEMMA StopKeeps ==
  ASSUME Cloud!TypeOK, OneLoop, Cloud!Stop
  PROVE  /\ begun' \in Nat /\ thread' \in 0 .. begun' /\ loops' \subseteq 1 .. begun'
         /\ outlived' \subseteq loops' /\ running' = FALSE /\ socketOn' = FALSE
         /\ OneLoop'
<1>1. running' = FALSE /\ socketOn' = FALSE /\ thread' = 0 /\ begun' = begun
  BY DEF Cloud!Stop
<1>2. CASE loops' = loops \ {thread} /\ outlived' = outlived
  <2>1. thread \notin outlived
    <3>1. CASE running
      BY <3>1 DEF OneLoop
    <3>2. CASE ~running
      BY <3>2, LoopTypes DEF OneLoop
    <3> QED
      BY <3>1, <3>2
  <2>2. \A l \in loops' : l \in outlived'
    BY <1>2, <2>1 DEF OneLoop
  <2>3. OneLoop'
    BY <1>1, <2>2 DEF OneLoop
  <2> QED
    BY <1>1, <1>2, <2>1, <2>3, LoopTypes
<1>3. CASE loops' = loops /\ outlived' = outlived \cup ({thread} \cap loops)
  BY <1>1, <1>3, LoopTypes DEF OneLoop
<1> QED
  BY <1>2, <1>3 DEF Cloud!Stop

LEMMA PairStep == PairInv /\ [Cloud!Next]_(Cloud!pairingVars) => PairInv'
<1> SUFFICES ASSUME PairInv, [Cloud!Next]_(Cloud!pairingVars)
             PROVE  PairInv'
  OBVIOUS
<1> USE DEF PairInv
<1>1. CASE Cloud!Reboot
  <2>1. Cloud!Loaded \in Keys \cup {NoKey}
        /\ (Cloud!Loaded = file \/ (Cloud!Loaded = NoKey /\ file \in {Torn, NoKey}))
    BY DEF Cloud!Loaded, Cloud!TypeOK
  <2>2. /\ key' = Cloud!Loaded /\ running' = (key' # NoKey)
        /\ begun' = (IF key' = NoKey THEN 0 ELSE 1)
        /\ thread' = begun' /\ loops' = 1 .. begun' /\ outlived' = {}
        /\ socket' \in {Cloud!Loaded, NoKey} /\ socketOn' = (socket' # NoKey)
        /\ page' = Cloud!FirstPage(toolkit', Cloud!Loaded) /\ toolkit' \in {"kivy", "qt"}
        /\ button' = TRUE /\ asked' = FALSE /\ going' = FALSE /\ anew' = FALSE
        /\ pairFailed' = FALSE /\ file' = file /\ issued' = issued
    BY <1>1 DEF Cloud!Reboot
  <2>3. page' \in {"pairing", "home", "settings"}
    BY <2>2 DEF Cloud!FirstPage
  <2>4. running' \in BOOLEAN /\ socketOn' \in BOOLEAN
    BY <2>2
  <2>5. begun' \in Nat /\ thread' \in 0 .. begun' /\ loops' \subseteq 1 .. begun'
    BY <2>2
  <2>6. Cloud!TypeOK'
    BY <2>1, <2>2, <2>3, <2>4, <2>5 DEF Cloud!TypeOK
  <2>7. OneLoop'
    <3>1. CASE Cloud!Loaded = NoKey
      <4>1. ~running' /\ begun' = 0
        BY <2>2, <3>1
      <4>2. thread' = 0 /\ loops' = {}
        BY <2>2, <4>1
      <4> QED
        BY <4>1, <4>2 DEF OneLoop
    <3>2. CASE Cloud!Loaded # NoKey
      <4>1. running' /\ begun' = 1
        BY <2>2, <3>2
      <4>2. thread' = 1 /\ loops' = {1} /\ outlived' = {} /\ key' # NoKey
        BY <2>2, <3>2, <4>1
      <4> QED
        BY <4>1, <4>2 DEF OneLoop
    <3> QED
      BY <3>1, <3>2
  <2>8. FileFits'
    BY <2>1, <2>2 DEF FileFits, Cloud!TypeOK
  <2>9. SocketFits'
    BY <2>1, <2>2 DEF SocketFits
  <2> QED
    BY <2>6, <2>7, <2>8, <2>9
<1>2. CASE Cloud!LoopEnds
  <2> PICK l \in loops : loops' = loops \ {l} /\ outlived' = outlived \ {l}
    BY <1>2 DEF Cloud!LoopEnds
  <2>1. ~running
        /\ UNCHANGED <<toolkit, key, file, issued, running, thread, begun, socket, socketOn, page,
                 button, asked, going, anew, pairFailed>>
    BY <1>2 DEF Cloud!LoopEnds
  <2>2. loops' \subseteq 1 .. begun' /\ outlived' \subseteq loops'
    BY <2>1, LoopTypes
  <2>3. Cloud!TypeOK'
    BY <2>1, <2>2 DEF Cloud!TypeOK
  <2>4. OneLoop'
    BY <2>1 DEF OneLoop
  <2> QED
    BY <2>1, <2>3, <2>4 DEF FileFits, SocketFits
<1>3. CASE Cloud!Connect \/ Cloud!PairingRefused \/ Cloud!GoHome \/ Cloud!OpenPair
           \/ \E p \in {"home", "settings"} : Cloud!GoTo(p)
  <2>1. UNCHANGED <<toolkit, key, file, issued, running, thread, begun, loops, outlived, socketOn,
      socket, anew, pairFailed>>
    BY <1>3 DEF Cloud!Connect, Cloud!PairingRefused, Cloud!GoHome, Cloud!OpenPair, Cloud!GoTo,
                Cloud!engineVars
  <2>2. button' \in BOOLEAN /\ asked' \in BOOLEAN /\ going' \in BOOLEAN
    BY <1>3 DEF Cloud!Connect, Cloud!PairingRefused, Cloud!GoHome, Cloud!OpenPair, Cloud!GoTo,
                Cloud!TypeOK
  <2>3. page' \in {"pairing", "home", "settings"}
    BY <1>3 DEF Cloud!Connect, Cloud!PairingRefused, Cloud!GoHome, Cloud!OpenPair, Cloud!GoTo,
                Cloud!TypeOK
  <2>4. Cloud!TypeOK'
    BY <2>1, <2>2, <2>3 DEF Cloud!TypeOK
  <2> QED
    BY <2>1, <2>4 DEF OneLoop, FileFits, SocketFits
<1>4. CASE Cloud!Unpair
  <2>1. /\ begun' \in Nat /\ thread' \in 0 .. begun' /\ loops' \subseteq 1 .. begun'
        /\ outlived' \subseteq loops' /\ running' = FALSE /\ socketOn' = FALSE
        /\ OneLoop'
    BY <1>4, StopKeeps DEF Cloud!Unpair
  <2>2. UNCHANGED <<toolkit, issued, socket, page, button, asked, going>>
    BY <1>4 DEF Cloud!Unpair
  <2>3. \/ key' = NoKey /\ file' = NoKey /\ anew' = TRUE /\ pairFailed' = pairFailed
        \/ pairFailed' = TRUE /\ UNCHANGED <<key, file, anew>>
    BY <1>4 DEF Cloud!Unpair, Cloud!Forget
  <2>4. /\ key' \in Keys \cup {NoKey} /\ file' \in Keys \cup {NoKey, Torn}
        /\ anew' \in BOOLEAN /\ pairFailed' \in BOOLEAN
    BY <2>3 DEF Cloud!TypeOK
  <2>5. Cloud!TypeOK'
    BY <2>1, <2>2, <2>4 DEF Cloud!TypeOK
  <2> QED
    BY <2>1, <2>3, <2>5 DEF FileFits, SocketFits
<1>5. ASSUME NEW k \in Keys, Cloud!PairingDone(k)
      PROVE  PairInv'
  <2>1. /\ key' = k /\ anew' = TRUE /\ file' = k /\ k # NoKey /\ going' = TRUE
        /\ asked' = FALSE /\ issued' = issued \cup {k}
        /\ UNCHANGED <<toolkit, socket, page, button, pairFailed>>
    BY <1>5 DEF Cloud!PairingDone, Cloud!Paired
  <2>2. Cloud!Start
    BY <1>5 DEF Cloud!PairingDone
  <2>3. /\ begun' \in Nat /\ thread' \in 0 .. begun' /\ loops' \subseteq 1 .. begun'
        /\ outlived' \subseteq loops' /\ running' \in BOOLEAN /\ socketOn' \in BOOLEAN
        /\ running' /\ OneLoop'
    BY <2>1, <2>2, StartKeeps
  <2>4. Cloud!TypeOK'
    BY <2>1, <2>3 DEF Cloud!TypeOK
  <2> QED
    BY <2>1, <2>3, <2>4 DEF FileFits, SocketFits
<1>6. ASSUME NEW k \in Keys, Cloud!PairingHalfDone(k)
      PROVE  PairInv'
  <2>1. /\ key' = k /\ anew' = TRUE /\ file' \in {file, Torn, k} /\ k # NoKey
        /\ asked' = FALSE /\ issued' = issued \cup {k} /\ pairFailed' = TRUE /\ button' = TRUE
        /\ UNCHANGED <<toolkit, running, thread, begun, loops, outlived, socketOn, socket, page,
                   going>>
    BY <1>6 DEF Cloud!PairingHalfDone, Cloud!Paired, Cloud!engineVars
  <2>2. Cloud!TypeOK'
    BY <2>1 DEF Cloud!TypeOK
  <2> QED
    BY <2>1, <2>2 DEF OneLoop, FileFits, SocketFits
<1>7. CASE UNCHANGED Cloud!pairingVars
  BY <1>7 DEF Cloud!pairingVars, Cloud!TypeOK, OneLoop, FileFits, SocketFits
<1> QED
  BY <1>1, <1>2, <1>3, <1>4, <1>5, <1>6, <1>7 DEF Cloud!Next

LEMMA PairShows == PairInv => Cloud!PairingHolds
<1> SUFFICES ASSUME PairInv PROVE Cloud!PairingHolds
  OBVIOUS
<1>1. \A l, m \in loops \ outlived : l = m
  BY DEF PairInv, OneLoop
<1> QED
  BY <1>1 DEF PairInv, OneLoop, FileFits, SocketFits, Cloud!PairingHolds

HIDE CloudConstants DEF toolkit, key, file, issued, running, thread, begun, loops, outlived,
    socket, socketOn, page, button, asked, going, anew, pairFailed, Cloud!PairingAssumption

LEMMA PairInvariant == CabinetSpec => [](focus = "pairing" => PairInv)
<1>1. CabinetInit => (focus = "pairing" => PairInv)
  BY PairInit DEF CabinetInit
<1>2. (focus = "pairing" => PairInv) /\ [CabinetNext]_cells => (focus = "pairing" => PairInv)'
  <2>1. [CabinetNext]_cells /\ focus = "pairing" => [Cloud!Next]_(Cloud!pairingVars)
    BY DEF CabinetNext, cells, Cloud!pairingVars, Cloud!engineVars
  <2> QED
    BY <2>1, PairStep, FocusStays
<1> QED
  BY <1>1, <1>2, PTL DEF CabinetSpec

-----------------------------------------------------------------------------
(* The backups.  The cells by the names that Backups gives them; one that  *)
(* was taken has the word backup before it.                                *)
files == c1
backupRunning == c2
backupStep == c3
latest == c4
medium == c5
made == c6
unrotated == c7
backupBegun == c8
setBacks == c9

USE BackupConstants DEF files, backupRunning, backupStep, latest, medium, made, unrotated,
    backupBegun, setBacks, Copies!BackupAssumption

(* While the older copies are removed the newest one is whole.             *)
BackupInv == /\ Copies!TypeOK /\ Copies!BackupIsKept
             /\ backupStep = "rotating" /\ setBacks = 0 => Len(files) > 0 /\ files[Len(files)]

LEMMA BackupInit == Copies!Init => BackupInv
<1>1. <<>> \in Seq(BOOLEAN) /\ Len(<<>>) = 0
  OBVIOUS
<1>2. 0 \in 0 .. MaxBackups /\ 0 \in 0 .. MaxSetBacks /\ 0 \in Nat
  OBVIOUS
<1>3. Copies!Init => Copies!TypeOK
  <2> SUFFICES ASSUME Copies!Init PROVE Copies!TypeOK
    OBVIOUS
  <2>1. files \in Seq(BOOLEAN)
    BY <1>1 DEF Copies!Init
  <2>2. medium \in {"none", "empty", "whole", "torn"}
    BY DEF Copies!Init
  <2> QED
    BY <1>2, <2>1, <2>2 DEF Copies!Init, Copies!TypeOK
<1> QED
  BY <1>1, <1>3 DEF Copies!Init, BackupInv, Copies!BackupIsKept

(* A copy that is put among the others is the last one, as long as the     *)
(* clock was not set back, and the others stay.                            *)
LEMMA InsertedKeeps ==
  ASSUME Copies!TypeOK, NEW whole \in BOOLEAN, NEW f \in Copies!Inserted(whole)
  PROVE  /\ f \in Seq(BOOLEAN) /\ Len(f) = Len(files) + 1
         /\ setBacks = 0 => /\ f[Len(f)] = whole
                            /\ \A i \in 1 .. Len(files) : f[i] = files[i]
<1> files \in Seq(BOOLEAN) /\ Len(files) \in Nat
  BY DEF Copies!TypeOK
<1>1. PICK i \in (IF setBacks = 0 THEN {Len(files)} ELSE 0 .. Len(files)) :
           f = SubSeq(files, 1, i) \o <<whole>> \o SubSeq(files, i + 1, Len(files))
  BY DEF Copies!Inserted
<1>2. i \in 0 .. Len(files)
  BY <1>1
<1> DEFINE older == SubSeq(files, 1, i)
           newer == SubSeq(files, i + 1, Len(files))
<1>3. older \in Seq(BOOLEAN) /\ Len(older) = i /\ \A j \in 1 .. i : older[j] = files[j]
  BY <1>2
<1>4. newer \in Seq(BOOLEAN) /\ Len(newer) = Len(files) - i
  BY <1>2
<1>5. f = older \o <<whole>> \o newer
  BY <1>1
<1> HIDE DEF older, newer
<1>6. f \in Seq(BOOLEAN) /\ Len(f) = Len(files) + 1
  BY <1>2, <1>3, <1>4, <1>5
<1>7. ASSUME setBacks = 0
      PROVE  f[Len(f)] = whole /\ \A j \in 1 .. Len(files) : f[j] = files[j]
  <2>1. i = Len(files)
    BY <1>1, <1>7
  <2>2. newer = <<>>
    BY <1>4, <2>1
  <2>3. f = Append(older, whole)
    BY <1>3, <1>5, <2>2
  <2> QED
    BY <1>3, <2>1, <2>3
<1> QED
  BY <1>6, <1>7

LEMMA WithoutKeeps ==
  ASSUME Copies!TypeOK, NEW n \in 0 .. Len(files)
  PROVE  /\ Copies!Without(n) \in Seq(BOOLEAN) /\ Len(Copies!Without(n)) = Len(files) - n
         /\ n < Len(files) => Copies!Without(n)[Len(Copies!Without(n))] = files[Len(files)]
<1> files \in Seq(BOOLEAN) /\ Len(files) \in Nat
  BY DEF Copies!TypeOK
<1>1. Copies!Without(n) = SubSeq(files, n + 1, Len(files))
  BY DEF Copies!Without
<1>2. /\ Copies!Without(n) \in Seq(BOOLEAN) /\ Len(Copies!Without(n)) = Len(files) - n
      /\ \A i \in 1 .. Len(files) - n : Copies!Without(n)[i] = files[n + i]
  BY <1>1
<1>3. n < Len(files) => Len(files) - n \in 1 .. Len(files) - n /\ n + (Len(files) - n) = Len(files)
  OBVIOUS
<1> QED
  BY <1>2, <1>3

LEMMA BackupStep == BackupInv /\ [Copies!Next]_(Copies!backupVars) => BackupInv'
<1> SUFFICES ASSUME BackupInv, [Copies!Next]_(Copies!backupVars)
             PROVE  BackupInv'
  OBVIOUS
<1>0. Copies!TypeOK /\ Copies!BackupIsKept
      /\ (backupStep = "rotating" /\ setBacks = 0 => Len(files) > 0 /\ files[Len(files)])
  BY DEF BackupInv
<1> files \in Seq(BOOLEAN) /\ Len(files) \in Nat /\ unrotated \in Nat /\ MaxCopies \in Nat \ {0}
    /\ setBacks \in Nat
  BY <1>0 DEF Copies!TypeOK
<1>1. ASSUME NEW whole \in BOOLEAN, files' \in Copies!Inserted(whole), UNCHANGED setBacks
      PROVE  /\ files' \in Seq(BOOLEAN) /\ Len(files') = Len(files) + 1
             /\ (\E i \in 1 .. Len(files) : files[i]) /\ setBacks = 0
                 => \E i \in 1 .. Len(files') : files'[i]
             /\ setBacks = 0 => files'[Len(files')] = whole
  <2>1. /\ files' \in Seq(BOOLEAN) /\ Len(files') = Len(files) + 1
        /\ setBacks = 0 => /\ files'[Len(files')] = whole
                           /\ \A i \in 1 .. Len(files) : files'[i] = files[i]
    BY <1>0, <1>1, InsertedKeeps
  <2> QED
    BY <2>1
<1>2. CASE Copies!CopyMade
  <2>1. /\ files' \in Copies!Inserted(TRUE) /\ backupStep' = "rotating" /\ latest' = TRUE
        /\ made' = TRUE
        /\ unrotated' = unrotated + 1 /\ UNCHANGED <<backupRunning, medium, backupBegun, setBacks>>
    BY <1>2 DEF Copies!CopyMade
  <2>2. files' \in Seq(BOOLEAN) /\ Len(files') = Len(files) + 1
        /\ (setBacks = 0 => files'[Len(files')] = TRUE)
    BY <1>1, <2>1
  <2>3. Copies!TypeOK'
    BY <1>0, <2>1, <2>2 DEF Copies!TypeOK
  <2>4. Len(files') <= MaxCopies + unrotated'
    BY <1>0, <2>1, <2>2 DEF Copies!BackupIsKept
  <2> QED
    BY <2>1, <2>2, <2>3, <2>4 DEF BackupInv, Copies!BackupIsKept
<1>3. ASSUME backupStep' = "rest", UNCHANGED <<medium, made, backupBegun, setBacks>>,
             latest' \in BOOLEAN, backupRunning' \in BOOLEAN,
             \/ UNCHANGED <<files, unrotated>>
             \/ files' \in {files} \cup Copies!Inserted(FALSE) /\ unrotated' = unrotated + 1
      PROVE  BackupInv'
  <2>1. CASE files' = files
    <3>1. Copies!TypeOK'
      BY <1>0, <1>3, <2>1 DEF Copies!TypeOK
    <3> QED
      BY <1>0, <1>3, <2>1, <3>1 DEF BackupInv, Copies!BackupIsKept
  <2>2. CASE files' \in Copies!Inserted(FALSE) /\ unrotated' = unrotated + 1
    <3>1. /\ files' \in Seq(BOOLEAN) /\ Len(files') = Len(files) + 1
          /\ (\E i \in 1 .. Len(files) : files[i]) /\ setBacks = 0
              => \E i \in 1 .. Len(files') : files'[i]
      BY <1>1, <1>3, <2>2
    <3>2. Copies!TypeOK'
      BY <1>0, <1>3, <2>2, <3>1 DEF Copies!TypeOK
    <3>3. Len(files') <= MaxCopies + unrotated'
      BY <1>0, <2>2, <3>1 DEF Copies!BackupIsKept
    <3> QED
      BY <1>0, <1>3, <3>1, <3>2, <3>3 DEF BackupInv, Copies!BackupIsKept
  <2> QED
    BY <1>3, <2>1, <2>2
<1>4. CASE Copies!CopyFails
  BY <1>0, <1>3, <1>4 DEF Copies!CopyFails, Copies!TypeOK
<1>5. CASE Copies!Restart
  BY <1>0, <1>3, <1>5 DEF Copies!Restart, Copies!TypeOK
<1>6. CASE Copies!Rotate
  <2>1. backupStep = "rotating" /\ backupStep' = "usb"
        /\ UNCHANGED <<backupRunning, medium, made, backupBegun, setBacks>>
    BY <1>6 DEF Copies!Rotate
  <2>2. PICK n \in 0 .. Copies!Surplus :
          /\ files' = Copies!Without(n)
          /\ unrotated' = IF n = Copies!Surplus THEN 0 ELSE unrotated
          /\ latest' \in {TRUE, n = 0 \/ setBacks = 0}
    BY <1>6 DEF Copies!Rotate
  <2>3. latest' \in BOOLEAN
    BY <2>2
  <2>4. /\ Copies!Surplus \in 0 .. Len(files)
        /\ Len(files) > 0 => Copies!Surplus < Len(files)
        /\ Len(files) - Copies!Surplus <= MaxCopies
    BY DEF Copies!Surplus
  <2>5. n \in 0 .. Len(files) /\ (Len(files) > 0 => n < Len(files))
    BY <2>4
  <2>6. /\ files' \in Seq(BOOLEAN) /\ Len(files') = Len(files) - n
        /\ n < Len(files) => files'[Len(files')] = files[Len(files)]
    BY <1>0, <2>2, <2>5, WithoutKeeps
  <2>7. Copies!TypeOK'
    BY <1>0, <2>1, <2>2, <2>3, <2>6 DEF Copies!TypeOK
  <2>8. Len(files') <= MaxCopies + unrotated'
    BY <1>0, <2>2, <2>4, <2>6 DEF Copies!BackupIsKept
  <2>9. setBacks' = 0 => \E i \in 1 .. Len(files') : files'[i]
    BY <1>0, <2>1, <2>5, <2>6
  <2> QED
    BY <2>1, <2>7, <2>8, <2>9 DEF BackupInv, Copies!BackupIsKept
<1>7. CASE Copies!BeginBackup \/ Copies!Stop \/ Copies!ChangeMedium \/ Copies!CopyToUsb
           \/ Copies!SetBack \/ UNCHANGED Copies!backupVars
  <2>1. UNCHANGED <<files, made, unrotated>>
        /\ (backupStep' = "rotating" => backupStep = "rotating")
    BY <1>7 DEF Copies!BeginBackup, Copies!Stop, Copies!ChangeMedium, Copies!CopyToUsb,
                Copies!SetBack, Copies!backupVars
  <2>2. setBacks' \in Nat /\ (setBacks' = 0 => setBacks = 0)
    BY <1>7 DEF Copies!BeginBackup, Copies!Stop, Copies!ChangeMedium, Copies!CopyToUsb,
                Copies!SetBack, Copies!backupVars
  <2>3. backupBegun' \in 0 .. MaxBackups /\ setBacks' \in 0 .. MaxSetBacks
    BY <1>0, <1>7
       DEF Copies!TypeOK, Copies!BeginBackup, Copies!Stop, Copies!ChangeMedium, Copies!CopyToUsb,
           Copies!SetBack, Copies!backupVars
  <2>4. /\ backupRunning' \in BOOLEAN /\ latest' \in BOOLEAN
        /\ backupStep' \in {"rest", "copying", "rotating", "usb"}
    BY <1>0, <1>7
       DEF Copies!TypeOK, Copies!BeginBackup, Copies!Stop, Copies!ChangeMedium, Copies!CopyToUsb,
           Copies!SetBack, Copies!backupVars
  <2>5. medium' \in {"none", "empty", "whole", "torn"}
    BY <1>0, <1>7
       DEF Copies!TypeOK, Copies!BeginBackup, Copies!Stop, Copies!ChangeMedium, Copies!CopyToUsb,
           Copies!SetBack, Copies!backupVars
  <2>6. Copies!TypeOK'
    BY <1>0, <2>1, <2>3, <2>4, <2>5 DEF Copies!TypeOK
  <2> QED
    BY <1>0, <2>1, <2>2, <2>6 DEF BackupInv, Copies!BackupIsKept
<1> QED
  BY <1>2, <1>4, <1>5, <1>6, <1>7 DEF Copies!Next

LEMMA BackupShows == BackupInv => Copies!BackupIsKept
BY DEF BackupInv

HIDE BackupConstants DEF files, backupRunning, backupStep, latest, medium, made, unrotated,
    backupBegun, setBacks, Copies!BackupAssumption

LEMMA BackupInvariant == CabinetSpec => [](focus = "backups" => BackupInv)
<1>1. CabinetInit => (focus = "backups" => BackupInv)
  BY BackupInit DEF CabinetInit
<1>2. (focus = "backups" => BackupInv) /\ [CabinetNext]_cells => (focus = "backups" => BackupInv)'
  <2>1. [CabinetNext]_cells /\ focus = "backups" => [Copies!Next]_(Copies!backupVars)
    BY DEF CabinetNext, cells, Copies!backupVars
  <2> QED
    BY <2>1, BackupStep, FocusStays
<1> QED
  BY <1>1, <1>2, PTL DEF CabinetSpec

-----------------------------------------------------------------------------
(* The log.  The cells by the names that CloudLogs gives them; one that was *)
(* taken has the word log before it.                                       *)
logged == c1
buffer == c2
batch == c3
sent == c4
lost == c5
dropped == c6
logCrossed == c7

USE LogConstants DEF logged, buffer, batch, sent, lost, dropped, logCrossed, Log!LogAssumption

Before(S, T) == \A x \in S, y \in T : x < y

(* Every line is at one place.                                             *)
OnePlace ==
  /\ 1 .. logged = Log!In(buffer) \cup Log!UnderWay \cup Log!In(sent) \cup lost \cup dropped
  /\ Log!In(buffer) \cap (Log!UnderWay \cup Log!In(sent) \cup lost \cup dropped) = {}
  /\ Log!UnderWay \cap (Log!In(sent) \cup lost \cup dropped) = {}
  /\ Log!In(sent) \cap (lost \cup dropped) = {}
  /\ \A f, g \in Users : f # g => Log!In(batch[f]) \cap Log!In(batch[g]) = {}

(* Without crossed uploads one is under way at most, of lines that are     *)
(* older than those buffered and younger than those at the cloud.          *)
OneUpload ==
  /\ Log!InOrder(sent) /\ Before(Log!In(sent), Log!UnderWay \cup Log!In(buffer))
  /\ \A f, g \in Users : batch[f] # <<>> /\ batch[g] # <<>> => f = g
  /\ Before(Log!UnderWay, Log!In(buffer))

LogInv == /\ Log!TypeOK /\ OnePlace
          /\ Log!InOrder(buffer) /\ \A f \in Users : Log!InOrder(batch[f])
          /\ ~logCrossed => OneUpload

-----------------------------------------------------------------------------
(* What is in a sequence of lines.                                         *)
LEMMA InEmpty == Log!In(<<>>) = {} /\ Log!InOrder(<<>>)
BY DEF Log!In, Log!InOrder

LEMMA InLines == ASSUME NEW s \in Seq(Log!Lines)
    PROVE Log!In(s) \subseteq Log!Lines /\ (Log!In(s) = {} <=> s = <<>>)
<1>1. Len(s) \in Nat /\ \A i \in 1 .. Len(s) : s[i] \in Log!Lines
  OBVIOUS
<1>2. s # <<>> => 1 \in 1 .. Len(s)
  BY <1>1
<1> QED
  BY <1>1, <1>2, InEmpty DEF Log!In

LEMMA InAppend ==
  ASSUME NEW s \in Seq(Log!Lines), NEW x \in Log!Lines
  PROVE  /\ Append(s, x) \in Seq(Log!Lines) /\ Len(Append(s, x)) = Len(s) + 1
         /\ Log!In(Append(s, x)) = Log!In(s) \cup {x}
         /\ Log!InOrder(s) /\ (\A y \in Log!In(s) : y < x) => Log!InOrder(Append(s, x))
<1> DEFINE t == Append(s, x)
<1>1. /\ t \in Seq(Log!Lines) /\ Len(t) = Len(s) + 1 /\ Len(s) \in Nat
      /\ t[Len(s) + 1] = x /\ \A i \in 1 .. Len(s) : t[i] = s[i]
  OBVIOUS
<1> HIDE DEF t
<1>2. Log!In(t) = Log!In(s) \cup {x}
  BY <1>1 DEF Log!In
<1>3. ASSUME Log!InOrder(s), \A y \in Log!In(s) : y < x
      PROVE  Log!InOrder(t)
  <2> SUFFICES ASSUME NEW i \in 1 .. Len(t), NEW j \in 1 .. Len(t), i < j
               PROVE  t[i] < t[j]
    BY DEF Log!InOrder
  <2>1. i \in 1 .. Len(s)
    BY <1>1
  <2>2. CASE j \in 1 .. Len(s)
    BY <1>1, <1>3, <2>1, <2>2 DEF Log!InOrder
  <2>3. CASE j = Len(s) + 1
    BY <1>1, <1>3, <2>1, <2>3 DEF Log!In
  <2> QED
    BY <1>1, <2>2, <2>3
<1> QED
  BY <1>1, <1>2, <1>3 DEF t

LEMMA InTail ==
  ASSUME NEW s \in Seq(Log!Lines), s # <<>>, Log!InOrder(s)
  PROVE  /\ Tail(s) \in Seq(Log!Lines) /\ Len(Tail(s)) = Len(s) - 1 /\ Head(s) \in Log!Lines
         /\ Log!In(s) = Log!In(Tail(s)) \cup {Head(s)} /\ Head(s) \notin Log!In(Tail(s))
         /\ Log!InOrder(Tail(s))
<1> DEFINE t == Tail(s)
<1>1. /\ t \in Seq(Log!Lines) /\ Len(t) = Len(s) - 1 /\ Len(s) \in Nat \ {0} /\ Head(s) = s[1]
      /\ \A i \in 1 .. Len(t) : t[i] = s[i + 1]
      /\ \A i \in 1 .. Len(s) : s[i] \in Log!Lines
  OBVIOUS
<1> HIDE DEF t
<1>2. \A i \in 1 .. Len(s) : i = 1 \/ (i - 1 \in 1 .. Len(t) /\ t[i - 1] = s[i])
  BY <1>1
<1>3. \A i \in 1 .. Len(t) : i + 1 \in 1 .. Len(s) /\ 1 < i + 1
  BY <1>1
<1>4. 1 \in 1 .. Len(s)
  BY <1>1
<1>5. Log!In(s) \subseteq Log!In(t) \cup {s[1]}
  BY <1>2 DEF Log!In
<1>6. Log!In(t) \subseteq Log!In(s)
  BY <1>1, <1>3 DEF Log!In
<1>7. s[1] \in Log!In(s)
  BY <1>4 DEF Log!In
<1>8. s[1] \notin Log!In(t)
  <2>1. \A i \in 1 .. Len(t) : s[1] < t[i]
    BY <1>1, <1>3, <1>4 DEF Log!InOrder
  <2>2. \A i \in 1 .. Len(t) : t[i] \in Nat
    BY <1>1 DEF Log!Lines
  <2>3. s[1] \in Nat
    BY <1>1, <1>4 DEF Log!Lines
  <2> QED
    BY <2>1, <2>2, <2>3 DEF Log!In
<1>9. Log!InOrder(t)
  <2> SUFFICES ASSUME NEW i \in 1 .. Len(t), NEW j \in 1 .. Len(t), i < j
               PROVE  t[i] < t[j]
    BY DEF Log!InOrder
  <2>1. i + 1 < j + 1
    OBVIOUS
  <2> QED
    BY <1>1, <1>3, <2>1 DEF Log!InOrder
<1> QED
  BY <1>1, <1>4, <1>5, <1>6, <1>7, <1>8, <1>9 DEF t

LEMMA InJoined ==
  ASSUME NEW s \in Seq(Log!Lines), NEW u \in Seq(Log!Lines)
  PROVE  /\ s \o u \in Seq(Log!Lines) /\ Log!In(s \o u) = Log!In(s) \cup Log!In(u)
         /\ Log!InOrder(s) /\ Log!InOrder(u) /\ Before(Log!In(s), Log!In(u)) => Log!InOrder(s \o u)
<1> DEFINE t == s \o u
<1>1. /\ t \in Seq(Log!Lines) /\ Len(t) = Len(s) + Len(u) /\ Len(s) \in Nat /\ Len(u) \in Nat
      /\ \A i \in 1 .. Len(s) : t[i] = s[i]
      /\ \A i \in 1 .. Len(u) : t[Len(s) + i] = u[i]
  OBVIOUS
<1> HIDE DEF t
<1>2. \A i \in 1 .. Len(t) : i \in 1 .. Len(s)
           \/ (i - Len(s) \in 1 .. Len(u) /\ t[i] = u[i - Len(s)])
  <2> SUFFICES ASSUME NEW i \in 1 .. Len(t), i \notin 1 .. Len(s)
               PROVE  i - Len(s) \in 1 .. Len(u) /\ t[i] = u[i - Len(s)]
    OBVIOUS
  <2>1. i - Len(s) \in 1 .. Len(u) /\ Len(s) + (i - Len(s)) = i
    BY <1>1
  <2> QED
    BY <1>1, <2>1
<1>3. Log!In(t) \subseteq Log!In(s) \cup Log!In(u)
  BY <1>1, <1>2 DEF Log!In
<1>4. Log!In(s) \subseteq Log!In(t)
  <2>1. \A i \in 1 .. Len(s) : i \in 1 .. Len(t)
    BY <1>1
  <2> QED
    BY <1>1, <2>1 DEF Log!In
<1>5. Log!In(u) \subseteq Log!In(t)
  <2>1. \A i \in 1 .. Len(u) : Len(s) + i \in 1 .. Len(t)
    BY <1>1
  <2> QED
    BY <1>1, <2>1 DEF Log!In
<1>6. ASSUME Log!InOrder(s), Log!InOrder(u), Before(Log!In(s), Log!In(u))
      PROVE  Log!InOrder(t)
  <2> SUFFICES ASSUME NEW i \in 1 .. Len(t), NEW j \in 1 .. Len(t), i < j
               PROVE  t[i] < t[j]
    BY DEF Log!InOrder
  <2>1. CASE i \in 1 .. Len(s) /\ j \in 1 .. Len(s)
    BY <1>1, <1>6, <2>1 DEF Log!InOrder
  <2>2. CASE i \in 1 .. Len(s) /\ j \notin 1 .. Len(s)
    <3>1. j - Len(s) \in 1 .. Len(u) /\ t[j] = u[j - Len(s)]
      BY <1>2, <2>2
    <3>2. t[i] \in Log!In(s) /\ t[j] \in Log!In(u)
      BY <1>1, <2>2, <3>1 DEF Log!In
    <3> QED
      BY <1>6, <3>2 DEF Before
  <2>3. CASE i \notin 1 .. Len(s)
    <3>1. j \notin 1 .. Len(s)
      BY <1>1, <2>3
    <3>2. i - Len(s) \in 1 .. Len(u) /\ t[i] = u[i - Len(s)]
      BY <1>2, <2>3
    <3>3. j - Len(s) \in 1 .. Len(u) /\ t[j] = u[j - Len(s)]
      BY <1>2, <3>1
    <3>4. i - Len(s) < j - Len(s)
      BY <1>1
    <3> QED
      BY <1>6, <3>2, <3>3, <3>4 DEF Log!InOrder
  <2> QED
    BY <2>1, <2>2, <2>3
<1> QED
  BY <1>1, <1>3, <1>4, <1>5, <1>6 DEF t

-----------------------------------------------------------------------------
LEMMA LogInit == Log!Init => LogInv
<1> SUFFICES ASSUME Log!Init PROVE LogInv
  OBVIOUS
<1>1. /\ logged = 0 /\ buffer = <<>> /\ batch = [f \in Users |-> <<>>]
      /\ sent = <<>> /\ lost = {} /\ dropped = {} /\ logCrossed = FALSE
  BY DEF Log!Init
<1>2. \A f \in Users : batch[f] = <<>>
  BY <1>1
<1>3. Log!UnderWay = {}
  BY <1>2, InEmpty DEF Log!UnderWay
<1>4. Log!TypeOK
  <2>1. batch \in [Users -> Seq(Log!Lines)] /\ buffer \in Seq(Log!Lines) /\ sent \in Seq(Log!Lines)
    BY <1>1
  <2>2. Len(buffer) <= MaxBuffer /\ logged \in 0 .. MaxLines
    BY <1>1
  <2> QED
    BY <1>1, <2>1, <2>2 DEF Log!TypeOK
<1>5. 1 .. logged = {}
  BY <1>1
<1>6. OnePlace
  BY <1>1, <1>2, <1>3, <1>5, InEmpty DEF OnePlace
<1>7. OneUpload
  BY <1>1, <1>2, <1>3, InEmpty DEF OneUpload, Before
<1> QED
  BY <1>1, <1>2, <1>4, <1>6, <1>7, InEmpty DEF LogInv

LEMMA EmitKeeps == LogInv /\ Log!Emit => LogInv'
<1> SUFFICES ASSUME LogInv, Log!Emit PROVE LogInv'
  OBVIOUS
<1>0. /\ logged \in Nat /\ logged < MaxLines /\ logged' = logged + 1
      /\ UNCHANGED <<batch, sent, lost, logCrossed>>
  BY DEF LogInv, Log!TypeOK, Log!Emit
<1>1. /\ buffer \in Seq(Log!Lines) /\ Len(buffer) <= MaxBuffer /\ Log!InOrder(buffer)
      /\ MaxBuffer \in Nat \ {0} /\ batch \in [Users -> Seq(Log!Lines)] /\ sent \in Seq(Log!Lines)
      /\ lost \subseteq Log!Lines /\ dropped \subseteq Log!Lines /\ logCrossed \in BOOLEAN
      /\ \A f \in Users : Log!InOrder(batch[f])
  BY DEF LogInv, Log!TypeOK
<1> DEFINE n == logged'
<1>2. n \in Log!Lines /\ 1 .. n = (1 .. logged) \cup {n} /\ \A x \in 1 .. logged : x < n
  BY <1>0 DEF Log!Lines
<1>3. OnePlace
  BY DEF LogInv
<1>4. \A x \in Log!In(buffer) \cup Log!UnderWay \cup Log!In(sent) \cup lost \cup dropped : x < n
  BY <1>2, <1>3 DEF OnePlace
<1>5. Log!UnderWay' = Log!UnderWay /\ Log!In(sent)' = Log!In(sent)
  BY <1>0 DEF Log!UnderWay, Log!In
<1> HIDE DEF n
<1>6. PICK kept \in Seq(Log!Lines), gone \in SUBSET Log!Lines :
        /\ buffer' = Append(kept, n) /\ dropped' = dropped \cup gone
        /\ Log!In(buffer) = Log!In(kept) \cup gone /\ Log!In(kept) \cap gone = {}
        /\ Log!InOrder(kept) /\ Len(kept) < MaxBuffer
  <2>1. CASE Len(buffer) < MaxBuffer
    <3>1. buffer' = Append(buffer, n) /\ dropped' = dropped
      BY <2>1 DEF Log!Emit, n
    <3>2. /\ {} \in SUBSET Log!Lines /\ dropped' = dropped \cup {}
          /\ Log!In(buffer) = Log!In(buffer) \cup {}
          /\ Log!In(buffer) \cap {} = {}
      BY <3>1
    <3> QED
      BY <1>1, <2>1, <3>1, <3>2
  <2>2. CASE ~(Len(buffer) < MaxBuffer)
    <3>1. buffer' = Append(Tail(buffer), n) /\ dropped' = dropped \cup {Head(buffer)}
      BY <2>2 DEF Log!Emit, n
    <3>2. buffer # <<>> /\ Len(buffer) = MaxBuffer
      BY <1>1, <2>2
    <3>3. /\ Tail(buffer) \in Seq(Log!Lines) /\ Len(Tail(buffer)) = Len(buffer) - 1
          /\ Head(buffer) \in Log!Lines
          /\ Log!In(buffer) = Log!In(Tail(buffer)) \cup {Head(buffer)}
          /\ Head(buffer) \notin Log!In(Tail(buffer))
          /\ Log!InOrder(Tail(buffer))
      BY <1>1, <3>2, InTail
    <3>4. /\ {Head(buffer)} \in SUBSET Log!Lines /\ Log!In(Tail(buffer)) \cap {Head(buffer)} = {}
          /\ Len(Tail(buffer)) < MaxBuffer
      BY <1>1, <3>2, <3>3
    <3> QED
      BY <3>1, <3>3, <3>4
  <2> QED
    BY <2>1, <2>2
<1>7. \A y \in Log!In(kept) : y < n
  BY <1>4, <1>6
<1>8. /\ buffer' \in Seq(Log!Lines) /\ Len(buffer') = Len(kept) + 1
      /\ Log!In(buffer') = Log!In(kept) \cup {n} /\ Log!InOrder(buffer')
  BY <1>2, <1>6, <1>7, InAppend
<1>9. n \notin Log!In(buffer) \cup Log!UnderWay \cup Log!In(sent) \cup lost \cup dropped
  <2>1. n \in Nat
    BY <1>0 DEF n
  <2> QED
    BY <1>4, <2>1
<1>10. Log!TypeOK'
  <2>1. Len(buffer') <= MaxBuffer
    BY <1>1, <1>6, <1>8
  <2>2. logged' \in 0 .. MaxLines
    BY <1>0
  <2>3. dropped' \subseteq Log!Lines
    BY <1>1, <1>6
  <2> QED
    BY <1>0, <1>1, <1>8, <2>1, <2>2, <2>3 DEF Log!TypeOK
<1>11. OnePlace'
  <2>1. 1 .. logged' = Log!In(buffer') \cup Log!UnderWay' \cup Log!In(sent) \cup lost'
             \cup dropped'
    BY <1>0, <1>2, <1>3, <1>5, <1>6, <1>8 DEF OnePlace, n
  <2>2. Log!In(buffer') \cap (Log!UnderWay' \cup Log!In(sent) \cup lost' \cup dropped') = {}
    BY <1>0, <1>3, <1>5, <1>6, <1>8, <1>9 DEF OnePlace
  <2>3. Log!UnderWay' \cap (Log!In(sent) \cup lost' \cup dropped') = {}
    BY <1>0, <1>3, <1>5, <1>6 DEF OnePlace
  <2>4. Log!In(sent) \cap (lost' \cup dropped') = {}
    BY <1>0, <1>3, <1>6 DEF OnePlace
  <2>5. \A f, g \in Users : f # g => Log!In(batch'[f]) \cap Log!In(batch'[g]) = {}
    BY <1>0, <1>3 DEF OnePlace
  <2> QED
    BY <1>0, <2>1, <2>2, <2>3, <2>4, <2>5 DEF OnePlace
<1>12. ASSUME ~logCrossed' PROVE OneUpload'
  <2>1. OneUpload
    BY <1>0, <1>12 DEF LogInv
  <2>2. Before(Log!In(sent), Log!UnderWay' \cup Log!In(buffer'))
        /\ Before(Log!UnderWay', Log!In(buffer'))
    BY <1>4, <1>5, <1>6, <1>8, <2>1 DEF OneUpload, Before
  <2> QED
    BY <1>0, <2>1, <2>2 DEF OneUpload, Before
<1> QED
  BY <1>0, <1>1, <1>8, <1>10, <1>11, <1>12 DEF LogInv

(* An upload is taken from the buffer.                                     *)
LEMMA TakeKeeps == ASSUME LogInv, NEW f \in Users, Log!BeginFlush(f) PROVE LogInv'
<1>0. /\ batch[f] = <<>> /\ buffer # <<>> /\ batch' = [batch EXCEPT ![f] = buffer]
      /\ buffer' = <<>>
      /\ UNCHANGED <<logged, sent, lost, dropped>>
  BY DEF Log!BeginFlush
<1>1. /\ buffer \in Seq(Log!Lines) /\ Log!InOrder(buffer) /\ MaxBuffer \in Nat
      /\ batch \in [Users -> Seq(Log!Lines)] /\ \A g \in Users : Log!InOrder(batch[g])
      /\ logCrossed \in BOOLEAN
  BY DEF LogInv, Log!TypeOK
<1>2. OnePlace
  BY DEF LogInv
<1>3. batch'[f] = buffer /\ \A g \in Users : g # f => batch'[g] = batch[g]
  BY <1>0, <1>1
<1>4. Log!UnderWay' = Log!UnderWay \cup Log!In(buffer)
  BY <1>0, <1>3, InEmpty DEF Log!UnderWay
<1>5. Log!In(buffer') = {} /\ Log!InOrder(buffer') /\ Log!In(batch[f]) = {}
  BY <1>0, InEmpty
<1>6. logCrossed' \in BOOLEAN /\ (logCrossed => logCrossed')
      /\ (~logCrossed' => \A g \in Users : batch[g] = <<>>)
  BY <1>1 DEF Log!BeginFlush
<1>7. Log!TypeOK'
  <2>1. batch' \in [Users -> Seq(Log!Lines)]
    BY <1>0, <1>1
  <2>2. buffer' \in Seq(Log!Lines) /\ Len(buffer') <= MaxBuffer
    BY <1>0, <1>1
  <2> QED
    BY <1>0, <1>6, <2>1, <2>2 DEF Log!TypeOK, LogInv
<1>8. OnePlace'
  <2>1. \A g, h \in Users : g # h => Log!In(batch'[g]) \cap Log!In(batch'[h]) = {}
    <3> SUFFICES ASSUME NEW g \in Users, NEW h \in Users, g # h
                 PROVE  Log!In(batch'[g]) \cap Log!In(batch'[h]) = {}
      OBVIOUS
    <3>1. \A k \in Users : Log!In(batch[k]) \subseteq Log!UnderWay
      BY DEF Log!UnderWay
    <3> QED
      BY <1>2, <1>3, <3>1 DEF OnePlace
  <2>2. /\ 1 .. logged = Log!In(buffer') \cup Log!UnderWay' \cup Log!In(sent) \cup lost
             \cup dropped
        /\ Log!In(buffer') \cap (Log!UnderWay' \cup Log!In(sent) \cup lost \cup dropped) = {}
        /\ Log!UnderWay' \cap (Log!In(sent) \cup lost \cup dropped) = {}
        /\ Log!In(sent) \cap (lost \cup dropped) = {}
    BY <1>2, <1>4, <1>5 DEF OnePlace
  <2> QED
    BY <1>0, <2>1, <2>2 DEF OnePlace
<1>9. \A g \in Users : Log!InOrder(batch'[g])
  BY <1>1, <1>3
<1>10. ASSUME ~logCrossed' PROVE OneUpload'
  <2>1. OneUpload
    BY <1>6, <1>10 DEF LogInv
  <2>2. \A g \in Users : batch[g] = <<>>
    BY <1>6, <1>10
  <2>3. \A g, h \in Users : batch'[g] # <<>> /\ batch'[h] # <<>> => g = h
    BY <1>3, <2>2
  <2>4. Log!UnderWay' = Log!In(buffer)
    BY <1>4, <2>2, InEmpty DEF Log!UnderWay
  <2>5. Before(Log!In(sent), Log!UnderWay' \cup Log!In(buffer'))
        /\ Before(Log!UnderWay', Log!In(buffer'))
    BY <1>5, <2>1, <2>4 DEF OneUpload, Before
  <2> QED
    BY <1>0, <2>1, <2>3, <2>5 DEF OneUpload, Before
<1> QED
  BY <1>5, <1>7, <1>8, <1>9, <1>10 DEF LogInv

(* An upload ends; its lines are at the cloud, or lost.                    *)
LEMMA EndKeeps == ASSUME LogInv, NEW f \in Users, Log!Uploaded(f) \/ Log!UploadLost(f)
    PROVE LogInv'
<1>0. /\ batch[f] # <<>> /\ batch' = [batch EXCEPT ![f] = <<>>]
      /\ UNCHANGED <<logged, buffer, dropped, logCrossed>>
      /\ \/ sent' = sent \o batch[f] /\ lost' = lost
         \/ sent' = sent /\ lost' = lost \cup Log!In(batch[f])
  BY DEF Log!Uploaded, Log!UploadLost
<1>1. /\ buffer \in Seq(Log!Lines) /\ Log!InOrder(buffer) /\ sent \in Seq(Log!Lines)
      /\ lost \subseteq Log!Lines
      /\ batch \in [Users -> Seq(Log!Lines)] /\ \A g \in Users : Log!InOrder(batch[g])
  BY DEF LogInv, Log!TypeOK
<1>2. OnePlace
  BY DEF LogInv
<1>3. batch'[f] = <<>> /\ \A g \in Users : g # f => batch'[g] = batch[g]
  BY <1>0, <1>1
<1>4. Log!In(batch[f]) \subseteq Log!UnderWay /\ Log!In(batch[f]) \subseteq Log!Lines
      /\ batch[f] \in Seq(Log!Lines)
  BY <1>1, InLines DEF Log!UnderWay
<1>5. Log!UnderWay' = Log!UnderWay \ Log!In(batch[f])
  <2>1. Log!UnderWay' = UNION {Log!In(batch'[g]) : g \in Users}
    BY DEF Log!UnderWay
  <2>2. \A g \in Users : g # f => Log!In(batch[g]) \cap Log!In(batch[f]) = {}
    BY <1>2 DEF OnePlace
  <2>3. \A g \in Users : Log!In(batch'[g]) = IF g = f THEN {} ELSE Log!In(batch[g])
    BY <1>3, InEmpty
  <2> QED
    BY <2>1, <2>2, <2>3 DEF Log!UnderWay
<1>6. sent' \in Seq(Log!Lines) /\ lost' \subseteq Log!Lines
  BY <1>0, <1>1, <1>4, InJoined
<1>7. Log!TypeOK'
  <2>1. batch' \in [Users -> Seq(Log!Lines)]
    BY <1>0, <1>1
  <2> QED
    BY <1>0, <1>6, <2>1 DEF Log!TypeOK, LogInv
<1>8. \/ Log!In(sent') = Log!In(sent) \cup Log!In(batch[f]) /\ lost' = lost
      \/ Log!In(sent') = Log!In(sent) /\ lost' = lost \cup Log!In(batch[f])
  BY <1>0, <1>1, <1>4, InJoined
<1>9. OnePlace'
  <2>1. \A g, h \in Users : g # h => Log!In(batch'[g]) \cap Log!In(batch'[h]) = {}
    BY <1>2, <1>3, InEmpty DEF OnePlace
  <2>2. /\ 1 .. logged = Log!In(buffer) \cup Log!UnderWay' \cup Log!In(sent') \cup lost'
             \cup dropped
        /\ Log!In(buffer) \cap (Log!UnderWay' \cup Log!In(sent') \cup lost' \cup dropped) = {}
        /\ Log!UnderWay' \cap (Log!In(sent') \cup lost' \cup dropped) = {}
        /\ Log!In(sent') \cap (lost' \cup dropped) = {}
    BY <1>2, <1>4, <1>5, <1>8 DEF OnePlace
  <2> QED
    BY <1>0, <2>1, <2>2 DEF OnePlace
<1>10. \A g \in Users : Log!InOrder(batch'[g])
  BY <1>1, <1>3, InEmpty
<1>11. ASSUME ~logCrossed' PROVE OneUpload'
  <2>1. OneUpload
    BY <1>0, <1>11 DEF LogInv
  <2>2. \A g \in Users : batch'[g] = <<>>
    BY <1>0, <1>3, <2>1 DEF OneUpload
  <2>3. Log!UnderWay' = {}
    BY <2>2, InEmpty DEF Log!UnderWay
  <2>4. Before(Log!In(sent), Log!In(batch[f]))
        /\ Before(Log!In(sent) \cup Log!In(batch[f]), Log!In(buffer))
    BY <1>4, <2>1 DEF OneUpload, Before
  <2>5. Log!InOrder(sent')
    BY <1>0, <1>1, <1>4, <2>1, <2>4, InJoined DEF OneUpload
  <2>6. Before(Log!In(sent'), Log!UnderWay' \cup Log!In(buffer))
        /\ Before(Log!UnderWay', Log!In(buffer))
    BY <1>8, <2>3, <2>4 DEF Before
  <2> QED
    BY <1>0, <2>2, <2>5, <2>6 DEF OneUpload, Before
<1> QED
  BY <1>0, <1>1, <1>7, <1>9, <1>10, <1>11 DEF LogInv

LEMMA LogStep == LogInv /\ [Log!Next]_(Log!logVars) => LogInv'
<1> SUFFICES ASSUME LogInv, [Log!Next]_(Log!logVars) PROVE LogInv'
  OBVIOUS
<1>1. CASE UNCHANGED Log!logVars
  <2>1. UNCHANGED <<logged, buffer, batch, sent, lost, dropped, logCrossed>>
    BY <1>1 DEF Log!logVars
  <2>2. Log!TypeOK'
    BY <2>1 DEF LogInv, Log!TypeOK
  <2>3. Log!UnderWay' = Log!UnderWay
    BY <2>1 DEF Log!UnderWay
  <2>4. OnePlace'
    BY <2>1, <2>3 DEF LogInv, OnePlace
  <2>5. OneUpload => OneUpload'
    BY <2>1, <2>3 DEF OneUpload
  <2> QED
    BY <2>1, <2>2, <2>4, <2>5 DEF LogInv
<1>2. CASE Log!Emit
  BY <1>2, EmitKeeps
<1>3. ASSUME NEW f \in Users, Log!BeginFlush(f)
      PROVE  LogInv'
  BY <1>3, TakeKeeps
<1>4. ASSUME NEW f \in Users, Log!Uploaded(f) \/ Log!UploadLost(f)
      PROVE  LogInv'
  BY <1>4, EndKeeps
<1>5. CASE Log!NothingToFlush
  BY <1>1, <1>5 DEF Log!NothingToFlush
<1> QED
  BY <1>1, <1>2, <1>3, <1>4, <1>5 DEF Log!Next

LEMMA LogShows == LogInv => Log!EachLineOnce
BY DEF LogInv, OnePlace, OneUpload, Log!EachLineOnce

HIDE LogConstants DEF logged, buffer, batch, sent, lost, dropped, logCrossed, Log!LogAssumption

LEMMA LogInvariant == CabinetSpec => [](focus = "logs" => LogInv)
<1>1. CabinetInit => (focus = "logs" => LogInv)
  BY LogInit DEF CabinetInit
<1>2. (focus = "logs" => LogInv) /\ [CabinetNext]_cells => (focus = "logs" => LogInv)'
  <2>1. [CabinetNext]_cells /\ focus = "logs" => [Log!Next]_(Log!logVars)
    BY DEF CabinetNext, cells, Log!logVars
  <2> QED
    BY <2>1, LogStep, FocusStays
<1> QED
  BY <1>1, <1>2, PTL DEF CabinetSpec

-----------------------------------------------------------------------------
(* The tag writer.  The cells by the names that TagWriting gives them; one *)
(* that was taken has the word writer before it.                           *)
at == c1
says == c2
writerCache == c3
holder == c4
on == c5
chosen == c6
scanTimer == c7
busy == c8
scan == c9
lastUid == c10
writerWriting == c11
writerButton == c12
limit == c13
resume == c14
write == c15
results == c16
mapped == c17
writerMoves == c18
strayed == c19
sure == c20

USE WriterConstants DEF at, says, writerCache, holder, on, chosen, scanTimer, busy, scan, lastUid,
    writerWriting, writerButton, limit, resume, write, results, mapped, writerMoves, strayed, sure,
    Writer!WriterAssumption

Active == {"waiting", "holding", "half"}

(* A write that is under way has an attempt left; while it is at the tag   *)
(* it has the lock of its reader, and so has the scan.                     *)
WritesGoOn == \A w \in Writer!Writes : write[w].pc \in Active => write[w].tries < Tries
LockHeld ==
  /\ \A w \in Writer!Writes : write[w].pc \in {"holding", "half"} =>
       holder[write[w].reader] = w /\ write[w].tag \in WriterTags
  /\ scan.pc = "holding" => holder[scan.reader] = Writer!Scanner

(* A reader remembers what the tag says, but for the tag it is writing.    *)
HalfOn(r, t) == \E w \in Writer!Writes :
                  write[w].pc = "half" /\ write[w].reader = r /\ write[w].tag = t
Remembers == \A r \in Readers, t \in WriterTags :
  t \in strayed \/ HalfOn(r, t) \/ writerCache[r][t] \in {Writer!Unread, says[t]}

(* While the screen waits for a write it is sure of, that one alone is     *)
(* under way, at the tag that is shown, or has told what the tag says.     *)
Alone(w) == \A v \in Writer!Writes : v # w => write[v].pc \in {"idle", "ended"}
AtWork(w) == /\ write[w].pc \in Active /\ results = <<>> /\ at[write[w].reader] = lastUid
             /\ write[w].pc \in {"holding", "half"} => write[w].tag = lastUid
Told(w) == /\ write[w].pc = "ended" /\ Len(results) = 1
           /\ results[1].ok /\ lastUid \in WriterTags /\ lastUid \notin strayed =>
                says[lastUid] = results[1].product
SureOfWrite == sure /\ writerWriting => \E w \in Writer!Writes : Alone(w) /\ (AtWork(w) \/ Told(w))

TagInv == Writer!TypeOK /\ WritesGoOn /\ LockHeld /\ Remembers /\ SureOfWrite

LEMMA WriteFacts ==
  /\ Writer!FirstReader \in Readers /\ Writer!FirstProduct \in Products
  /\ Writer!Unread \notin Writer!Says /\ Writer!Scanner \notin Writer!Writes
  /\ Writer!Nobody \notin Writer!Writes /\ Writer!Nobody # Writer!Scanner
  /\ Writer!Writes \subseteq Writer!Nobody .. Writer!Scanner
  /\ Writer!Scanner \in Writer!Nobody .. Writer!Scanner
  /\ Writer!Nobody \in Writer!Nobody .. Writer!Scanner
  /\ Writer!NoWrite \in [pc : {"idle", "waiting", "holding", "half", "ended"}, reader : Readers,
                  product : Products, tag : WriterTags \cup {NoWriterTag}, tries : 0 .. Tries]
  /\ Writer!NoScan \in [pc : {"idle", "waiting", "holding", "told"}, reader : Readers,
                 tag : WriterTags \cup {NoWriterTag}]
<1>1. Writer!FirstReader \in Readers /\ Writer!FirstProduct \in Products
  BY DEF Writer!FirstReader, Writer!FirstProduct
<1> QED
  BY <1>1 DEF Writer!Unread, Writer!Says, Writer!Scanner, Writer!Writes, Writer!Nobody,
              Writer!NoWrite, Writer!NoScan

LEMMA TagInit == Writer!Init => TagInv
<1> SUFFICES ASSUME Writer!Init PROVE TagInv
  OBVIOUS
<1>1. \A w \in Writer!Writes : write[w] = Writer!NoWrite /\ write[w].pc = "idle"
  BY DEF Writer!Init, Writer!NoWrite
<1>2. write \in [Writer!Writes -> [pc : {"idle", "waiting", "holding", "half", "ended"},
    reader : Readers,
                            product : Products, tag : WriterTags \cup {NoWriterTag},
                                tries : 0 .. Tries]]
  BY WriteFacts DEF Writer!Init
<1>3. scan = Writer!NoScan /\ scan.pc = "idle"
  BY DEF Writer!Init, Writer!NoScan
<1>4. /\ at \in [Readers -> WriterTags \cup {NoWriterTag}]
      /\ \A r, q \in Readers : at[r] = at[q] /\ r # q => at[r] = NoWriterTag
  BY DEF Writer!Init
<1>5. /\ says \in [WriterTags -> Writer!Says]
      /\ writerCache \in [Readers -> [WriterTags -> Writer!Says \cup {Writer!Unread}]]
      /\ holder \in [Readers -> Writer!Nobody .. Writer!Scanner]
      /\ mapped \in [WriterTags -> Products \cup {"none"}]
  BY WriteFacts DEF Writer!Init, Writer!Says
<1>0. writerMoves \in 0 .. MaxMoves /\ results = <<>>
  BY DEF Writer!Init
<1>6. /\ strayed \subseteq WriterTags /\ sure \in BOOLEAN
      /\ on \in BOOLEAN /\ chosen \in Readers /\ scanTimer \in BOOLEAN /\ busy \in BOOLEAN
      /\ lastUid \in WriterTags \cup {NoWriterTag} /\ writerWriting \in BOOLEAN
      /\ writerButton \in BOOLEAN
      /\ limit \in BOOLEAN /\ resume \in BOOLEAN /\ ~writerWriting
  BY WriteFacts DEF Writer!Init
<1>7. results \in Seq([ok : BOOLEAN, product : Products])
  BY <1>0
<1>8. Writer!TypeOK
  BY <1>0, <1>2, <1>3, <1>4, <1>5, <1>6, <1>7, WriteFacts DEF Writer!TypeOK
<1>9. Remembers
  BY DEF Writer!Init, Remembers
<1> QED
  BY <1>1, <1>3, <1>6, <1>8, <1>9 DEF TagInv, WritesGoOn, LockHeld, SureOfWrite, Active

(* What a reader reads into its cache is what the tag says, or strays.     *)
LEMMA ReadKeeps ==
  ASSUME Writer!TypeOK, Remembers, NEW r \in Readers, NEW t \in WriterTags \cup {NoWriterTag},
         Writer!Remembered(r, t),
         UNCHANGED <<says, write>>
  PROVE  /\ writerCache' \in [Readers -> [WriterTags -> Writer!Says \cup {Writer!Unread}]]
         /\ strayed' \subseteq WriterTags
         /\ Remembers'
<1>1. CASE t = NoWriterTag \/ writerCache[r][t] # Writer!Unread
  BY <1>1 DEF Writer!Remembered, Writer!TypeOK, Remembers, HalfOn
<1>2. CASE t # NoWriterTag /\ writerCache[r][t] = Writer!Unread
  <2>1. t \in WriterTags
    BY <1>2
  <2>2. PICK v \in Writer!Read(r, t) : /\ writerCache' = [writerCache EXCEPT ![r][t] = v]
                                /\ strayed' = IF at[r] = t THEN strayed ELSE strayed \cup {t}
    BY <1>2 DEF Writer!Remembered
  <2>3. v \in Writer!Says
    BY <2>1 DEF Writer!Read, Writer!TypeOK, Writer!Says
  <2>4. /\ at[r] = t => v = says[t] /\ strayed' = strayed
        /\ at[r] # t => strayed' = strayed \cup {t}
    BY <2>2 DEF Writer!Read
  <2>5. writerCache' \in [Readers -> [WriterTags -> Writer!Says \cup {Writer!Unread}]]
        /\ strayed' \subseteq WriterTags
    BY <2>1, <2>2, <2>3, <2>4 DEF Writer!TypeOK
  <2>6. \A q \in Readers, u \in WriterTags : writerCache'[q][u] = IF q = r
        /\ u = t THEN v ELSE writerCache[q][u]
    BY <2>1, <2>2 DEF Writer!TypeOK
  <2>7. ASSUME NEW q \in Readers, NEW u \in WriterTags
        PROVE  u \in strayed' \/ HalfOn(q, u)' \/ writerCache'[q][u] \in {Writer!Unread, says'[u]}
    BY <2>4, <2>6 DEF Remembers, HalfOn
  <2> QED
    BY <2>5, <2>7 DEF Remembers
<1> QED
  BY <1>1, <1>2

LEMMA TagInvFacts ==
  TagInv => Writer!TypeOK /\ WritesGoOn /\ LockHeld /\ Remembers /\ SureOfWrite
BY DEF TagInv

(* A step that leaves the writes, the tags and the caches alone.           *)
LEMMA ElsewhereKeeps ==
  ASSUME TagInv, UNCHANGED <<at, says, writerCache, write, strayed>>
  PROVE  WritesGoOn' /\ Remembers' /\ (UNCHANGED <<holder, scan>> => LockHeld')
BY DEF TagInv, WritesGoOn, Remembers, HalfOn, LockHeld, Active
LEMMA SureKeeps ==
  ASSUME TagInv, UNCHANGED <<at, says, write, results, strayed, lastUid>>,
         sure' /\ writerWriting' => sure /\ writerWriting
  PROVE  SureOfWrite'
BY DEF TagInv, SureOfWrite, Alone, AtWork, Told, Active

WriteRecord == [pc : {"idle", "waiting", "holding", "half", "ended"}, reader : Readers,
                product : Products, tag : WriterTags \cup {NoWriterTag}, tries : 0 .. Tries]

LEMMA WriteSet ==
  ASSUME write \in [Writer!Writes -> WriteRecord], NEW w \in Writer!Writes, NEW x \in WriteRecord,
         write' = [write EXCEPT ![w] = x]
  PROVE  write' \in [Writer!Writes -> WriteRecord] /\ write'[w] = x
         /\ \A v \in Writer!Writes : v # w => write'[v] = write[v]
OBVIOUS

LEMMA EndedGives ==
  ASSUME Writer!TypeOK, NEW w \in Writer!Writes, NEW ok \in BOOLEAN, Writer!Ended(w, ok)
  PROVE  /\ write' \in [Writer!Writes -> WriteRecord] /\ write'[w].pc = "ended"
         /\ \A v \in Writer!Writes : v # w => write'[v] = write[v]
         /\ results' \in Seq([ok : BOOLEAN, product : Products])
         /\ results' = Append(results, [ok |-> ok, product |-> write[w].product])
<1>1. [Writer!NoWrite EXCEPT !.pc = "ended"] \in WriteRecord
      /\ [Writer!NoWrite EXCEPT !.pc = "ended"].pc = "ended"
  BY WriteFacts DEF Writer!NoWrite, WriteRecord
<1>2. write \in [Writer!Writes -> WriteRecord]
      /\ write' = [write EXCEPT ![w] = [Writer!NoWrite EXCEPT !.pc = "ended"]]
  BY DEF Writer!Ended, Writer!TypeOK, WriteRecord
<1>3. write[w].product \in Products
  BY <1>2 DEF WriteRecord
<1>4. results' = Append(results, [ok |-> ok, product |-> write[w].product])
  BY DEF Writer!Ended
<1>5. results' \in Seq([ok : BOOLEAN, product : Products])
  BY <1>3, <1>4 DEF Writer!TypeOK
<1>6. /\ write' \in [Writer!Writes -> WriteRecord]
      /\ write'[w] = [Writer!NoWrite EXCEPT !.pc = "ended"]
      /\ \A v \in Writer!Writes : v # w => write'[v] = write[v]
  BY <1>1, <1>2, WriteSet
<1> QED
  BY <1>1, <1>4, <1>5, <1>6

LEMMA FailedGives ==
  ASSUME Writer!TypeOK, WritesGoOn, NEW w \in Writer!Writes, write[w].pc \in Active,
         Writer!Failed(w)
  PROVE  /\ write' \in [Writer!Writes -> WriteRecord]
         /\ \A v \in Writer!Writes : v # w => write'[v] = write[v]
         /\ results' \in Seq([ok : BOOLEAN, product : Products])
         /\ \/ /\ write'[w].pc = "waiting" /\ write'[w].reader = write[w].reader
               /\ write'[w].tries < Tries /\ results' = results
            \/ /\ write'[w].pc = "ended"
               /\ results' = Append(results, [ok |-> FALSE, product |-> write[w].product])
<1>1. CASE write[w].tries + 1 = Tries
  BY <1>1, EndedGives DEF Writer!Failed
<1>2. CASE write[w].tries + 1 # Tries
  <2>0. write \in [Writer!Writes -> WriteRecord] /\ write[w] \in WriteRecord
    BY DEF Writer!TypeOK, WriteRecord
  <2>a. write[w].tries \in 0 .. Tries /\ write[w].tries < Tries
    BY <2>0 DEF WriteRecord, WritesGoOn
  <2>1. /\ write \in [Writer!Writes -> WriteRecord] /\ write[w].tries + 1 \in 0 .. Tries
        /\ write[w].tries + 1 < Tries
    BY <1>2, <2>0, <2>a
  <2>2. results' = results /\ results' \in Seq([ok : BOOLEAN, product : Products])
    BY <1>2 DEF Writer!Failed, Writer!TypeOK
  <2>3. write' = [write EXCEPT ![w] = [write[w] EXCEPT !.pc = "waiting", !.tries = @ + 1]]
    BY <1>2, <2>1 DEF Writer!Failed, WriteRecord
  <2>4. write[w] \in WriteRecord
    BY <2>1
  <2>5. [write[w] EXCEPT !.pc = "waiting", !.tries = @ + 1] \in WriteRecord
    <3>1. ASSUME NEW x \in WriteRecord, NEW n \in 0 .. Tries
          PROVE  [x EXCEPT !.pc = "waiting", !.tries = n] \in WriteRecord
      BY <3>1 DEF WriteRecord
    <3> QED
      BY <2>1, <2>4, <3>1
  <2>6. /\ write' \in [Writer!Writes -> WriteRecord]
        /\ write'[w] = [write[w] EXCEPT !.pc = "waiting", !.tries = @ + 1]
        /\ \A v \in Writer!Writes : v # w => write'[v] = write[v]
    BY <2>1, <2>3, <2>5, WriteSet
  <2> QED
    BY <2>1, <2>2, <2>4, <2>6 DEF WriteRecord
<1> QED
  BY <1>1, <1>2

(* A failed attempt that changed nothing on the tag it was at.             *)
LEMMA FailureKeeps ==
  ASSUME TagInv, NEW w \in Writer!Writes, write[w].pc = "waiting", Writer!Failed(w),
         UNCHANGED <<Writer!driverVars, scan, strayed, lastUid, writerWriting, sure>>
  PROVE  WritesGoOn' /\ LockHeld' /\ Remembers' /\ SureOfWrite'
<1>1. /\ Writer!TypeOK /\ WritesGoOn /\ LockHeld /\ Remembers /\ SureOfWrite
      /\ UNCHANGED <<at, says, writerCache, holder>>
  BY DEF TagInv, Writer!driverVars
<1>2. /\ write' \in [Writer!Writes -> WriteRecord]
      /\ \A v \in Writer!Writes : v # w => write'[v] = write[v]
      /\ \/ /\ write'[w].pc = "waiting" /\ write'[w].reader = write[w].reader
            /\ write'[w].tries < Tries /\ results' = results
         \/ /\ write'[w].pc = "ended"
            /\ results' = Append(results, [ok |-> FALSE, product |-> write[w].product])
  BY <1>1, FailedGives DEF Active
<1>3. WritesGoOn' /\ LockHeld'
  BY <1>1, <1>2 DEF WritesGoOn, LockHeld, Active
<1>4. Remembers'
  BY <1>1, <1>2 DEF Remembers, HalfOn
<1>5. ASSUME sure', writerWriting'
      PROVE \E v \in Writer!Writes : (Alone(v) /\ (AtWork(v) \/ Told(v)))'
  <2>1. PICK v \in Writer!Writes : Alone(v) /\ (AtWork(v) \/ Told(v))
    BY <1>1, <1>5 DEF SureOfWrite
  <2>2. v = w /\ AtWork(w)
    BY <2>1 DEF Alone, Told
  <2>3. Alone(w)'
    BY <1>2, <2>1, <2>2 DEF Alone
  <2>4. CASE write'[w].pc = "waiting"
    BY <1>1, <1>2, <2>2, <2>3, <2>4 DEF AtWork, Active
  <2>5. CASE write'[w].pc = "ended"
    <3>1. results' = <<[ok |-> FALSE, product |-> write[w].product]>>
      BY <1>2, <2>2, <2>5 DEF AtWork
    <3>2. Told(w)'
      BY <2>5, <3>1 DEF Told
    <3> QED
      BY <2>3, <3>2
  <2> QED
    BY <1>2, <2>4, <2>5
<1> QED
  BY <1>3, <1>4, <1>5 DEF SureOfWrite

LEMMA ScreenActionKeeps ==
  TagInv /\ (Writer!Enter \/ Writer!Leave \/ Writer!Timeout \/ Writer!Resume \/ Writer!ScanTick
             \/ (\E r \in Readers : Writer!Choose(r)))
    => TagInv'
<1> SUFFICES ASSUME TagInv,
                    Writer!Enter \/ Writer!Leave \/ Writer!Timeout \/ Writer!Resume
                               \/ Writer!ScanTick
                            \/ (\E r \in Readers : Writer!Choose(r))
             PROVE  TagInv'
  OBVIOUS
<1>1. Writer!TypeOK /\ LockHeld
  BY DEF TagInv
<1>a. UNCHANGED <<at, says, writerCache, holder, write, results, mapped, writerMoves, strayed,
    sure, lastUid>>
  BY DEF Writer!Enter, Writer!Leave, Writer!Timeout, Writer!Resume, Writer!ScanTick,
         Writer!Choose, Writer!driverVars, Writer!formVars, Writer!screenVars
<1>b. writerWriting' = writerWriting \/ ~writerWriting'
  BY DEF Writer!Enter, Writer!Leave, Writer!Timeout, Writer!Resume, Writer!ScanTick,
         Writer!Choose, Writer!screenVars
<1>c. scan' = scan \/ scan' = [pc |-> "waiting", reader |-> chosen, tag |-> NoWriterTag]
  BY DEF Writer!Enter, Writer!Leave, Writer!Timeout, Writer!Resume, Writer!ScanTick, Writer!Choose
<1>3. /\ on' \in BOOLEAN /\ scanTimer' \in BOOLEAN /\ busy' \in BOOLEAN
      /\ writerButton' \in BOOLEAN
      /\ limit' \in BOOLEAN /\ resume' \in BOOLEAN /\ writerWriting' \in BOOLEAN
  BY <1>1 DEF Writer!TypeOK, Writer!Enter, Writer!Leave, Writer!Timeout, Writer!Resume,
              Writer!ScanTick, Writer!Choose, Writer!driverVars, Writer!formVars, Writer!screenVars
<1>4. chosen' \in Readers
  BY <1>1, WriteFacts
     DEF Writer!TypeOK, Writer!Enter, Writer!Leave, Writer!Timeout, Writer!Resume,
         Writer!ScanTick, Writer!Choose, Writer!formVars
<1>5. scan' \in [pc : {"idle", "waiting", "holding", "told"}, reader : Readers,
    tag : WriterTags \cup {NoWriterTag}]
  BY <1>1, <1>c DEF Writer!TypeOK
<1>6. Writer!TypeOK'
  BY <1>1, <1>a, <1>3, <1>4, <1>5 DEF Writer!TypeOK
<1>7. WritesGoOn' /\ Remembers'
  BY <1>a, ElsewhereKeeps
<1>8. SureOfWrite'
  BY <1>a, <1>b, SureKeeps
<1>9. LockHeld'
  BY <1>1, <1>a, <1>c DEF LockHeld
<1> QED
  BY <1>6, <1>7, <1>8, <1>9 DEF TagInv

LEMMA ScanActionKeeps ==
  TagInv /\ (Writer!ScanTake \/ Writer!ScanRead \/ Writer!ScanShown
             \/ (\E r \in Readers : Writer!TrackerPoll(r))) => TagInv'
<1> SUFFICES ASSUME TagInv PROVE (Writer!ScanTake \/ Writer!ScanRead \/ Writer!ScanShown
                                   \/ (\E r \in Readers : Writer!TrackerPoll(r))) => TagInv'
  OBVIOUS
<1>0. Writer!TypeOK /\ WritesGoOn /\ LockHeld /\ Remembers /\ SureOfWrite
  BY DEF TagInv
<1>t. /\ scan \in [pc : {"idle", "waiting", "holding", "told"}, reader : Readers,
           tag : WriterTags \cup {NoWriterTag}]
      /\ holder \in [Readers -> Writer!Nobody .. Writer!Scanner]
      /\ write \in [Writer!Writes -> WriteRecord]
      /\ at \in [Readers -> WriterTags \cup {NoWriterTag}]
  BY <1>0 DEF Writer!TypeOK, WriteRecord
<1>1. CASE Writer!ScanTake
  <2>1. /\ holder[scan.reader] = Writer!Nobody
        /\ holder' = [holder EXCEPT ![scan.reader] = Writer!Scanner]
        /\ UNCHANGED <<at, says, writerCache, Writer!formVars, Writer!screenVars, write, results,
                   mapped, writerMoves, strayed, sure>>
    BY <1>1 DEF Writer!ScanTake, Writer!Free
  <2>2. PICK t \in {at[scan.reader], NoWriterTag} : scan' = [scan EXCEPT !.pc = "holding",
      !.tag = t]
    BY <1>1 DEF Writer!ScanTake
  <2>3. scan' \in [pc : {"idle", "waiting", "holding", "told"}, reader : Readers,
      tag : WriterTags \cup {NoWriterTag}]
        /\ scan'.pc = "holding" /\ scan'.reader = scan.reader
    BY <1>t, <2>2
  <2>4. holder' \in [Readers -> Writer!Nobody .. Writer!Scanner]
    BY <1>t, <2>1, WriteFacts
  <2>5. Writer!TypeOK'
    BY <1>0, <2>1, <2>3, <2>4 DEF Writer!TypeOK, Writer!formVars, Writer!screenVars
  <2>6. WritesGoOn' /\ Remembers' /\ SureOfWrite'
    BY <2>1, ElsewhereKeeps, SureKeeps DEF Writer!screenVars
  <2>7. LockHeld'
    BY <1>0, <1>t, <2>1, <2>3, WriteFacts DEF LockHeld, WriteRecord
  <2> QED
    BY <2>5, <2>6, <2>7 DEF TagInv
<1>2. CASE Writer!ScanRead
  <2>1. /\ scan.pc = "holding" /\ Writer!Remembered(scan.reader, scan.tag)
        /\ holder' = [holder EXCEPT ![scan.reader] = Writer!Nobody]
        /\ scan' = [scan EXCEPT !.pc = "told"]
        /\ UNCHANGED <<at, says, Writer!formVars, Writer!screenVars, write, results, mapped,
                   writerMoves, sure>>
    BY <1>2 DEF Writer!ScanRead
  <2>2. /\ writerCache' \in [Readers -> [WriterTags -> Writer!Says \cup {Writer!Unread}]]
        /\ strayed' \subseteq WriterTags /\ Remembers'
        /\ strayed \subseteq strayed'
    <3>1. strayed \subseteq strayed'
      BY <2>1 DEF Writer!Remembered
    <3> QED
      BY <1>0, <1>t, <2>1, <3>1, ReadKeeps
  <2>3. scan' \in [pc : {"idle", "waiting", "holding", "told"}, reader : Readers,
      tag : WriterTags \cup {NoWriterTag}]
        /\ scan'.pc = "told"
    BY <1>t, <2>1
  <2>4. holder' \in [Readers -> Writer!Nobody .. Writer!Scanner]
    BY <1>t, <2>1, WriteFacts
  <2>5. Writer!TypeOK'
    BY <1>0, <2>1, <2>2, <2>3, <2>4 DEF Writer!TypeOK, Writer!formVars, Writer!screenVars
  <2>6. WritesGoOn'
    BY <1>0, <2>1 DEF WritesGoOn
  <2>7. LockHeld'
    BY <1>0, <1>t, <2>1, <2>3, WriteFacts DEF LockHeld, WriteRecord
  <2>8. SureOfWrite'
    BY <1>0, <2>1, <2>2 DEF SureOfWrite, Alone, AtWork, Told, Writer!screenVars
  <2> QED
    BY <2>2, <2>5, <2>6, <2>7, <2>8 DEF TagInv
<1>3. CASE Writer!ScanShown
  <2>1. /\ busy' = FALSE /\ lastUid' = scan.tag /\ scan' = Writer!NoScan
        /\ sure' = (sure /\ lastUid' = lastUid)
        /\ UNCHANGED <<Writer!driverVars, Writer!formVars, scanTimer, writerWriting, writerButton,
                   limit, resume, write,
                       results, mapped, writerMoves, strayed>>
    BY <1>3 DEF Writer!ScanShown
  <2>2. Writer!TypeOK'
    BY <1>0, <1>t, <2>1, WriteFacts DEF Writer!TypeOK, Writer!driverVars, Writer!formVars
  <2>3. WritesGoOn' /\ Remembers'
    BY <2>1, ElsewhereKeeps DEF Writer!driverVars
  <2>4. LockHeld'
    BY <1>0, <2>1 DEF LockHeld, Writer!driverVars, Writer!NoScan
  <2>5. SureOfWrite'
    BY <1>0, <2>1 DEF SureOfWrite, Alone, AtWork, Told, Writer!driverVars
  <2> QED
    BY <2>2, <2>3, <2>4, <2>5 DEF TagInv
<1>4. ASSUME NEW r \in Readers, Writer!TrackerPoll(r) PROVE TagInv'
  <2>1. /\ Writer!Remembered(r, at[r]) /\ at[r] \in WriterTags \cup {NoWriterTag}
        /\ UNCHANGED <<at, says, holder, Writer!formVars, Writer!screenVars, scan, write, results,
                   mapped, writerMoves, sure>>
    BY <1>4, <1>t DEF Writer!TrackerPoll
  <2>2. /\ writerCache' \in [Readers -> [WriterTags -> Writer!Says \cup {Writer!Unread}]]
        /\ strayed' \subseteq WriterTags /\ Remembers'
    BY <1>0, <2>1, ReadKeeps
  <2>3. strayed \subseteq strayed'
    BY <2>1 DEF Writer!Remembered
  <2>4. Writer!TypeOK'
    BY <1>0, <2>1, <2>2 DEF Writer!TypeOK, Writer!formVars, Writer!screenVars
  <2>5. WritesGoOn' /\ LockHeld'
    BY <1>0, <2>1 DEF WritesGoOn, LockHeld
  <2>6. SureOfWrite'
    BY <1>0, <2>1, <2>3 DEF SureOfWrite, Alone, AtWork, Told, Writer!screenVars
  <2> QED
    BY <2>2, <2>4, <2>5, <2>6 DEF TagInv
<1> QED
  BY <1>1, <1>2, <1>3, <1>4

LEMMA CompleteKeeps == TagInv /\ Writer!Complete => TagInv'
<1> SUFFICES ASSUME TagInv, Writer!Complete PROVE TagInv'
  OBVIOUS
<1>1. Writer!TypeOK /\ LockHeld
  BY DEF TagInv
<1>2. /\ results # <<>> /\ results' = Tail(results) /\ limit' = FALSE
      /\ UNCHANGED <<at, says, writerCache, holder, Writer!formVars, busy, scan, lastUid, resume,
                 write, writerMoves,
                     strayed, sure>>
  BY DEF Writer!Complete, Writer!driverVars
<1>3. \/ writerWriting' = FALSE /\ writerButton' = TRUE /\ scanTimer' = TRUE
         /\ Writer!Register(Head(results).ok, Head(results).product)
      \/ ~writerWriting /\ UNCHANGED <<writerWriting, writerButton, scanTimer, mapped>>
  BY DEF Writer!Complete
<1>4. results' \in Seq([ok : BOOLEAN, product : Products]) /\ Head(results).product \in Products
  <2> DEFINE Result == [ok : BOOLEAN, product : Products]
  <2>1. results \in Seq(Result)
    BY <1>1 DEF Writer!TypeOK
  <2>2. \A r \in Result : r.product \in Products
    OBVIOUS
  <2> HIDE DEF Result
  <2>3. results' \in Seq(Result) /\ Head(results) \in Result
    BY <1>2, <2>1, HeadTailProperties
  <2>4. results' \in Seq([ok : BOOLEAN, product : Products])
    BY <2>3 DEF Result
  <2> QED
    BY <2>2, <2>3, <2>4
<1>5. mapped' \in [WriterTags -> Products \cup {"none"}]
  BY <1>1, <1>3, <1>4 DEF Writer!TypeOK, Writer!Register
<1>6. writerWriting' \in BOOLEAN /\ writerButton' \in BOOLEAN /\ scanTimer' \in BOOLEAN
  BY <1>1, <1>3 DEF Writer!TypeOK
<1>7. Writer!TypeOK'
  BY <1>1, <1>2, <1>4, <1>5, <1>6 DEF Writer!TypeOK, Writer!formVars
<1>8. WritesGoOn' /\ Remembers' /\ LockHeld'
  BY <1>2, ElsewhereKeeps
<1>9. SureOfWrite'
  BY <1>3 DEF SureOfWrite
<1> QED
  BY <1>7, <1>8, <1>9 DEF TagInv

LEMMA PressKeeps == ASSUME TagInv, NEW w \in Writer!Writes, NEW p \in Products, Writer!Press(w,
                           p) PROVE TagInv'
<1>1. Writer!TypeOK /\ LockHeld /\ WritesGoOn /\ Remembers
  BY DEF TagInv
<1>2. /\ lastUid # NoWriterTag /\ write[w] = Writer!NoWrite /\ writerWriting' = TRUE
      /\ writerButton' = FALSE
      /\ scanTimer' = FALSE /\ limit' = TRUE
      /\ UNCHANGED <<at, says, writerCache, holder, Writer!formVars, busy, scan, lastUid, resume,
                 results,
                     mapped, writerMoves, strayed>>
  BY DEF Writer!Press, Writer!driverVars
<1>3. sure' = (at[chosen] = lastUid /\ results = <<>>
                /\ \A v \in Writer!Writes : write[v].pc \in {"idle", "ended"})
  BY DEF Writer!Press
<1> DEFINE x == [Writer!NoWrite EXCEPT !.pc = "waiting", !.reader = chosen, !.product = p]
<1>4. x \in WriteRecord /\ x.pc = "waiting" /\ x.reader = chosen /\ x.tries = 0
  <2>1. \A n \in WriteRecord : [n EXCEPT !.pc = "waiting", !.reader = chosen,
      !.product = p] \in WriteRecord
    BY <1>1 DEF Writer!TypeOK, WriteRecord
  <2>2. Writer!NoWrite \in WriteRecord
    BY WriteFacts DEF WriteRecord
  <2> QED
    BY <2>1, <2>2 DEF Writer!NoWrite
<1>5. write \in [Writer!Writes -> WriteRecord] /\ write' = [write EXCEPT ![w] = x]
  BY <1>1 DEF Writer!TypeOK, WriteRecord, Writer!Press
<1> HIDE DEF x
<1>6. write' \in [Writer!Writes -> WriteRecord] /\ write'[w] = x
      /\ \A v \in Writer!Writes : v # w => write'[v] = write[v]
  BY <1>4, <1>5, WriteSet
<1>7. sure' \in BOOLEAN
  BY <1>3
<1>8. Writer!TypeOK'
  BY <1>1, <1>2, <1>6, <1>7 DEF Writer!TypeOK, Writer!formVars, WriteRecord
<1>9. WritesGoOn'
  BY <1>1, <1>4, <1>6 DEF WritesGoOn
<1>10. LockHeld'
  BY <1>1, <1>2, <1>4, <1>6 DEF LockHeld
<1>11. Remembers'
  BY <1>1, <1>2, <1>4, <1>6 DEF Remembers, HalfOn, Writer!NoWrite
<1>12. SureOfWrite'
  <2>1. ASSUME sure' PROVE (Alone(w) /\ AtWork(w))'
    <3>1. at[chosen] = lastUid /\ results = <<>>
          /\ \A v \in Writer!Writes : write[v].pc \in {"idle", "ended"}
      BY <1>3, <2>1
    <3> QED
      BY <1>2, <1>4, <1>6, <3>1 DEF Alone, AtWork, Active
  <2> QED
    BY <2>1 DEF SureOfWrite
<1> QED
  BY <1>8, <1>9, <1>10, <1>11, <1>12 DEF TagInv

LEMMA MoveKeeps ==
  ASSUME TagInv, NEW t \in WriterTags, NEW place \in SUBSET Readers,
         \A r, q \in place : r = q, Writer!Move(t, place)
  PROVE  TagInv'
<1>1. Writer!TypeOK /\ LockHeld /\ WritesGoOn /\ Remembers
  BY DEF TagInv
<1>2. /\ writerMoves < MaxMoves /\ writerMoves' = writerMoves + 1 /\ sure' = FALSE
      /\ \A r \in Readers : r \in place => at[r] = NoWriterTag
      /\ UNCHANGED <<says, writerCache, holder, Writer!formVars, Writer!screenVars, scan, write,
                 results, mapped, strayed>>
  BY DEF Writer!Move
<1>3. at' = [r \in Readers |-> CASE r \in place -> t
                                 [] r \notin place /\ at[r] = t -> NoWriterTag
                                 [] OTHER -> at[r]]
  BY DEF Writer!Move
<1>4. \A r \in Readers : /\ r \in place => at'[r] = t
                         /\ r \notin place /\ at[r] = t => at'[r] = NoWriterTag
                         /\ r \notin place /\ at[r] # t => at'[r] = at[r]
  BY <1>3
<1>5. at \in [Readers -> WriterTags \cup {NoWriterTag}] /\ \A r, q \in Readers : at[r] = at[q]
      /\ r # q => at[r] = NoWriterTag
  BY <1>1 DEF Writer!TypeOK
<1>6. at' \in [Readers -> WriterTags \cup {NoWriterTag}]
  <2>1. \A r \in Readers : at'[r] \in WriterTags \cup {NoWriterTag}
    BY <1>4, <1>5
  <2> QED
    BY <1>3, <2>1
<1>7. \A r, q \in Readers : at'[r] = at'[q] /\ r # q => at'[r] = NoWriterTag
  BY <1>4, <1>5
<1>8. writerMoves' \in 0 .. MaxMoves
  BY <1>1, <1>2 DEF Writer!TypeOK
<1>9. Writer!TypeOK'
  <2>1. UNCHANGED <<on, chosen, scanTimer, busy, lastUid, writerWriting, writerButton, limit,
      resume>>
    BY <1>2 DEF Writer!formVars, Writer!screenVars
  <2>2. sure' \in BOOLEAN
    BY <1>2
  <2> QED
    BY <1>1, <1>2, <1>6, <1>7, <1>8, <2>1, <2>2 DEF Writer!TypeOK
<1>10. WritesGoOn' /\ LockHeld' /\ Remembers'
  BY <1>1, <1>2 DEF WritesGoOn, LockHeld, Remembers, HalfOn
<1>11. SureOfWrite'
  BY <1>2 DEF SureOfWrite
<1> QED
  BY <1>9, <1>10, <1>11 DEF TagInv

LEMMA NoLockKeeps == ASSUME TagInv, NEW w \in Writer!Writes, Writer!WriteNoLock(w) PROVE TagInv'
<1>1. Writer!TypeOK /\ WritesGoOn /\ write[w].pc = "waiting" /\ Writer!Failed(w)
      /\ UNCHANGED <<Writer!driverVars, Writer!formVars, Writer!screenVars, scan, mapped,
                 writerMoves, strayed, sure>>
  BY DEF TagInv, Writer!WriteNoLock
<1>2. write' \in [Writer!Writes -> WriteRecord]
      /\ results' \in Seq([ok : BOOLEAN, product : Products])
  BY <1>1, FailedGives DEF Active
<1>3. Writer!TypeOK'
  BY <1>1, <1>2
     DEF Writer!TypeOK, WriteRecord, Writer!driverVars, Writer!formVars, Writer!screenVars
<1>4. WritesGoOn' /\ LockHeld' /\ Remembers' /\ SureOfWrite'
  BY <1>1, FailureKeeps DEF Writer!screenVars
<1> QED
  BY <1>3, <1>4 DEF TagInv

LEMMA WriterTakes == ASSUME TagInv, NEW w \in Writer!Writes, Writer!WriteTake(w) PROVE TagInv'
<1> DEFINE r == write[w].reader
<1>1. Writer!TypeOK /\ WritesGoOn /\ LockHeld /\ Remembers /\ SureOfWrite
  BY DEF TagInv
<1>2. /\ write[w].pc = "waiting" /\ holder[r] = Writer!Nobody
      /\ UNCHANGED <<at, says, writerCache, Writer!formVars, Writer!screenVars, scan, mapped,
                 writerMoves, strayed, sure>>
      /\ \/ /\ at[r] # NoWriterTag /\ holder' = [holder EXCEPT ![r] = w] /\ results' = results
            /\ write' = [write EXCEPT ![w].pc = "holding", ![w].tag = at[r]]
         \/ Writer!Failed(w) /\ holder' = holder
  BY DEF Writer!WriteTake, Writer!Free
<1>3. write \in [Writer!Writes -> WriteRecord] /\ write[w] \in WriteRecord /\ r \in Readers
      /\ holder \in [Readers -> Writer!Nobody .. Writer!Scanner]
      /\ at \in [Readers -> WriterTags \cup {NoWriterTag}]
  BY <1>1 DEF Writer!TypeOK, WriteRecord
<1>4. CASE Writer!Failed(w) /\ holder' = holder
  <2>1. write' \in [Writer!Writes -> WriteRecord]
        /\ results' \in Seq([ok : BOOLEAN, product : Products])
    BY <1>1, <1>2, <1>4, FailedGives DEF Active
  <2>2. Writer!TypeOK'
    BY <1>1, <1>2, <1>4, <2>1 DEF Writer!TypeOK, WriteRecord, Writer!formVars, Writer!screenVars
  <2>3. WritesGoOn' /\ LockHeld' /\ Remembers' /\ SureOfWrite'
    BY <1>2, <1>4, FailureKeeps DEF Writer!screenVars, Writer!driverVars
  <2> QED
    BY <2>2, <2>3 DEF TagInv
<1>5. CASE /\ at[r] # NoWriterTag /\ holder' = [holder EXCEPT ![r] = w] /\ results' = results
           /\ write' = [write EXCEPT ![w].pc = "holding", ![w].tag = at[r]]
  <2>1. at[r] \in WriterTags
    BY <1>3, <1>5
  <2> DEFINE x == [write[w] EXCEPT !.pc = "holding", !.tag = at[r]]
  <2>2. x \in WriteRecord /\ x.pc = "holding" /\ x.reader = r /\ x.tag = at[r]
        /\ x.tries = write[w].tries
    <3>1. \A n \in WriteRecord, t \in WriterTags : [n EXCEPT !.pc = "holding",
        !.tag = t] \in WriteRecord
      BY DEF WriteRecord
    <3> QED
      BY <1>3, <2>1, <3>1 DEF WriteRecord
  <2>3. write' = [write EXCEPT ![w] = x]
    BY <1>3, <1>5 DEF WriteRecord
  <2> HIDE DEF x
  <2>4. write' \in [Writer!Writes -> WriteRecord] /\ write'[w] = x
        /\ \A v \in Writer!Writes : v # w => write'[v] = write[v]
    BY <1>3, <2>2, <2>3, WriteSet
  <2>5. holder' \in [Readers -> Writer!Nobody .. Writer!Scanner] /\ holder'[r] = w
        /\ \A q \in Readers : q # r => holder'[q] = holder[q]
    BY <1>3, <1>5, WriteFacts
  <2>6. Writer!TypeOK'
    BY <1>1, <1>2, <1>5, <2>4, <2>5
       DEF Writer!TypeOK, WriteRecord, Writer!formVars, Writer!screenVars
  <2>7. WritesGoOn'
    BY <1>1, <1>2, <2>2, <2>4 DEF WritesGoOn, Active
  <2>8. LockHeld'
    <3>1. ASSUME NEW v \in Writer!Writes, write'[v].pc \in {"holding", "half"}
          PROVE  holder'[write'[v].reader] = v /\ write'[v].tag \in WriterTags
      <4>1. CASE v = w
        BY <2>1, <2>2, <2>4, <2>5, <4>1
      <4>2. CASE v # w
        <5>1. write'[v] = write[v] /\ holder[write[v].reader] = v /\ write[v].tag \in WriterTags
          BY <1>1, <2>4, <3>1, <4>2 DEF LockHeld
        <5>2. write[v].reader \in Readers
          BY <1>3 DEF WriteRecord
        <5> QED
          BY <1>2, <2>5, <5>1, <5>2, WriteFacts
      <4> QED
        BY <4>1, <4>2
    <3>2. scan'.pc = "holding" => holder'[scan'.reader] = Writer!Scanner
      <4>1. scan' = scan /\ scan.reader \in Readers
        BY <1>1, <1>2 DEF Writer!TypeOK
      <4> QED
        BY <1>1, <1>2, <2>5, <4>1, WriteFacts DEF LockHeld
    <3> QED
      BY <3>1, <3>2 DEF LockHeld
  <2>9. Remembers'
    BY <1>1, <1>2, <2>2, <2>4 DEF Remembers, HalfOn
  <2>10. ASSUME sure', writerWriting'
         PROVE \E v \in Writer!Writes : (Alone(v) /\ (AtWork(v) \/ Told(v)))'
    <3>1. PICK v \in Writer!Writes : Alone(v) /\ (AtWork(v) \/ Told(v))
      BY <1>1, <1>2, <2>10 DEF SureOfWrite, Writer!screenVars
    <3>2. v = w /\ AtWork(w)
      BY <1>2, <3>1 DEF Alone, Told
    <3>3. Alone(w)'
      BY <2>4, <3>1, <3>2 DEF Alone
    <3>4. AtWork(w)'
      BY <1>2, <1>5, <2>2, <2>4, <3>2 DEF AtWork, Active, Writer!screenVars
    <3> QED
      BY <3>3, <3>4
  <2> QED
    BY <2>6, <2>7, <2>8, <2>9, <2>10 DEF TagInv, SureOfWrite
<1> QED
  BY <1>2, <1>4, <1>5

(* The lock of a reader is given back by the write that has it.            *)
LEMMA ReleaseKeeps ==
  ASSUME Writer!TypeOK, LockHeld, NEW w \in Writer!Writes, write[w].pc \in {"holding", "half"},
         holder' = [holder EXCEPT ![write[w].reader] = Writer!Nobody], scan' = scan,
         write' \in [Writer!Writes -> WriteRecord], write'[w].pc \in {"waiting", "ended"},
         \A v \in Writer!Writes : v # w => write'[v] = write[v]
  PROVE  LockHeld' /\ holder' \in [Readers -> Writer!Nobody .. Writer!Scanner]
<1>1. /\ write \in [Writer!Writes -> WriteRecord]
      /\ holder \in [Readers -> Writer!Nobody .. Writer!Scanner]
      /\ scan.reader \in Readers
  BY DEF Writer!TypeOK, WriteRecord
<1>2. \A v \in Writer!Writes : write[v].reader \in Readers
  BY <1>1 DEF WriteRecord
<1>3. \A q \in Readers : q # write[w].reader => holder'[q] = holder[q]
  BY <1>1
<1>4. holder' \in [Readers -> Writer!Nobody .. Writer!Scanner]
  BY <1>1, <1>2, WriteFacts
<1>5. holder[write[w].reader] = w
  BY DEF LockHeld
<1>6. ASSUME NEW v \in Writer!Writes, write'[v].pc \in {"holding", "half"}
      PROVE  holder'[write'[v].reader] = v /\ write'[v].tag \in WriterTags
  <2>1. v # w
    BY <1>6
  <2>2. write'[v] = write[v] /\ holder[write[v].reader] = v /\ write[v].tag \in WriterTags
    BY <1>6, <2>1 DEF LockHeld
  <2> QED
    BY <1>2, <1>3, <1>5, <2>1, <2>2
<1>7. scan'.pc = "holding" => holder'[scan'.reader] = Writer!Scanner
  BY <1>1, <1>3, <1>5, WriteFacts DEF LockHeld
<1> QED
  BY <1>4, <1>6, <1>7 DEF LockHeld

LEMMA HalfKeeps == ASSUME TagInv, NEW w \in Writer!Writes, Writer!WriteHalf(w) PROVE TagInv'
<1> DEFINE t == write[w].tag
           r == write[w].reader
<1>1. Writer!TypeOK /\ WritesGoOn /\ LockHeld /\ Remembers /\ SureOfWrite
  BY DEF TagInv
<1>2. /\ write[w].pc = "holding" /\ at[r] = t /\ says' = [says EXCEPT ![t] = "mixed"]
      /\ write' = [write EXCEPT ![w].pc = "half"]
      /\ strayed' = strayed \cup Writer!KnownElsewhere(r, t)
      /\ UNCHANGED <<at, writerCache, holder, Writer!formVars, Writer!screenVars, scan, results,
                 mapped, writerMoves, sure>>
  BY DEF Writer!WriteHalf
<1>3. /\ write \in [Writer!Writes -> WriteRecord] /\ write[w] \in WriteRecord /\ r \in Readers
      /\ t \in WriterTags
      /\ says \in [WriterTags -> Writer!Says]
  BY <1>1, <1>2 DEF Writer!TypeOK, WriteRecord, LockHeld
<1> DEFINE x == [write[w] EXCEPT !.pc = "half"]
<1>4. x \in WriteRecord /\ x.pc = "half" /\ x.reader = r /\ x.tag = t /\ x.tries = write[w].tries
  <2>1. \A n \in WriteRecord : [n EXCEPT !.pc = "half"] \in WriteRecord
    BY DEF WriteRecord
  <2> QED
    BY <1>3, <2>1 DEF WriteRecord
<1>5. write' = [write EXCEPT ![w] = x]
  BY <1>2, <1>3 DEF WriteRecord
<1> HIDE DEF x
<1>6. write' \in [Writer!Writes -> WriteRecord] /\ write'[w] = x
      /\ \A v \in Writer!Writes : v # w => write'[v] = write[v]
  BY <1>3, <1>4, <1>5, WriteSet
<1>7. says' \in [WriterTags -> Writer!Says] /\ \A u \in WriterTags : u # t => says'[u] = says[u]
  BY <1>2, <1>3 DEF Writer!Says
<1>8. /\ strayed' \subseteq WriterTags /\ strayed \subseteq strayed'
      /\ \A q \in Readers : q # r /\ writerCache[q][t] # Writer!Unread => t \in strayed'
  BY <1>1, <1>2, <1>3 DEF Writer!KnownElsewhere, Writer!TypeOK
<1>9. Writer!TypeOK'
  BY <1>1, <1>2, <1>6, <1>7, <1>8
     DEF Writer!TypeOK, WriteRecord, Writer!formVars, Writer!screenVars
<1>10. WritesGoOn'
  BY <1>1, <1>2, <1>4, <1>6 DEF WritesGoOn, Active
<1>11. LockHeld'
  BY <1>1, <1>2, <1>4, <1>6 DEF LockHeld
<1>12. ASSUME NEW q \in Readers, NEW u \in WriterTags
       PROVE  u \in strayed' \/ HalfOn(q, u)' \/ writerCache'[q][u] \in {Writer!Unread, says'[u]}
  <2>1. HalfOn(r, t)'
    BY <1>4, <1>6 DEF HalfOn
  <2>2. HalfOn(q, u) => HalfOn(q, u)'
    BY <1>2, <1>6 DEF HalfOn
  <2>3. u \in strayed \/ HalfOn(q, u) \/ writerCache[q][u] \in {Writer!Unread, says[u]}
    BY <1>1 DEF Remembers
  <2> QED
    BY <1>2, <1>7, <1>8, <2>1, <2>2, <2>3
<1>13. ASSUME sure', writerWriting'
       PROVE \E v \in Writer!Writes : (Alone(v) /\ (AtWork(v) \/ Told(v)))'
  <2>1. PICK v \in Writer!Writes : Alone(v) /\ (AtWork(v) \/ Told(v))
    BY <1>1, <1>2, <1>13 DEF SureOfWrite, Writer!screenVars
  <2>2. v = w /\ AtWork(w)
    BY <1>2, <2>1 DEF Alone, Told
  <2>3. Alone(w)'
    BY <1>6, <2>1, <2>2 DEF Alone
  <2>4. AtWork(w)'
    BY <1>2, <1>4, <1>6, <2>2 DEF AtWork, Active, Writer!screenVars
  <2> QED
    BY <2>3, <2>4
<1> QED
  BY <1>9, <1>10, <1>11, <1>12, <1>13 DEF TagInv, SureOfWrite, Remembers

LEMMA RestKeeps == ASSUME TagInv, NEW w \in Writer!Writes, Writer!WriteRest(w) PROVE TagInv'
<1> DEFINE t == write[w].tag
           r == write[w].reader
           p == write[w].product
<1>1. Writer!TypeOK /\ WritesGoOn /\ LockHeld /\ Remembers /\ SureOfWrite
  BY DEF TagInv
<1>2. /\ write[w].pc = "half" /\ at[r] = t /\ says' = [says EXCEPT ![t] = p]
      /\ writerCache' = Writer!Cleared(r) /\ strayed' = strayed \cup Writer!KnownElsewhere(r, t)
      /\ holder' = [holder EXCEPT ![r] = Writer!Nobody] /\ Writer!Ended(w, TRUE)
      /\ UNCHANGED <<at, Writer!formVars, Writer!screenVars, scan, mapped, writerMoves, sure>>
  BY DEF Writer!WriteRest
<1>3. /\ write \in [Writer!Writes -> WriteRecord] /\ r \in Readers /\ t \in WriterTags
      /\ p \in Products
      /\ says \in [WriterTags -> Writer!Says]
      /\ writerCache \in [Readers -> [WriterTags -> Writer!Says \cup {Writer!Unread}]]
  BY <1>1, <1>2 DEF Writer!TypeOK, WriteRecord, LockHeld
<1>4. /\ write' \in [Writer!Writes -> WriteRecord] /\ write'[w].pc = "ended"
      /\ \A v \in Writer!Writes : v # w => write'[v] = write[v]
      /\ results' \in Seq([ok : BOOLEAN, product : Products])
      /\ results' = Append(results, [ok |-> TRUE, product |-> p])
  BY <1>1, <1>2, EndedGives
<1>5. says' \in [WriterTags -> Writer!Says] /\ says'[t] = p /\ \A u \in WriterTags : u # t
      => says'[u] = says[u]
  BY <1>2, <1>3 DEF Writer!Says
<1>6. /\ strayed' \subseteq WriterTags /\ strayed \subseteq strayed'
      /\ \A q \in Readers : q # r /\ writerCache[q][t] # Writer!Unread => t \in strayed'
  BY <1>1, <1>2, <1>3 DEF Writer!KnownElsewhere, Writer!TypeOK
<1>7. /\ writerCache' \in [Readers -> [WriterTags -> Writer!Says \cup {Writer!Unread}]]
      /\ \A u \in WriterTags : writerCache'[r][u] = Writer!Unread /\ \A q \in Readers : q # r
          => writerCache'[q][u] = writerCache[q][u]
  BY <1>2, <1>3 DEF Writer!Cleared
<1>8. LockHeld' /\ holder' \in [Readers -> Writer!Nobody .. Writer!Scanner]
  BY <1>1, <1>2, <1>4, ReleaseKeeps
<1>9. Writer!TypeOK'
  BY <1>1, <1>2, <1>4, <1>5, <1>6, <1>7, <1>8
     DEF Writer!TypeOK, WriteRecord, Writer!formVars, Writer!screenVars
<1>10. WritesGoOn'
  BY <1>1, <1>4 DEF WritesGoOn, Active
<1>11. ASSUME NEW q \in Readers, NEW u \in WriterTags
       PROVE  u \in strayed' \/ HalfOn(q, u)' \/ writerCache'[q][u] \in {Writer!Unread, says'[u]}
  <2>1. CASE q = r
    BY <1>7, <2>1
  <2>2. CASE q # r
    <3>1. HalfOn(q, u) => HalfOn(q, u)'
      BY <1>4, <2>2 DEF HalfOn
    <3>2. u \in strayed \/ HalfOn(q, u) \/ writerCache[q][u] \in {Writer!Unread, says[u]}
      BY <1>1 DEF Remembers
    <3> QED
      BY <1>5, <1>6, <1>7, <2>2, <3>1, <3>2
  <2> QED
    BY <2>1, <2>2
<1>12. ASSUME sure', writerWriting'
       PROVE \E v \in Writer!Writes : (Alone(v) /\ (AtWork(v) \/ Told(v)))'
  <2>1. PICK v \in Writer!Writes : Alone(v) /\ (AtWork(v) \/ Told(v))
    BY <1>1, <1>2, <1>12 DEF SureOfWrite, Writer!screenVars
  <2>2. v = w /\ AtWork(w)
    BY <1>2, <2>1 DEF Alone, Told
  <2>3. Alone(w)'
    BY <1>4, <2>1, <2>2 DEF Alone
  <2>4. results' = <<[ok |-> TRUE, product |-> p]>> /\ lastUid' = t
    BY <1>2, <1>4, <2>2 DEF AtWork, Writer!screenVars
  <2>5. Told(w)'
    BY <1>4, <1>5, <2>4 DEF Told
  <2> QED
    BY <2>3, <2>5
<1> QED
  BY <1>8, <1>9, <1>10, <1>11, <1>12 DEF TagInv, SureOfWrite, Remembers

LEMMA BreaksKeeps == ASSUME TagInv, NEW w \in Writer!Writes, Writer!WriteBreaks(w) PROVE TagInv'
<1> DEFINE r == write[w].reader
<1>1. Writer!TypeOK /\ WritesGoOn /\ LockHeld /\ Remembers /\ SureOfWrite
  BY DEF TagInv
<1>2. /\ write[w].pc \in {"holding", "half"} /\ strayed' = strayed \cup {write[w].tag}
      /\ holder' = [holder EXCEPT ![r] = Writer!Nobody]
      /\ \/ writerCache' = writerCache /\ Writer!Failed(w)
         \/ at[r] # write[w].tag /\ writerCache' = Writer!Cleared(r) /\ Writer!Ended(w, TRUE)
      /\ UNCHANGED <<at, says, Writer!formVars, Writer!screenVars, scan, mapped, writerMoves,
                 sure>>
  BY DEF Writer!WriteBreaks
<1>3. /\ write \in [Writer!Writes -> WriteRecord] /\ r \in Readers /\ write[w].tag \in WriterTags
      /\ writerCache \in [Readers -> [WriterTags -> Writer!Says \cup {Writer!Unread}]]
  BY <1>1, <1>2 DEF Writer!TypeOK, WriteRecord, LockHeld
<1>5. /\ write' \in [Writer!Writes -> WriteRecord]
      /\ \A v \in Writer!Writes : v # w => write'[v] = write[v]
      /\ results' \in Seq([ok : BOOLEAN, product : Products])
      /\ write'[w].pc \in {"waiting", "ended"}
      /\ write'[w].pc = "waiting" => write'[w].tries < Tries
  <2>1. CASE Writer!Failed(w)
    BY <1>1, <1>2, <2>1, FailedGives DEF Active
  <2>2. CASE Writer!Ended(w, TRUE)
    BY <1>1, <2>2, EndedGives
  <2> QED
    BY <1>2, <2>1, <2>2
<1>6. LockHeld' /\ holder' \in [Readers -> Writer!Nobody .. Writer!Scanner]
  BY <1>1, <1>2, <1>5, ReleaseKeeps
<1>7. /\ writerCache' \in [Readers -> [WriterTags -> Writer!Says \cup {Writer!Unread}]]
      /\ \A q \in Readers, u \in WriterTags : writerCache'[q][u] \in {Writer!Unread,
                 writerCache[q][u]}
  <2>1. CASE writerCache' = writerCache
    BY <1>3, <2>1
  <2>2. CASE writerCache' = Writer!Cleared(r)
    BY <1>3, <2>2 DEF Writer!Cleared
  <2> QED
    BY <1>2, <2>1, <2>2
<1>8. Writer!TypeOK'
  BY <1>1, <1>2, <1>3, <1>5, <1>6, <1>7
     DEF Writer!TypeOK, WriteRecord, Writer!formVars, Writer!screenVars
<1>9. WritesGoOn'
  BY <1>1, <1>5 DEF WritesGoOn, Active
<1>10. ASSUME NEW q \in Readers, NEW u \in WriterTags
       PROVE  u \in strayed' \/ HalfOn(q, u)' \/ writerCache'[q][u] \in {Writer!Unread, says'[u]}
  <2>1. HalfOn(q, u) => HalfOn(q, u)' \/ u \in strayed'
    BY <1>2, <1>5 DEF HalfOn
  <2>2. u \in strayed \/ HalfOn(q, u) \/ writerCache[q][u] \in {Writer!Unread, says[u]}
    BY <1>1 DEF Remembers
  <2> QED
    BY <1>2, <1>7, <2>1, <2>2
<1>11. ASSUME sure', writerWriting'
       PROVE \E v \in Writer!Writes : (Alone(v) /\ (AtWork(v) \/ Told(v)))'
  <2>1. PICK v \in Writer!Writes : Alone(v) /\ (AtWork(v) \/ Told(v))
    BY <1>1, <1>2, <1>11 DEF SureOfWrite, Writer!screenVars
  <2>2. v = w /\ AtWork(w) /\ at[r] = write[w].tag
    BY <1>2, <2>1 DEF Alone, Told, AtWork
  <2>3. Alone(w)'
    BY <1>5, <2>1, <2>2 DEF Alone
  <2>4. \/ /\ write'[w].pc = "waiting" /\ write'[w].reader = r /\ results' = results
        \/ /\ write'[w].pc = "ended"
           /\ results' = Append(results, [ok |-> FALSE, product |-> write[w].product])
    BY <1>1, <1>2, <2>2, FailedGives DEF Active
  <2>5. CASE write'[w].pc = "waiting"
    BY <1>2, <2>2, <2>3, <2>4, <2>5 DEF AtWork, Active, Writer!screenVars
  <2>6. CASE write'[w].pc = "ended"
    <3>1. results' = <<[ok |-> FALSE, product |-> write[w].product]>>
      BY <2>2, <2>4, <2>6 DEF AtWork
    <3> QED
      BY <2>3, <2>6, <3>1 DEF Told
  <2> QED
    BY <2>3, <2>4, <2>5, <2>6
<1> QED
  BY <1>6, <1>8, <1>9, <1>10, <1>11 DEF TagInv, SureOfWrite, Remembers

LEMMA TagStep == TagInv /\ [Writer!Next]_(Writer!writingVars) => TagInv'
<1> SUFFICES ASSUME TagInv, [Writer!Next]_(Writer!writingVars) PROVE TagInv'
  OBVIOUS
<1>1. CASE UNCHANGED Writer!writingVars
  BY <1>1 DEF Writer!writingVars, Writer!driverVars, Writer!formVars, Writer!screenVars, TagInv,
              Writer!TypeOK, WritesGoOn, LockHeld,
              Remembers, HalfOn, SureOfWrite, Alone, AtWork, Told
<1>2. CASE Writer!WriteStep
  BY <1>2, NoLockKeeps, WriterTakes, HalfKeeps, RestKeeps, BreaksKeeps DEF Writer!WriteStep
<1>3. CASE Writer!Next /\ ~Writer!WriteStep
  BY <1>3, ScreenActionKeeps, ScanActionKeeps, CompleteKeeps, PressKeeps, MoveKeeps
     DEF Writer!Next, Writer!ScanStep, Writer!ScreenStep
<1> QED
  BY <1>1, <1>2, <1>3

LEMMA CacheShows == TagInv => Writer!CacheIsTrue
<1> SUFFICES ASSUME TagInv, NEW r \in Readers, NEW t \in WriterTags, holder[r] = Writer!Nobody,
                    t \notin strayed
             PROVE  writerCache[r][t] \in {Writer!Unread, says[t]}
  BY DEF Writer!CacheIsTrue
<1>1. ~HalfOn(r, t)
  BY WriteFacts DEF HalfOn, TagInv, LockHeld
<1> QED
  BY <1>1 DEF TagInv, Remembers

(* The only step that maps a tag is the one that takes a result.           *)
LEMMA MappingShows == TagInv /\ [Writer!Next]_(Writer!writingVars) => Writer!MappedAsWritten
<1> SUFFICES ASSUME TagInv, [Writer!Next]_(Writer!writingVars), NEW t \in WriterTags,
                    mapped'[t] # mapped[t], sure, t \notin strayed
             PROVE  says[t] = mapped'[t]
  BY DEF Writer!MappedAsWritten
<1>1. Writer!Complete
  BY DEF Writer!Next, Writer!writingVars, Writer!driverVars, Writer!formVars, Writer!screenVars,
         Writer!ScanStep, Writer!ScreenStep, Writer!WriteStep,
         Writer!Enter, Writer!Leave, Writer!ScanTick, Writer!ScanTake, Writer!ScanRead,
             Writer!ScanShown, Writer!Timeout, Writer!Resume, Writer!WriteNoLock,
         Writer!WriteTake, Writer!WriteHalf, Writer!WriteRest, Writer!WriteBreaks, Writer!Press,
             Writer!Choose, Writer!TrackerPoll, Writer!Move
<1>2. /\ results # <<>> /\ writerWriting
      /\ Writer!Register(Head(results).ok, Head(results).product)
      /\ mapped \in [WriterTags -> Products \cup {"none"}]
  BY <1>1 DEF Writer!Complete, TagInv, Writer!TypeOK
<1>3. Head(results).ok /\ lastUid = t /\ mapped'[t] = Head(results).product
  BY <1>2 DEF Writer!Register
<1>4. PICK w \in Writer!Writes : Alone(w) /\ (AtWork(w) \/ Told(w))
  BY <1>2 DEF TagInv, SureOfWrite
<1>5. Told(w) /\ Head(results) = results[1]
  BY <1>2, <1>4 DEF AtWork
<1> QED
  BY <1>3, <1>5 DEF Told

HIDE WriterConstants DEF at, says, writerCache, holder, on, chosen, scanTimer, busy, scan, lastUid,
    writerWriting, writerButton, limit, resume, write, results, mapped, writerMoves, strayed, sure,
    Writer!WriterAssumption

LEMMA WriterInvariant == CabinetSpec => [](focus = "writer" => TagInv)
<1>1. CabinetInit => (focus = "writer" => TagInv)
  BY TagInit DEF CabinetInit
<1>2. (focus = "writer" => TagInv) /\ [CabinetNext]_cells => (focus = "writer" => TagInv)'
  <2>1. [CabinetNext]_cells /\ focus = "writer" => [Writer!Next]_(Writer!writingVars)
    BY DEF CabinetNext, cells, Writer!writingVars, Writer!driverVars, Writer!formVars,
           Writer!screenVars
  <2> QED
    BY <2>1, TagStep, FocusStays
<1> QED
  BY <1>1, <1>2, PTL DEF CabinetSpec

(* What the cache says of a reader's tag is what the tag says, and a can is *)
(* mapped as it was written: for any tags, readers and products, and however *)
(* often a tag is written.                                                 *)
THEOREM CabinetWritesTags == CabinetSpec => TagsAreTrue
<1>1. (focus = "writer" => TagInv) => (focus = "writer" => Writer!CacheIsTrue)
  BY CacheShows
<1>2. (focus = "writer" => TagInv) /\ [CabinetNext]_cells
        => [focus = "writer" => Writer!MappedAsWritten]_cells
  <2>1. [CabinetNext]_cells /\ focus = "writer" => [Writer!Next]_(Writer!writingVars)
    BY DEF CabinetNext, cells, Writer!writingVars, Writer!driverVars, Writer!formVars,
       Writer!screenVars
  <2> QED
    BY <2>1, MappingShows
<1> QED
  BY <1>1, <1>2, WriterInvariant, PTL DEF TagsAreTrue, CabinetSpec
=============================================================================
