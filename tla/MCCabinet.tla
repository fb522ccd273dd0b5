------------------------------ MODULE MCCabinet ------------------------------
(***************************************************************************)
(* The parts that only owe safety, for TLC: the lamps, the writing of      *)
(* tags, the loading of cans, the scanner, what its codes do, the          *)
(* readers, the tracker, the load cells, their calibration, Paint Now,     *)
(* mixing with Kivy, other lamps, the buzzer, a single reader, pairing,    *)
(* backups, the log, the serial ports, the processes, the Arduino's        *)
(* program, the fan, mixing with Qt.  They share no variable, so each      *)
(* behaviour is about one of them, its focus.  The variables of the focus  *)
(* are kept in the cells c1, c2 and so on, in the order in which its       *)
(* module declares them; the other cells are 0.                            *)
(***************************************************************************)
EXTENDS Naturals, Sequences

CONSTANTS
  Lights, Users, AllSlots, NoSlot, MaxQueued, MaxSets, WriterTags, Readers,
  Products, NoWriterTag, MaxWrites, MaxMoves, Tries, LoadTags, Stabilize, ReturnAfter,
  BufferSize, RfidEvery, MaxPuts, Labels, Stray, Receivers, MinLength, MaxStray, MaxScans,
  ShelfCans, Places, NoPlace, NoProduct, MaxScanned, MaxDialogs, MaxPort, MaxSwaps,
  Channels, Loads, NoChannel, Jump, Callers, CellMoves, MaxCalls, MaxFaults, Raws, Presets,
  WizardSteps, MaxPresses, KivySessions, MaxPour, RatioBase, RatioHardener, Tolerance,
  Health, MaxMixes, MaxPlays, NoData, NotCached, SerialPorts, MaxChanges, Keys, NoKey,
  Torn, MaxCopies, MaxBackups, MaxSetBacks, MaxBuffer, MaxLines, Attempts, Launchers,
  Daemons, NoDaemon, Segments, Percents, StableWindow, MaxZeros, FanTemps, FanThresholds,
  FanSpeedAt, FanOffTemp, N, Tags, NoTag, InUseAfter, ConsumedAfter, Screens, Env, Paints,
  KnownPaints, PaintLayers, PaintCoverage, UsualCoverage, PaintRatio, UsualRatio,
  PaintsAlike, PaintSurfaces, KivyMixed, KivyUnmixed, KivySurfaces

VARIABLES
  focus, c1, c2, c3, c4, c5, c6, c7, c8, c9, c10, c11, c12, c13, c14, c15, c16,
  c17, c18, c19, c20, c21, c22, c23, c24

cells == <<focus, c1, c2, c3, c4, c5, c6, c7, c8, c9, c10, c11, c12, c13, c14, c15, c16,
           c17, c18, c19, c20, c21, c22, c23, c24>>

(* Two labels for TLC, of different lengths.                               *)
TwoLabels == {<<"S", "L", "_", "1", "_">>, <<"S", "L", "_", "2", "_", "3">>}

(* A chart for TLC: two areas of three products.  pb has one component and *)
(* no coverage, pc is not in the database, and the name of pa is part of   *)
(* that of pb.                                                             *)
ChartLayers == [deck |-> {"pa", "pb"}, hull |-> {"pc"}]
ChartCoverage == [pa |-> 8, pb |-> 0, pc |-> 5]
ChartRatio == [pa |-> <<4, 1>>, pc |-> <<3, 2>>]
ChartAlike == [pa |-> {"pa", "pb"}, pb |-> {"pb"}, pc |-> {"pc"}]
FourToOne == <<4, 1>>

(* The fan's curve, in part.                                               *)
FanCurve == [t \in {40, 50, 70} |-> IF t = 40 THEN 25 ELSE IF t = 50 THEN 40 ELSE 100]

Leds == INSTANCE Lamps WITH
  Slots <- Lights, config <- c1, hw <- c2, commands <- c3,
  lamp <- c4, user <- c5, sets <- c6, copied <- c7, sending <- c8, awake <- c9,
  settled <- c10, crossed <- c11, overtaken <- c12

Writer == INSTANCE TagWriting WITH
  Tags <- WriterTags, NoTag <- NoWriterTag, at <- c1,
  says <- c2, cache <- c3, holder <- c4, on <- c5, chosen <- c6, scanTimer <- c7,
  busy <- c8, scan <- c9, lastUid <- c10, writing <- c11, button <- c12, limit <- c13,
  resume <- c14, write <- c15, results <- c16, mapped <- c17, moves <- c18, strayed <- c19,
  sure <- c20

Loading == INSTANCE StockLoading WITH
  Tags <- LoadTags, shelf <- c1, lastWeight <- c2,
  previousTags <- c3, sincePoll <- c4, signals <- c5, on <- c6, page <- c7, busy <- c8,
  tag <- c9, before <- c10, history <- c11, countdown <- c12, returns <- c13, puts <- c14,
  credited <- c15, left <- c16, crossed <- c17, failed <- c18

Filter == INSTANCE ScanFilter WITH
  buffer <- c1, gap <- c2,
  typing <- c3, label <- c4, undisturbed <- c5, reports <- c6, scans <- c7, strays <- c8

Scans == INSTANCE CanScans WITH
  Cans <- ShelfCans, shelf <- c1, rfidDown <- c2,
  baseline <- c3, pending <- c4, alarm <- c5, alarmPopup <- c6, dialogs <- c7, page <- c8,
  chosen <- c9, question <- c10, assigned <- c11, session <- c12, stock <- c13,
  wanted <- c14, scanned <- c15, mixedUp <- c16

Ports == INSTANCE RfidReaders WITH
  readers <- c1, slotOf <- c2, healthy <- c3,
  saved <- c4, cans <- c5, todo <- c6, polling <- c7, got <- c8, ui <- c9, lostSave <- c10,
  changed <- c11, swaps <- c12, again <- c13

Tracker == INSTANCE Inventory_proofs WITH
  where <- c1, healthy <- c2, screen <- c3,
  activeSession <- c4, uiPc <- c5, status <- c6, tag <- c7, age <- c8, timed <- c9,
  persisted <- c10, previous <- c11, readings <- c12, todo <- c13, pc <- c14,
  checked <- c15, emitted <- c16

Cells == INSTANCE LoadCell WITH
  MaxMoves <- CellMoves, load <- c1, offset <- c2,
  last <- c3, spikes <- c4, cached <- c5, request <- c6, done <- c7, pc <- c8,
  channel <- c9, sample <- c10, todo <- c11, call <- c12, served <- c13, doubt <- c14,
  steady <- c15, moves <- c16, calls <- c17, faults <- c18

Wizard == INSTANCE Calibration WITH
  MaxSteps <- WizardSteps, shown <- c1, step <- c2,
  offset <- c3, known <- c4, loaded <- c5, scale <- c6, zeroButton <- c7, readButton <- c8,
  saveButton <- c9, goOn <- c10, again <- c11, applied <- c12, stored <- c13,
  hurried <- c14, failed <- c15, steps <- c16

Paint == INSTANCE PaintNow WITH
  Products <- Paints, Layers <- PaintLayers,
  Coverage <- PaintCoverage, DefaultCoverage <- UsualCoverage, Ratio <- PaintRatio,
  DefaultRatio <- UsualRatio, Alike <- PaintsAlike, Known <- KnownPaints,
  Surfaces <- PaintSurfaces, screen <- c1, step <- c2, area <- c3, layer <- c4, m2 <- c5,
  quantities <- c6, pending <- c7, session <- c8, loaded <- c9, starts <- c10,
  sessions <- c11, presses <- c12

Kivy == INSTANCE KivyMixing WITH
  Mixed <- KivyMixed, Unmixed <- KivyUnmixed, Surfaces <- KivySurfaces,
  MaxSessions <- KivySessions, mode <- c1, screen <- c2, step <- c3, layer <- c4, m2 <- c5,
  calc <- c6, ctx <- c7, state <- c8, job <- c9, active <- c10, shelf <- c11, shown <- c12,
  page <- c13, weighing <- c14, chosen <- c15, late <- c16, hasty <- c17, sessions <- c18

Pins == INSTANCE Lights WITH
  Slots <- Lights, driver <- c1, state <- c2, lit <- c3,
  user <- c4, copied <- c5, animated <- c6, up <- c7, sets <- c8, crossed <- c9,
  overtaken <- c10

Buzzer == INSTANCE Sounds WITH
  Players <- Users, flag <- c1, current <- c2, tune <- c3,
  alarms <- c4, sounding <- c5, up <- c6, call <- c7, plays <- c8, want <- c9,
  crossed <- c10

Reader == INSTANCE SingleReader WITH
  Tags <- LoadTags, NoTag <- NoWriterTag,
  Plugs <- SerialPorts, NoPort <- NoPlace, Blank <- NoData, Unread <- NotCached,
  kind <- c1, tag <- c2, content <- c3, cache <- c4, ready <- c5, open <- c6, port <- c7,
  plugged <- c8, backoff <- c9, poll <- c10, writing <- c11, closing <- c12,
  reading <- c13, spoilt <- c14, changes <- c15

Cloud == INSTANCE Pairing WITH
  toolkit <- c1, key <- c2, file <- c3, issued <- c4,
  running <- c5, thread <- c6, begun <- c7, loops <- c8, outlived <- c9, socket <- c10,
  socketOn <- c11, page <- c12, button <- c13, asked <- c14, going <- c15, anew <- c16,
  failed <- c17

Copies == INSTANCE Backups WITH
  files <- c1, running <- c2, step <- c3, latest <- c4,
  medium <- c5, made <- c6, unrotated <- c7, begun <- c8, setBacks <- c9

Log == INSTANCE CloudLogs WITH
  Flushers <- Users, logged <- c1, buffer <- c2,
  batch <- c3, sent <- c4, lost <- c5, dropped <- c6, crossed <- c7

Claims == INSTANCE PortClaims WITH
  Plugs <- SerialPorts, NoName <- NoPlace, plugged <- c1, named <- c2, listed <- c3,
  client <- c4, stage <- c5, opened <- c6, port <- c7, ready <- c8, skip <- c9,
  configs <- c10, tries <- c11, readers <- c12, touched <- c13, flash <- c14,
  target <- c15, held <- c16

Processes == INSTANCE Launch WITH
  step <- c1, own <- c2, daemon <- c3, bound <- c4, ui <- c5, conn <- c6, gaveUp <- c7,
  gone <- c8

Board == INSTANCE Firmware WITH
  Slots <- Lights, Window <- StableWindow, Blank <- NoData, Mixed <- Torn,
  at <- c1, cmd <- c2, started <- c3, offset <- c4, eeprom <- c5, magic <- c6,
  history <- c7, outputs <- c8, zeros <- c9, told <- c10, torn <- c11, unready <- c12,
  fresh <- c13

Fan == INSTANCE FanControl WITH
  Temps <- FanTemps, Thresholds <- FanThresholds, SpeedAt <- FanSpeedAt,
  OffTemp <- FanOffTemp, thread <- c1, cpu <- c2, temp <- c3, speed <- c4, pwm <- c5,
  manual <- c6, refused <- c7, looked <- c8

Session == INSTANCE Mixing_proofs WITH
  MaxSessions <- MaxMixes, state <- c1,
  baseActual <- c2, hardenerActual <- c3, inSpec <- c4, lit <- c5, page <- c6, phase <- c7,
  button <- c8, retry <- c9, guide <- c10, target <- c11, verified <- c12, tares <- c13,
  mail <- c14, rfid <- c15, out <- c16, removed <- c17, tracked <- c18, inside <- c19,
  offset <- c20, sessions <- c21, origin <- c22, loaded <- c23, stale <- c24

ASSUME LampConstants    == Leds!LampAssumption
ASSUME LightConstants   == Pins!LightAssumption
ASSUME SoundConstants   == Buzzer!SoundAssumption
ASSUME SingleConstants  == Reader!ReaderAssumption
ASSUME CloudConstants   == Cloud!PairingAssumption
ASSUME BackupConstants  == Copies!BackupAssumption
ASSUME LogConstants     == Log!LogAssumption
ASSUME PortConstants    == Claims!PortAssumption
ASSUME LaunchConstants  == Processes!LaunchAssumption
ASSUME BoardConstants   == Board!FirmwareAssumption
ASSUME FanConstants     == Fan!FanAssumption
ASSUME CellConstants    == Cells!CellAssumption
ASSUME WizardConstants  == Wizard!WizardAssumption
ASSUME ReaderConstants  == Ports!ReaderAssumption
ASSUME WriterConstants  == Writer!WriterAssumption
ASSUME LoadingConstants == Loading!LoadingAssumption
ASSUME FilterConstants  == Filter!FilterAssumption
ASSUME ScanConstants    == Scans!ScansAssumption
ASSUME PaintConstants   == Paint!PaintAssumption
ASSUME KivyConstants    == Kivy!KivyAssumption
ASSUME MixingConstants  == Session!MixingAssumption
ASSUME TrackerConstants ==
  /\ Tracker!NAssumption /\ Tracker!TagAssumption /\ Tracker!TimeoutAssumption
  /\ Tracker!ScreenAssumption /\ Tracker!EnvAssumption

(* The cells from the given one on are not used.                           *)
Unused21 ==
  c21 = 0 /\ c22 = 0 /\ c23 = 0 /\ c24 = 0
Unused19 ==
  c19 = 0 /\ c20 = 0 /\ Unused21
Unused18 ==
  c18 = 0 /\ Unused19
Unused17 ==
  c17 = 0 /\ Unused18
Unused16 ==
  c16 = 0 /\ Unused17
Unused14 ==
  c14 = 0 /\ c15 = 0 /\ Unused16
Unused13 ==
  c13 = 0 /\ Unused14
Unused11 ==
  c11 = 0 /\ c12 = 0 /\ Unused13
Unused10 ==
  c10 = 0 /\ Unused11
Unused9 ==
  c9 = 0 /\ Unused10
Unused8 ==
  c8 = 0 /\ Unused9

Kept8 == UNCHANGED <<focus, c8, c9, c10, c11, c12, c13, c14, c15, c16, c17, c18, c19, c20,
                     c21, c22, c23, c24>>
Kept9 == UNCHANGED <<focus, c9, c10, c11, c12, c13, c14, c15, c16, c17, c18, c19, c20, c21,
                     c22, c23, c24>>
Kept10 == UNCHANGED <<focus, c10, c11, c12, c13, c14, c15, c16, c17, c18, c19, c20, c21,
                      c22, c23, c24>>
Kept11 == UNCHANGED <<focus, c11, c12, c13, c14, c15, c16, c17, c18, c19, c20, c21, c22,
                      c23, c24>>
Kept13 == UNCHANGED <<focus, c13, c14, c15, c16, c17, c18, c19, c20, c21, c22, c23, c24>>
Kept14 == UNCHANGED <<focus, c14, c15, c16, c17, c18, c19, c20, c21, c22, c23, c24>>
Kept16 == UNCHANGED <<focus, c16, c17, c18, c19, c20, c21, c22, c23, c24>>
Kept17 == UNCHANGED <<focus, c17, c18, c19, c20, c21, c22, c23, c24>>
Kept18 == UNCHANGED <<focus, c18, c19, c20, c21, c22, c23, c24>>
Kept19 == UNCHANGED <<focus, c19, c20, c21, c22, c23, c24>>
Kept21 == UNCHANGED <<focus, c21, c22, c23, c24>>
Kept25 == UNCHANGED focus

CabinetInit ==
  \/ focus = "lamps" /\ Leds!Init /\ Unused13
  \/ focus = "writer" /\ Writer!Init /\ Unused21
  \/ focus = "loading" /\ Loading!Init /\ Unused19
  \/ focus = "filter" /\ Filter!Init /\ Unused9
  \/ focus = "scans" /\ Scans!Init /\ Unused17
  \/ focus = "readers" /\ Ports!Init /\ Unused14
  \/ focus = "custody" /\ Tracker!Init /\ Unused17
  \/ focus = "cells" /\ Cells!Init /\ Unused19
  \/ focus = "wizard" /\ Wizard!Init /\ Unused17
  \/ focus = "paint" /\ Paint!Init /\ Unused13
  \/ focus = "kivy" /\ Kivy!Init /\ Unused19
  \/ focus = "lights" /\ Pins!Init /\ Unused11
  \/ focus = "sounds" /\ Buzzer!Init /\ Unused11
  \/ focus = "single" /\ Reader!Init /\ Unused16
  \/ focus = "pairing" /\ Cloud!Init /\ Unused18
  \/ focus = "backups" /\ Copies!Init /\ Unused10
  \/ focus = "logs" /\ Log!Init /\ Unused8
  \/ focus = "claims" /\ Claims!Init /\ Unused17
  \/ focus = "launch" /\ Processes!Init /\ Unused9
  \/ focus = "board" /\ Board!Init /\ Unused14
  \/ focus = "fan" /\ Fan!Init /\ Unused9
  \/ focus = "mixing" /\ Session!Init

CabinetNext ==
  \/ focus = "lamps" /\ Leds!Next /\ Kept13
  \/ focus = "writer" /\ Writer!Next /\ Kept21
  \/ focus = "loading" /\ Loading!Next /\ Kept19
  \/ focus = "filter" /\ Filter!Next /\ Kept9
  \/ focus = "scans" /\ Scans!Next /\ Kept17
  \/ focus = "readers" /\ Ports!Next /\ Kept14
  \/ focus = "custody" /\ Tracker!Next /\ Kept17
  \/ focus = "cells" /\ Cells!Next /\ Kept19
  \/ focus = "wizard" /\ Wizard!Next /\ Kept17
  \/ focus = "paint" /\ Paint!Next /\ Kept13
  \/ focus = "kivy" /\ Kivy!Next /\ Kept19
  \/ focus = "lights" /\ Pins!Next /\ Kept11
  \/ focus = "sounds" /\ Buzzer!Next /\ Kept11
  \/ focus = "single" /\ Reader!Next /\ Kept16
  \/ focus = "pairing" /\ Cloud!Next /\ Kept18
  \/ focus = "backups" /\ Copies!Next /\ Kept10
  \/ focus = "logs" /\ Log!Next /\ Kept8
  \/ focus = "claims" /\ Claims!Next /\ Kept17
  \/ focus = "launch" /\ Processes!Next /\ Kept9
  \/ focus = "board" /\ Board!Next /\ Kept14
  \/ focus = "fan" /\ Fan!Next /\ Kept9
  \/ focus = "mixing" /\ Session!Next /\ Kept25

CabinetSpec == CabinetInit /\ [][CabinetNext]_cells

(* What the stock is after a mix-up is not claimed, nor explored.          *)
BeforeMixUps == /\ focus = "scans" => Scans!BeforeMixUps
                /\ focus = "mixing" => Session!NotStale

(* Bound: once the crew has moved a can no second write is begun.          *)
FewWrites == focus = "writer" => Writer!FewWrites

-----------------------------------------------------------------------------
(* The part a behaviour is about keeps its types.                          *)
CabinetTypeOK ==
  CASE focus = "lamps" -> Leds!TypeOK
    [] focus = "writer" -> Writer!TypeOK
    [] focus = "loading" -> Loading!TypeOK
    [] focus = "filter" -> Filter!TypeOK
    [] focus = "scans" -> Scans!TypeOK
    [] focus = "readers" -> Ports!TypeOK
    [] focus = "custody" -> Tracker!TypeOK
    [] focus = "cells" -> Cells!TypeOK
    [] focus = "wizard" -> Wizard!TypeOK
    [] focus = "paint" -> Paint!TypeOK
    [] focus = "kivy" -> Kivy!TypeOK
    [] focus = "lights" -> Pins!TypeOK
    [] focus = "sounds" -> Buzzer!TypeOK
    [] focus = "single" -> Reader!TypeOK
    [] focus = "pairing" -> Cloud!TypeOK
    [] focus = "backups" -> Copies!TypeOK
    [] focus = "logs" -> Log!TypeOK
    [] focus = "claims" -> Claims!TypeOK
    [] focus = "launch" -> Processes!TypeOK
    [] focus = "board" -> Board!TypeOK
    [] focus = "fan" -> Fan!TypeOK
    [] focus = "mixing" -> Session!TypeOK

(* The lamps, of each kind, and the buzzer do what was said of them last,  *)
(* as stated in Lamps, Lights and Sounds.                                  *)
SignalsAreTrue == /\ focus = "lamps" => Leds!LampsShowConfig
                  /\ focus = "lights" => Pins!LightsShowState
                  /\ focus = "sounds" => Buzzer!SoundIsAsTold

(* Sync runs under the pairing that holds, a backup is kept, each line of  *)
(* the log goes one way once, the Arduino keeps its zeros, and the fan     *)
(* follows its curve, as stated in Pairing, Backups, CloudLogs, Firmware   *)
(* and FanControl.                                                         *)
UpkeepHolds == /\ focus = "pairing" => Cloud!PairingHolds
               /\ focus = "backups" => Copies!BackupIsKept
               /\ focus = "logs" => Log!EachLineOnce
               /\ focus = "board" => Board!ZerosAreKept /\ Board!StableIsEarned
               /\ focus = "fan" => Fan!FanFollowsCurve

(* The readers' caches say what the tags say, and a can is mapped to its   *)
(* tag's product, as stated in TagWriting.                                 *)
TagsAreTrue == /\ [](focus = "writer" => Writer!CacheIsTrue)
               /\ [][focus = "writer" => Writer!MappedAsWritten]_cells

(* Each reader keeps its slot, and a poll says what they read, as stated   *)
(* in RfidReaders; a single one tells what the tag says, as in             *)
(* SingleReader.                                                           *)
ReadersTellSlots == /\ [](focus = "readers" => Ports!ReadersKeepSlots)
                    /\ [][focus = "readers" => Ports!PollTellsAll]_cells
                    /\ [](focus = "single" => Reader!SingleTellsTag)

(* The right code arrives, and the stock is credited once for each can     *)
(* that is scanned, and once or, if that fails, never for each that is     *)
(* loaded, as stated in ScanFilter, CanScans and StockLoading.             *)
CansCountOnce == /\ [][focus = "filter" => Filter!ScanReported]_cells
                 /\ [](focus = "scans" => Scans!CreditsAddUp)
                 /\ [](focus = "loading" => Loading!LoadedOnce)

(* A load cell shows what lies on it, a tare is the caller's own, and what *)
(* is calibrated is of one measurement, as stated in LoadCell and          *)
(* Calibration.                                                            *)
ReadingsAreTrue == /\ [](focus = "cells" => Cells!ReadingCatchesUp)
                   /\ [][focus = "cells" => Cells!TareWasMine]_cells
                   /\ [](focus = "wizard" => Wizard!CalibrationFits)

(* The tracker implements CanCustody; no can is recorded in two slots, and *)
(* the removal timers run for exactly the cans that are out.               *)
TrackerTellsCustody ==
  /\ [](focus = "custody" => Tracker!OneSlotPerTag /\ Tracker!TimersMatch)
  /\ focus = "custody" => Tracker!Abstract!Init
  /\ [][focus = "custody" => [Tracker!Abstract!Next]_(Tracker!Abstract!custodyVars)]_cells

(* What is mixed is what the crew was told, and a page shows the session   *)
(* it is for and moves that one only, as stated in PaintNow and            *)
(* KivyMixing.                                                             *)
PanelsAreTrue == /\ [](focus = "paint" => Paint!MixIsAsTold)
                 /\ [](focus = "kivy" => Kivy!PageIsTrue)
                 /\ [][focus = "kivy" => Kivy!PressBelongs]_cells

(* One daemon has the hardware and a client of it is served, and in it the *)
(* Arduino's port is the weight driver's, as stated in Launch and          *)
(* PortClaims.                                                             *)
HardwareIsShared ==
  /\ focus = "claims" => Claims!ArduinoIsLeftAlone /\ Claims!FlashHitsArduino
  /\ focus = "launch" => /\ Processes!OneDaemonDrives /\ Processes!UiHasHardware
                         /\ Processes!ClientsAreServed

(* A mixing session with Qt, as stated in Mixing.  The crew is guided by   *)
(* the screen and by the shelf's lights, and picks no can by hand.         *)
BaseWeightIsTrue    == focus = "mixing" => Session!BaseWeightIsTrue
ScreenFollowsEngine == focus = "mixing" => Session!ScreenFollowsEngine
PourIsGuided ==
  /\ [](focus = "mixing" => Session!PourIsGuided /\ Session!LightsAreTrue)
  /\ [][focus = "mixing" => Session!PicksByHand]_cells
=============================================================================
