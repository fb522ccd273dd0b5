------------------------------ MODULE CanScans -------------------------------
(***************************************************************************)
(* What a scanned barcode does: MainWindow._on_barcode_scanned of          *)
(* ui_qt/app.py gives it to the weight alarm, to the slot chosen on the    *)
(* shelf map, to the mixing screen or, when none of them wants it, to a    *)
(* dialog that asks whether the can goes on the shelf or comes off it,     *)
(* waits for the weight to say so, and credits the stock.  The scanner is  *)
(* never off, so a scan may open a dialog above another: the upper one is  *)
(* modal, the timers of both go on.                                        *)
(*                                                                         *)
(* Every can weighs one unit, more than the 100 g the dialog looks for.    *)
(***************************************************************************)
EXTENDS Integers, Sequences, FiniteSets

CONSTANTS
  Cans,         \* the cans, each of a product of its own
  Places,       \* the slots of the shelf map
  NoPlace, NoProduct,
  MaxScanned,   \* bound: the scans
  MaxDialogs    \* bound: the dialogs that are open at once

ScansAssumption == /\ IsFiniteSet(Cans) /\ NoProduct \notin Cans
                   /\ MaxScanned \in Nat /\ MaxDialogs \in Nat

VARIABLES
  shelf,        \* the cans on the shelf
  rfidDown,     \* is RFID down (all the time, or never)?
  baseline,     \* the engine's _last_shelf_weights
  pending,      \* _pending_weight_alarm
  alarm,        \* the alarm's weight difference, signed
  alarmPopup,   \* is _weight_alarm_popup open?
  dialogs,      \* the open BarcodeInventoryPopups, the modal one last
  page,         \* the screen that is shown
  chosen,       \* the shelf map's _selected_slot
  question,     \* the slot its question "Remove from this slot?" is about
  assigned,     \* the table slot_assignment
  session,      \* is there a mixing session?
  stock,        \* the table vessel_stock, in cans
  wanted,       \* the can the crew has moved, or is about to move, without a dialog
  scanned,      \* counts the scans
  mixedUp       \* has something happened that the stock may go wrong with?

shelfVars  == <<shelf, rfidDown>>
alarmVars  == <<baseline, pending, alarm, alarmPopup>>
mapVars    == <<page, chosen, question, assigned>>
vars == <<shelfVars, alarmVars, dialogs, mapVars, session, stock, wanted, scanned, mixedUp>>

weight == Cardinality(shelf)
none == [can |-> NoProduct, action |-> "ask", initial |-> 0, diff |-> 0]
Dialog == [can : Cans, action : {"ask", "load", "unload"}, initial : Nat, diff : Int]

TypeOK ==
  /\ shelf \subseteq Cans /\ rfidDown \in BOOLEAN
  /\ baseline \in 0 .. Cardinality(Cans)
  /\ pending \in BOOLEAN /\ alarm \in Int /\ alarmPopup \in BOOLEAN
  /\ dialogs \in Seq(Dialog) /\ Len(dialogs) <= MaxDialogs
  /\ page \in {"home", "shelf_map"}
  /\ chosen \in Places \cup {NoPlace} /\ question \in Places \cup {NoPlace}
  /\ assigned \in [Places -> Cans \cup {NoProduct}]
  /\ session \in BOOLEAN /\ stock \in [Cans -> Int]
  /\ wanted \in Cans \cup {NoProduct} /\ scanned \in 0 .. MaxScanned /\ mixedUp \in BOOLEAN

Held(on) == [c \in Cans |-> IF c \in on THEN 1 ELSE 0]

Init ==
  /\ shelf \in SUBSET Cans /\ rfidDown \in BOOLEAN
  /\ baseline = weight /\ pending = FALSE /\ alarm = 0 /\ alarmPopup = FALSE
  /\ dialogs = <<>>
  /\ page = "home" /\ chosen = NoPlace
  /\ question = NoPlace /\ assigned = [p \in Places |-> NoProduct]
  /\ session = FALSE /\ stock = Held(shelf)
  /\ wanted = NoProduct /\ scanned = 0 /\ mixedUp = FALSE

-----------------------------------------------------------------------------
(* The dialog.  Its button is enabled while the weight of the last look    *)
(* says what the crew chose.                                               *)
Enabled(d) == \/ d.action = "load" /\ d.diff > 0
              \/ d.action = "unload" /\ d.diff < 0

weighing == {i \in DOMAIN dialogs : dialogs[i].action # "ask"}
Top == dialogs[Len(dialogs)]
Pop == dialogs' = SubSeq(dialogs, 1, Len(dialogs) - 1)

(* update_vessel_stock_from_barcode: litres are grams over the density,    *)
(* cans here, and never less than none.                                    *)
Abs(n) == IF n < 0 THEN -n ELSE n
Credited_Loads(c, action, n) == [stock EXCEPT ![c] = stock[c] + Abs(n)]
Credited(c, action, n) ==
  [stock EXCEPT ![c] = IF action = "load" THEN stock[c] + Abs(n)
                       ELSE IF stock[c] > Abs(n) THEN stock[c] - Abs(n) ELSE 0]

(* _on_action: the weight it starts from is 0 when it cannot be read.      *)
StartWeight_Baseline == baseline
StartWeight == weight

ChooseAction(action) ==
  /\ dialogs # <<>> /\ Top.action = "ask"
  /\ \E ok \in BOOLEAN :
       /\ dialogs' = [dialogs EXCEPT ![Len(dialogs)] =
                        [@ EXCEPT !.action = action, !.initial = IF ok THEN StartWeight ELSE 0]]
       /\ mixedUp' = (mixedUp \/ weighing # {} \/ ~ok)
  /\ UNCHANGED <<shelfVars, alarmVars, mapVars, session, stock, wanted, scanned>>

(* _check_weight, every half a second in every dialog that weighs.         *)
CheckWeight(i) ==
  /\ i \in weighing
  /\ dialogs[i].diff # weight - dialogs[i].initial
  /\ dialogs' = [dialogs EXCEPT ![i].diff = weight - dialogs[i].initial]
  /\ UNCHANGED <<shelfVars, alarmVars, mapVars, session, stock, wanted, scanned, mixedUp>>

(* _on_confirm, and the rest of _barcode_inventory_action.                 *)
Confirm ==
  /\ dialogs # <<>> /\ Enabled(Top)
  /\ stock' = Credited(Top.can, Top.action, Top.diff)
  /\ Pop
  /\ UNCHANGED <<shelfVars, alarmVars, mapVars, session, wanted, scanned>>
  /\ mixedUp' = (mixedUp \/ rfidDown)

Cancel ==
  /\ dialogs # <<>>
  /\ Top.action # "ask" => weight = Top.initial
  /\ Pop
  /\ UNCHANGED <<shelfVars, alarmVars, mapVars, session, stock, wanted, scanned, mixedUp>>

-----------------------------------------------------------------------------
(* The engine's weight alarm, see WeightAlarm: with RFID down a change     *)
(* that lasts raises it, whether or not a dialog knows of the change.      *)
Alarm ==
  /\ rfidDown /\ ~pending /\ weight # baseline
  /\ pending' = TRUE /\ alarm' = weight - baseline /\ baseline' = weight
  /\ alarmPopup' = TRUE
  /\ mixedUp' = (mixedUp \/ dialogs # <<>>)
  /\ UNCHANGED <<shelfVars, dialogs, mapVars, session, stock, wanted, scanned>>

Expire ==
  /\ pending /\ pending' = FALSE /\ wanted' = NoProduct /\ mixedUp' = TRUE
  /\ UNCHANGED <<shelfVars, baseline, alarm, alarmPopup, dialogs, mapVars, session, stock, scanned>>

ClosePopup ==
  /\ alarmPopup /\ ~pending /\ alarmPopup' = FALSE
  /\ UNCHANGED <<shelfVars, baseline, pending, alarm, dialogs, mapVars, session, stock, wanted,
                 scanned, mixedUp>>

-----------------------------------------------------------------------------
(* _on_barcode_scanned.                                                    *)
Resolve(c) ==
  /\ pending' = FALSE /\ stock' = Credited(c, IF alarm < 0 THEN "unload" ELSE "load", alarm)
  /\ wanted' = NoProduct /\ mixedUp' = (mixedUp \/ c # wanted)
  /\ UNCHANGED <<baseline, alarm, alarmPopup, dialogs, mapVars>>

(* set_slot_assignment and clear_slot_assignment.                          *)
SlotSet(p, c)  == assigned' = [assigned EXCEPT ![p] = c]
SlotCleared(p) == assigned' = [assigned EXCEPT ![p] = NoProduct]

(* on_barcode_for_slot.                                                    *)
AssignSlot(c) ==
  /\ page = "shelf_map" /\ chosen # NoPlace
  /\ SlotSet(chosen, c)
  /\ chosen' = NoPlace
  /\ UNCHANGED <<page, question, alarmVars, dialogs, stock, wanted, mixedUp>>

Verify ==
  /\ session
  /\ UNCHANGED <<alarmVars, dialogs, mapVars, stock, wanted, mixedUp>>

OpenDialog(c) ==
  /\ Len(dialogs) < MaxDialogs
  /\ dialogs' = Append(dialogs, [none EXCEPT !.can = c])
  /\ UNCHANGED <<alarmVars, mapVars, stock, wanted, mixedUp>>

Route(c) ==
  IF alarmPopup /\ pending THEN Resolve(c)
  ELSE IF page = "shelf_map" /\ chosen # NoPlace THEN AssignSlot(c)
  ELSE IF session THEN Verify
  ELSE OpenDialog(c)

ScanBarcode(c) ==
  /\ scanned < MaxScanned /\ scanned' = scanned + 1
  /\ Route(c)
  /\ UNCHANGED <<shelfVars, session>>

-----------------------------------------------------------------------------
(* The shelf map; a question or a dialog above it is modal, and a dialog   *)
(* above a question as well.                                               *)
onMap == page = "shelf_map" /\ dialogs = <<>> /\ question = NoPlace
otherVars == <<shelfVars, alarmVars, dialogs, session, stock, wanted, scanned, mixedUp>>

(* on_enter and on_leave, and the reorder mode, in which a tap swaps two   *)
(* readers (see RfidReaders) and chooses nothing.                          *)
GoScreen ==
  /\ dialogs = <<>> /\ question = NoPlace
  /\ page' \in {"home", "shelf_map"} /\ (page' # page \/ chosen # NoPlace)
  /\ chosen' = NoPlace
  /\ UNCHANGED <<question, assigned, otherVars>>

(* _on_slot_tapped: a free slot is chosen, another one is asked about.     *)
TapFree(p) ==
  /\ onMap /\ assigned[p] = NoProduct
  /\ chosen' = IF chosen = p THEN NoPlace ELSE p
  /\ UNCHANGED <<page, question, assigned, otherVars>>

TapAssigned(p) ==
  /\ onMap /\ assigned[p] # NoProduct
  /\ question' = p
  /\ UNCHANGED <<page, chosen, assigned, otherVars>>

Answer ==
  /\ question # NoPlace /\ dialogs = <<>> /\ question' = NoPlace
  /\ \/ UNCHANGED <<chosen, assigned>>
     \/ chosen' = NoPlace /\ SlotCleared(question)
  /\ UNCHANGED <<page, otherVars>>

MixingSession ==
  /\ dialogs = <<>> /\ session' = ~session
  /\ UNCHANGED <<shelfVars, alarmVars, dialogs, mapVars, stock, wanted, scanned, mixedUp>>

-----------------------------------------------------------------------------
(* The crew moves the can of a dialog as the dialog says.  Without one, and *)
(* with RFID down, it moves a can at a time and scans it when asked to.    *)
Moved(c) == shelf' = (shelf \ {c}) \cup ({c} \ shelf)

MoveAsTold ==
  /\ dialogs # <<>> /\ Top.action = (IF Top.can \in shelf THEN "unload" ELSE "load")
  /\ Moved(Top.can)
  /\ UNCHANGED <<rfidDown, alarmVars, dialogs, mapVars, session, stock, wanted, scanned, mixedUp>>

MoveUnasked(c) ==
  /\ rfidDown /\ dialogs = <<>> /\ wanted = NoProduct /\ ~pending
  /\ Moved(c) /\ wanted' = c
  /\ UNCHANGED <<rfidDown, alarmVars, dialogs, mapVars, session, stock, scanned, mixedUp>>

Next ==
  \/ ChooseAction("load") \/ ChooseAction("unload") \/ Confirm \/ Cancel
  \/ \E i \in 1 .. MaxDialogs : CheckWeight(i)
  \/ Alarm \/ Expire \/ ClosePopup
  \/ \E c \in Cans : ScanBarcode(c) \/ MoveUnasked(c)
  \/ GoScreen \/ Answer \/ \E p \in Places : TapFree(p) \/ TapAssigned(p)
  \/ MixingSession \/ MoveAsTold

Spec == Init /\ [][Next]_vars

-----------------------------------------------------------------------------
(* What the stock is after a mix-up is not claimed, nor explored.          *)
BeforeMixUps == ~mixedUp

(* With no dialog open and no move waiting for its alarm, the stock holds  *)
(* the cans that are on the shelf: each move is credited once, whether a   *)
(* dialog or an alarm asked for its barcode and whatever else was scanned, *)
(* unless two dialogs weighed at once, one could not read the weight it    *)
(* starts from, an alarm expired or got another can's barcode, or RFID is  *)
(* down and the dialog's can raises the engine's alarm as well.            *)
CreditsAddUp ==
  dialogs = <<>> /\ wanted = NoProduct /\ ~mixedUp => stock = Held(shelf)
=============================================================================
