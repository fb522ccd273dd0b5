----------------------------- MODULE ScanFilter ------------------------------
(***************************************************************************)
(* The scanner's key filter, core/barcode_scanner.py.  The scanner types a *)
(* label's code and Enter; the crew types as well.  Qt offers a key to one *)
(* receiver after the other - the window, the widget that has the focus,   *)
(* its parents - until one takes it, and the filter sees every offer.  It  *)
(* takes a key only when it already holds another, so it sees the first    *)
(* key of a scan twice, and the parser removes the second S again.         *)
(***************************************************************************)
EXTENDS Sequences, Naturals

CONSTANTS
  Labels,       \* the codes on the cabinet's labels, sequences of characters
  Stray,        \* the characters the crew may type
  Receivers,    \* how many receivers Qt may have for a key
  MinLength,    \* MIN_BARCODE_LENGTH
  MaxStray,     \* bound: the keys the crew types
  MaxScans      \* bound: the scans

(* Every code begins with SL.                                              *)
FilterAssumption ==
  /\ Labels \subseteq Seq(STRING) /\ Stray \subseteq STRING
  /\ MinLength \in Nat /\ MaxStray \in Nat /\ MaxScans \in Nat
  /\ \A l \in Labels : Len(l) >= MinLength /\ Len(l) >= 3 /\ l[1] = "S" /\ l[2] = "L"

VARIABLES
  buffer,       \* _buffer
  gap,          \* since the last key, in SCAN_CHAR_TIMEOUT_MS: 0, 1 for up to two, 2 for more
  typing,       \* what the scanner still has to type of its label
  label,        \* the label being scanned
  undisturbed,  \* did that scan start in silence, and go on without a pause?
  reports,      \* the codes emitted by barcode_scanned
  scans,        \* counts the scans
  strays        \* counts the crew's keys

vars == <<buffer, gap, typing, label, undisturbed, reports, scans, strays>>

TypeOK ==
  /\ buffer \in Seq(STRING) /\ gap \in 0 .. 2
  /\ typing \in Seq(STRING) /\ label \in Labels \cup {<<>>}
  /\ undisturbed \in BOOLEAN
  /\ Len(reports) <= scans + strays /\ scans \in 0 .. MaxScans /\ strays \in 0 .. MaxStray

Init ==
  /\ buffer = <<>> /\ gap = 2 /\ typing = <<>> /\ label = <<>> /\ undisturbed = FALSE
  /\ reports = <<>> /\ scans = 0 /\ strays = 0

-----------------------------------------------------------------------------
(* eventFilter, one offer of a key: what the buffer is afterwards.  After  *)
(* a pause the key is taken for one of a human, and dropped.               *)
Offer(b, late, key) == IF b # <<>> /\ late THEN <<>> ELSE Append(b, key)

(* Was the offer taken?  Only if the buffer held a key before.             *)
Taken(b) == Len(b) > 1

(* A key, offered to n receivers in turn, until one is told it was taken:  *)
(* the third is, if not the second.                                        *)
OfferedOn(b, key) == IF Taken(b) THEN b ELSE Offer(b, FALSE, key)
Offered(n, late, key) ==
  LET once  == Offer(buffer, late, key)
      twice == OfferedOn(once, key)
  IN  CASE n = 1 -> once [] n = 2 -> twice [] OTHER -> OfferedOn(twice, key)

(* BarcodeScanEvent._parse, which takes the doubled S away.                *)
Normalized_Not(raw) == raw
Normalized(raw) == IF Len(raw) > 3 /\ SubSeq(raw, 1, 2) = <<"S", "S">> /\ raw[3] = "L"
                   THEN Tail(raw) ELSE raw

Press(key) ==
  /\ \E n \in Receivers : buffer' = Offered(n, gap > 0, key)
  /\ gap' = 0

(* Enter: _process_scan, or the reset of a buffer that is too short.       *)
Reset_Not == UNCHANGED buffer
Reset == buffer' = <<>>

Enter ==
  /\ reports' = IF Len(buffer) >= MinLength THEN Append(reports, Normalized(buffer)) ELSE reports
  /\ Reset /\ gap' = 2

-----------------------------------------------------------------------------
(* The scanner.  A pause longer than the timer's two timeouts empties the  *)
(* buffer (_on_timeout).                                                   *)
StartScan ==
  /\ typing = <<>> /\ label = <<>> /\ scans < MaxScans /\ scans' = scans + 1
  /\ \E l \in Labels : label' = l /\ typing' = l
  /\ undisturbed' = (gap = 2)
  /\ UNCHANGED <<buffer, gap, reports, strays>>

ScannerKey ==
  /\ typing # <<>> /\ typing' = Tail(typing)
  /\ Press(Head(typing))
  /\ UNCHANGED <<label, undisturbed, reports, scans, strays>>

ScannerEnter ==
  /\ typing = <<>> /\ label # <<>> /\ label' = <<>>
  /\ Enter
  /\ UNCHANGED <<typing, undisturbed, scans, strays>>

StrayKey ==
  /\ label = <<>> /\ strays < MaxStray /\ strays' = strays + 1
  /\ \E key \in Stray : Press(key)
  /\ UNCHANGED <<typing, label, undisturbed, reports, scans>>

StrayEnter ==
  /\ label = <<>> /\ strays < MaxStray /\ strays' = strays + 1
  /\ Enter
  /\ UNCHANGED <<typing, label, undisturbed, scans>>

(* Time passes; the Pi may be slow enough for it in the middle of a scan.  *)
Pause ==
  /\ gap' = IF gap < 2 THEN gap + 1 ELSE gap
  /\ undisturbed' = (undisturbed /\ (label = <<>> \/ typing = label))
  /\ buffer' = IF gap = 1 THEN <<>> ELSE buffer
  /\ UNCHANGED <<typing, label, reports, scans, strays>>

Next == StartScan \/ ScannerKey \/ ScannerEnter \/ StrayKey \/ StrayEnter \/ Pause

Spec == Init /\ [][Next]_vars

-----------------------------------------------------------------------------
(* A label that is scanned after a pause and typed without one is reported *)
(* as it is, once: the key the filter sees twice is not in its code, and   *)
(* nothing typed or scanned before is.                                     *)
ScanReported == ScannerEnter /\ undisturbed => reports' = Append(reports, label)
ScanIsReported == [][ScanReported]_vars
=============================================================================
