------------------------------- MODULE Backups -------------------------------
(***************************************************************************)
(* The copies of the database: core/backup_manager.py.  A thread makes a   *)
(* copy now and then, removes the oldest ones and copies the new one to a  *)
(* USB medium if there is one.  The copies are ordered by the time of      *)
(* their last change, which is that of a clock that may be set back.       *)
(***************************************************************************)
EXTENDS Naturals, Sequences

CONSTANTS
  MaxCopies,     \* max_copies
  MaxBackups,    \* a bound on the copies begun
  MaxSetBacks    \* a bound on the times the clock is set back

VARIABLES
  files,         \* the copies, the oldest first: is it a whole one?
  running,       \* _running
  step,          \* where _do_backup is
  latest,        \* does _last_backup_path exist?
  medium,        \* the USB medium: "none", "empty", or whether it holds a whole copy
  made,          \* has a copy ever been made?
  unrotated,     \* copies begun since a rotation last went through
  begun,         \* the copies begun
  setBacks       \* how often the clock has been set back

backupVars == <<files, running, step, latest, medium, made, unrotated, begun, setBacks>>

BackupAssumption == MaxCopies \in Nat \ {0} /\ MaxBackups \in Nat /\ MaxSetBacks \in Nat

TypeOK ==
  /\ files \in Seq(BOOLEAN) /\ running \in BOOLEAN /\ latest \in BOOLEAN /\ made \in BOOLEAN
  /\ step \in {"rest", "copying", "rotating", "usb"}
  /\ medium \in {"none", "empty", "whole", "torn"}
  /\ unrotated \in Nat /\ begun \in 0 .. MaxBackups /\ setBacks \in 0 .. MaxSetBacks

Init ==
  /\ files = <<>> /\ running = TRUE /\ step = "rest" /\ latest = FALSE
  /\ medium \in {"none", "empty"} /\ made = FALSE /\ unrotated = 0
  /\ begun = 0 /\ setBacks = 0

(* A copy is the newest, unless the clock has been set back: then it may   *)
(* be older than any of the others.                                        *)
Inserted(whole) ==
  {SubSeq(files, 1, i) \o <<whole>> \o SubSeq(files, i + 1, Len(files)) :
     i \in IF setBacks = 0 THEN {Len(files)} ELSE 0 .. Len(files)}

-----------------------------------------------------------------------------
(* _do_backup.                                                             *)
BeginBackup ==
  /\ running /\ step = "rest" /\ begun < MaxBackups
  /\ step' = "copying" /\ begun' = begun + 1
  /\ UNCHANGED <<files, running, latest, medium, made, unrotated, setBacks>>

CopyMade ==
  /\ step = "copying" /\ step' = "rotating"
  /\ files' \in Inserted(TRUE)
  /\ latest' = TRUE /\ made' = TRUE /\ unrotated' = unrotated + 1
  /\ UNCHANGED <<running, medium, begun, setBacks>>

(* The copy fails, with or without leaving a part of it, which has a name  *)
(* like the others' and is not removed.                                    *)
CopyFails ==
  /\ step = "copying" /\ step' = "rest"
  /\ files' \in {files} \cup Inserted(FALSE)
  /\ unrotated' = unrotated + 1
  /\ UNCHANGED <<running, latest, medium, made, begun, setBacks>>

(* _rotate_backups removes the oldest, until a removal fails; if the clock *)
(* was set back the new copy may be among them.                            *)
Surplus == IF Len(files) <= MaxCopies THEN 0 ELSE Len(files) - MaxCopies
(* mutant: the newest are removed.                                         *)
Without_Newest(n) == SubSeq(files, 1, Len(files) - n)
Without(n) == SubSeq(files, n + 1, Len(files))

Rotate ==
  /\ step = "rotating" /\ step' = "usb"
  /\ \E n \in 0 .. Surplus :
       /\ files' = Without(n)
       /\ unrotated' = IF n = Surplus THEN 0 ELSE unrotated
       /\ latest' \in {TRUE, n = 0 \/ setBacks = 0}
  /\ UNCHANGED <<running, medium, made, begun, setBacks>>

(* _copy_to_usb, of the new copy, if it is still there.                    *)
CopyToUsb ==
  /\ step = "usb" /\ step' = "rest"
  /\ IF medium # "none" /\ latest THEN medium' \in {"whole", "torn"} ELSE UNCHANGED medium
  /\ UNCHANGED <<files, running, latest, made, unrotated, begun, setBacks>>

(* stop; the thread finishes what it is at.                                *)
Stop ==
  /\ running /\ running' = FALSE
  /\ UNCHANGED <<files, step, latest, medium, made, unrotated, begun, setBacks>>

(* The program, or the power, goes and comes again, whatever the thread is *)
(* at.  What was being copied is left behind as it is.                     *)
Restart ==
  /\ running' = TRUE /\ step' = "rest" /\ latest' = FALSE
  /\ IF step = "copying" THEN files' \in {files} \cup Inserted(FALSE) /\ unrotated' = unrotated + 1
                         ELSE UNCHANGED <<files, unrotated>>
  /\ UNCHANGED <<medium, made, begun, setBacks>>

SetBack ==
  /\ setBacks < MaxSetBacks /\ setBacks' = setBacks + 1
  /\ UNCHANGED <<files, running, step, latest, medium, made, unrotated, begun>>

ChangeMedium ==
  /\ medium' \in {"none", "empty"} \ {medium}
  /\ UNCHANGED <<files, running, step, latest, made, unrotated, begun, setBacks>>

Next == BeginBackup \/ CopyMade \/ CopyFails \/ Rotate \/ CopyToUsb \/ Stop \/ Restart
          \/ SetBack \/ ChangeMedium

Spec == Init /\ [][Next]_backupVars

-----------------------------------------------------------------------------
(* Once a copy was made there is a whole one, however many failed since    *)
(* and were rotated, unless the clock was set back; and there are no more  *)
(* than max_copies and those begun since the last rotation.                *)
BackupIsKept ==
  /\ made /\ setBacks = 0 => \E i \in 1 .. Len(files) : files[i]
  /\ Len(files) <= MaxCopies + unrotated
=============================================================================
