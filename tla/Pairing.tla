------------------------------- MODULE Pairing -------------------------------
(***************************************************************************)
(* Pairing with the cloud: the codes typed on Kivy's pairing screen, the   *)
(* unpair buttons of both interfaces, the pairing that cloud_client.py     *)
(* holds and keeps in a file, and the sync engine's threads, which are to  *)
(* run while the cabinet is paired.  The interface is one thread: what a   *)
(* callback does is one step of it.                                        *)
(***************************************************************************)
EXTENDS Naturals

CONSTANTS
  Keys,          \* the API keys the cloud gives out, each once
  NoKey,         \* not paired; no file
  Torn           \* a file that cannot be read

VARIABLES
  toolkit,       \* "kivy" or "qt"
  key,           \* api_key, while is_paired
  file,          \* the pairing file
  issued,        \* the keys given out so far
  running,       \* SyncEngine._running
  thread,        \* SyncEngine._thread; 0 without
  begun,         \* the sync loops begun since the program was
  loops,         \* those that have not ended
  outlived,      \* those that stop did not see end
  socket,        \* the key the WebSocket client was made with, if it was
  socketOn,      \* has it been started?
  page,          \* the screen
  button,        \* may CONNECT be pressed?
  asked,         \* is _execute_pairing scheduled?
  going,         \* is _go_home scheduled?
  anew,          \* has the pairing changed since the program began?
  failed         \* has saving or removing something failed since?

pairingVars == <<toolkit, key, file, issued, running, thread, begun, loops, outlived, socket,
                 socketOn, page, button, asked, going, anew, failed>>

engineVars == <<running, thread, begun, loops, outlived, socketOn>>

PairingAssumption == NoKey \notin Keys /\ Torn \notin Keys \cup {NoKey}

TypeOK ==
  /\ toolkit \in {"kivy", "qt"} /\ key \in Keys \cup {NoKey} /\ file \in Keys \cup {NoKey, Torn}
  /\ issued \subseteq Keys /\ socket \in Keys \cup {NoKey}
  /\ running \in BOOLEAN /\ socketOn \in BOOLEAN /\ button \in BOOLEAN /\ asked \in BOOLEAN
  /\ going \in BOOLEAN /\ anew \in BOOLEAN /\ failed \in BOOLEAN
  /\ begun \in Nat /\ thread \in 0 .. begun
  /\ loops \subseteq 1 .. begun /\ outlived \subseteq loops
  /\ page \in {"pairing", "home", "settings"}

(* build shows the pairing screen first when the cabinet is not paired.    *)
FirstPage(kit, k) == IF k = NoKey /\ kit = "kivy" THEN "pairing" ELSE "home"

Init ==
  /\ toolkit \in {"kivy", "qt"} /\ key = NoKey /\ file = NoKey /\ issued = {}
  /\ running = FALSE /\ thread = 0 /\ begun = 0 /\ loops = {} /\ outlived = {}
  /\ socket = NoKey /\ socketOn = FALSE
  /\ page = FirstPage(toolkit, NoKey)
  /\ button = TRUE /\ asked = FALSE /\ going = FALSE /\ anew = FALSE /\ failed = FALSE

(* The program begins again.  The pairing is loaded, the WebSocket client  *)
(* made if there is one, and sync started.                                 *)
Loaded == IF file \in Keys THEN file ELSE NoKey
Reboot ==
  /\ toolkit' \in {"kivy", "qt"} /\ key' = Loaded
  /\ running' = (key' # NoKey)
  /\ begun' = (IF key' = NoKey THEN 0 ELSE 1)
  /\ thread' = begun' /\ loops' = 1 .. begun' /\ outlived' = {}
  /\ socket' \in {Loaded, NoKey} /\ socketOn' = (socket' # NoKey)
  /\ page' = FirstPage(toolkit', Loaded)
  /\ button' = TRUE /\ asked' = FALSE /\ going' = FALSE /\ anew' = FALSE /\ failed' = FALSE
  /\ UNCHANGED <<file, issued>>

-----------------------------------------------------------------------------
(* mutant: start does not ask.                                             *)
Start_Again ==
  /\ running' = TRUE /\ begun' = begun + 1 /\ thread' = begun + 1
  /\ loops' = loops \cup {begun + 1}
  /\ socketOn' = (socket # NoKey)
  /\ UNCHANGED outlived

(* The sync engine.  start does nothing when it is running.                *)
Start ==
  IF running
    THEN UNCHANGED engineVars
    ELSE /\ running' = TRUE /\ begun' = begun + 1 /\ thread' = begun + 1
         /\ loops' = loops \cup {begun + 1}
         /\ socketOn' = (socket # NoKey)
         /\ UNCHANGED outlived

(* stop waits five seconds for the thread, which may be longer in a call.  *)
Stop ==
  /\ running' = FALSE /\ socketOn' = FALSE /\ thread' = 0 /\ UNCHANGED begun
  /\ \/ loops' = loops \ {thread} /\ UNCHANGED outlived
     \/ loops' = loops /\ outlived' = outlived \cup ({thread} \cap loops)

(* A loop sees that it is to end.                                          *)
LoopEnds ==
  /\ ~running
  /\ \E l \in loops : loops' = loops \ {l} /\ outlived' = outlived \ {l}
  /\ UNCHANGED <<toolkit, key, file, issued, running, thread, begun, socket, socketOn, page,
                 button, asked, going, anew, failed>>

-----------------------------------------------------------------------------
(* The pairing screen.  What is pressed is done a moment later.            *)
Connect ==
  /\ toolkit = "kivy" /\ page = "pairing" /\ button
  /\ button' = FALSE /\ asked' = TRUE
  /\ UNCHANGED <<toolkit, key, file, issued, engineVars, socket, page, going, anew, failed>>

(* _execute_pairing: the cloud refuses the code.                           *)
PairingRefused ==
  /\ asked /\ asked' = FALSE /\ button' = TRUE
  /\ UNCHANGED <<toolkit, key, file, issued, engineVars, socket, page, going, anew, failed>>

Paired(k) ==
  /\ asked /\ asked' = FALSE
  /\ k \notin issued /\ issued' = issued \cup {k}
  /\ key' = k /\ anew' = TRUE

(* The pairing is saved, then the products and recipes, then sync starts.  *)
PairingDone(k) ==
  /\ Paired(k)
  /\ file' = k
  /\ Start
  /\ going' = TRUE
  /\ UNCHANGED <<toolkit, socket, page, button, failed>>

(* One of the savings fails: the screen says that pairing failed, but the  *)
(* pairing holds as far as it got.                                         *)
PairingHalfDone(k) ==
  /\ Paired(k)
  /\ file' \in {file, Torn, k}
  /\ failed' = TRUE /\ button' = TRUE
  /\ UNCHANGED <<toolkit, engineVars, socket, page, going>>

GoHome ==
  /\ going /\ going' = FALSE /\ page' = "home"
  /\ UNCHANGED <<toolkit, key, file, issued, engineVars, socket, button, asked, anew, failed>>

(* skip_pairing, and the ways between the other screens.                   *)
GoTo(p) ==
  /\ p # page /\ (page = "pairing" => p = "home")
  /\ page' = p
  /\ UNCHANGED <<toolkit, key, file, issued, engineVars, socket, button, asked, going, anew,
                 failed>>

(* open_pair.  The pairing screen is built anew each time; Qt's is a       *)
(* placeholder.                                                            *)
OpenPair ==
  /\ page = "settings" /\ page' = "pairing"
  /\ button' = TRUE
  /\ UNCHANGED <<toolkit, key, file, issued, engineVars, socket, asked, going, anew, failed>>

(* unpair removes the file first; when that fails the pairing stays.       *)
Forget == \/ key' = NoKey /\ file' = NoKey /\ anew' = TRUE /\ UNCHANGED failed
          \/ failed' = TRUE /\ UNCHANGED <<key, file, anew>>

(* do_unpair and _on_unpair.  Kivy's stops sync before, and ends when the  *)
(* removal fails; Qt's stops it after.  No callback can tell the two.      *)
Unpair ==
  /\ page = "settings" /\ key # NoKey
  /\ Stop /\ Forget
  /\ UNCHANGED <<toolkit, issued, socket, page, button, asked, going>>

Next ==
  \/ Reboot \/ LoopEnds \/ Connect \/ PairingRefused \/ GoHome \/ OpenPair \/ Unpair
  \/ \E k \in Keys : PairingDone(k) \/ PairingHalfDone(k)
  \/ \E p \in {"home", "settings"} : GoTo(p)

Spec == Init /\ [][Next]_pairingVars

-----------------------------------------------------------------------------
(* Sync runs while the cabinet is paired and not otherwise, with one loop  *)
(* unless an older one was not seen to end; what the file says is what     *)
(* holds; and what goes through the socket goes under the pairing that     *)
(* holds, as long as that has not changed since the program began.  Only   *)
(* a saving or a removal that failed makes an exception.                   *)
PairingHolds ==
  /\ running => key # NoKey /\ thread \in loops
  /\ \A l, m \in loops \ outlived : l = m
  /\ ~failed => /\ key # NoKey => running
                /\ file = key \/ (file = Torn /\ key = NoKey)
  /\ socketOn => running /\ (anew \/ socket = key)
=============================================================================
