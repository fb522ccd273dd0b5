----------------------------- MODULE TagWriting -----------------------------
(***************************************************************************)
(* Writing a product on a tag: the screen ui_qt/screens/tag_writer.py, the *)
(* driver hal/real/real_rfid_multi_pn532.py with its lock and its cache of *)
(* what the tags say, and the table rfid_tag.  The screen scans the chosen *)
(* reader on a thread, writes on another, and gives a write up after eight *)
(* seconds, although its thread goes on; the threads' results come to the  *)
(* screen as queued signals.  The tracker reads through the same driver    *)
(* while the screen is closed.                                             *)
(*                                                                         *)
(* What a tag says is a product, nothing, or a mixture of old and new.     *)
(***************************************************************************)
EXTENDS Naturals, Sequences, FiniteSets

CONSTANTS
  Tags, Readers, Products,
  NoTag,          \* no tag on a reader, or none seen
  MaxWrites,      \* a bound on the writes
  MaxMoves,       \* a bound on what the crew does with the cans
  Tries           \* the attempts of write_product_data, 3 in the code

WriterAssumption == /\ Readers # {} /\ Products # {} /\ NoTag \notin Tags
                    /\ "unread" \notin Products
                    /\ MaxWrites \in Nat /\ MaxMoves \in Nat /\ Tries \in Nat \ {0}

Writes == 1 .. MaxWrites
Says == Products \cup {"blank", "mixed"}
Unread == "unread"
FirstReader == CHOOSE r \in Readers : TRUE
FirstProduct == CHOOSE p \in Products : TRUE

VARIABLES
  at,             \* the tag on each reader
  says,           \* what each tag says
  cache,          \* tag_cache of each reader
  holder,         \* who has the lock of each reader: "scan", a write, or nobody
  on,             \* is the screen open? rfid_paused is the same.
  chosen,         \* the reader chosen on it
  scanTimer, busy,   \* _scan_timer runs; _scan_busy
  scan,           \* the scanning thread
  lastUid, writing, button,  \* _last_uid, _writing, the button is enabled
  limit, resume,  \* the 8 s timer runs; the timer that starts the scans again
  write,          \* the writing threads
  results,        \* their queued results
  mapped,         \* rfid_tag
  moves,          \* what the crew has done with the cans
  strayed,        \* tags written on one reader while another knew them, or
                  \* whose reading or writing was cut short
  sure            \* since the button: the tag on the reader is the one shown,
                  \* and no write before this one is still under way

driverVars == <<at, says, cache, holder>>
formVars == <<on, chosen>>
screenVars == <<scanTimer, busy, lastUid, writing, button, limit, resume>>
writingVars == <<driverVars, formVars, screenVars, scan, write, results, mapped, moves,
                 strayed, sure>>

Nobody == 0
Scanner == MaxWrites + 1
NoScan == [pc |-> "idle", reader |-> FirstReader, tag |-> NoTag]
NoWrite == [pc |-> "idle", reader |-> FirstReader, product |-> FirstProduct, tag |-> NoTag,
            tries |-> 0]

TypeOK ==
  /\ at \in [Readers -> Tags \cup {NoTag}]
  /\ \A r, q \in Readers : at[r] = at[q] /\ r # q => at[r] = NoTag
  /\ says \in [Tags -> Says]
  /\ cache \in [Readers -> [Tags -> Says \cup {Unread}]]
  /\ holder \in [Readers -> Nobody .. Scanner]
  /\ on \in BOOLEAN /\ chosen \in Readers
  /\ scanTimer \in BOOLEAN /\ busy \in BOOLEAN
  /\ scan \in [pc : {"idle", "waiting", "holding", "told"}, reader : Readers,
               tag : Tags \cup {NoTag}]
  /\ lastUid \in Tags \cup {NoTag} /\ writing \in BOOLEAN /\ button \in BOOLEAN
  /\ limit \in BOOLEAN /\ resume \in BOOLEAN
  /\ write \in [Writes -> [pc : {"idle", "waiting", "holding", "half", "ended"},
                           reader : Readers, product : Products, tag : Tags \cup {NoTag},
                           tries : 0 .. Tries]]
  /\ results \in Seq([ok : BOOLEAN, product : Products])
  /\ mapped \in [Tags -> Products \cup {"none"}]
  /\ moves \in 0 .. MaxMoves /\ strayed \subseteq Tags /\ sure \in BOOLEAN

Init ==
  /\ \E t \in Tags : at = [r \in Readers |-> IF r = FirstReader THEN t ELSE NoTag]
  /\ says = [t \in Tags |-> "blank"]
  /\ cache = [r \in Readers |-> [t \in Tags |-> Unread]]
  /\ holder = [r \in Readers |-> Nobody]
  /\ on = FALSE /\ chosen = FirstReader
  /\ scanTimer = FALSE /\ busy = FALSE /\ scan = NoScan
  /\ lastUid = NoTag /\ writing = FALSE /\ button = TRUE /\ limit = FALSE /\ resume = FALSE
  /\ write = [w \in Writes |-> NoWrite] /\ results = <<>>
  /\ mapped = [t \in Tags |-> "none"] /\ moves = 0 /\ strayed = {} /\ sure = FALSE

-----------------------------------------------------------------------------
(* The driver.                                                             *)

(* _poll_one_reader, second half: a tag that is not in the cache is read.  *)
(* If it has gone meanwhile, nothing or a part of what it says is read,    *)
(* and kept all the same.                                                  *)
Read(r, t) == IF at[r] = t THEN {says[t]} ELSE {"blank", "mixed"}

Remembered(r, t) ==
  IF t = NoTag \/ cache[r][t] # Unread
    THEN UNCHANGED <<cache, strayed>>
    ELSE \E v \in Read(r, t) :
           /\ cache' = [cache EXCEPT ![r][t] = v]
           /\ strayed' = IF at[r] = t THEN strayed ELSE strayed \cup {t}

Free_NoLock(r, me) == me # Scanner \/ holder[r] = Nobody
Free(r, me) == holder[r] = Nobody

(* The tracker's poll of a reader, while it is not paused.                 *)
TrackerPoll(r) ==
  /\ ~on /\ holder[r] = Nobody
  /\ Remembered(r, at[r])
  /\ UNCHANGED <<at, says, holder, formVars, screenVars, scan, write, results, mapped, moves,
                 sure>>

(* The screen's scan: poll_reader of the reader chosen when it began.  It  *)
(* may miss the tag.                                                       *)
ScanTake ==
  /\ scan.pc = "waiting" /\ Free(scan.reader, Scanner)
  /\ holder' = [holder EXCEPT ![scan.reader] = Scanner]
  /\ \E t \in {at[scan.reader], NoTag} : scan' = [scan EXCEPT !.pc = "holding", !.tag = t]
  /\ UNCHANGED <<at, says, cache, formVars, screenVars, write, results, mapped, moves,
                 strayed, sure>>

ScanRead ==
  /\ scan.pc = "holding"
  /\ Remembered(scan.reader, scan.tag)
  /\ holder' = [holder EXCEPT ![scan.reader] = Nobody]
  /\ scan' = [scan EXCEPT !.pc = "told"]
  /\ UNCHANGED <<at, says, formVars, screenVars, write, results, mapped, moves, sure>>

(* write_product_data: up to Tries attempts, each of which waits five      *)
(* seconds for the lock at most.                                           *)
Ended(w, ok) ==
  /\ write' = [write EXCEPT ![w] = [NoWrite EXCEPT !.pc = "ended"]]
  /\ results' = Append(results, [ok |-> ok, product |-> write[w].product])

Failed(w) ==
  IF write[w].tries + 1 = Tries
    THEN Ended(w, FALSE)
    ELSE /\ write' = [write EXCEPT ![w].pc = "waiting", ![w].tries = @ + 1]
         /\ UNCHANGED results

WriteNoLock(w) ==
  /\ write[w].pc = "waiting" /\ holder[write[w].reader] # Nobody
  /\ Failed(w)
  /\ UNCHANGED <<driverVars, formVars, screenVars, scan, mapped, moves, strayed, sure>>

(* _write_on_reader_unlocked: the tag that is there now is the one that is *)
(* written.                                                                *)
WriteTake(w) ==
  LET r == write[w].reader IN
  /\ write[w].pc = "waiting" /\ Free(r, w)
  /\ \/ /\ at[r] # NoTag
        /\ holder' = [holder EXCEPT ![r] = w]
        /\ write' = [write EXCEPT ![w].pc = "holding", ![w].tag = at[r]]
        /\ UNCHANGED results
     \/ Failed(w) /\ UNCHANGED holder
  /\ UNCHANGED <<at, says, cache, formVars, screenVars, scan, mapped, moves, strayed, sure>>

KnownElsewhere(r, t) == {u \in {t} : \E q \in Readers \ {r} : cache[q][t] # Unread}

WriteHalf(w) ==
  LET t == write[w].tag IN
  /\ write[w].pc = "holding" /\ at[write[w].reader] = t
  /\ says' = [says EXCEPT ![t] = "mixed"]
  /\ write' = [write EXCEPT ![w].pc = "half"]
  /\ strayed' = strayed \cup KnownElsewhere(write[w].reader, t)
  /\ UNCHANGED <<at, cache, holder, formVars, screenVars, scan, results, mapped, moves, sure>>

Cleared_Not(r) == cache
Cleared(r) == [cache EXCEPT ![r] = [t \in Tags |-> Unread]]
WriteRest(w) ==
  LET t == write[w].tag
      r == write[w].reader
  IN /\ write[w].pc = "half" /\ at[r] = t
     /\ says' = [says EXCEPT ![t] = write[w].product]
     /\ cache' = Cleared(r)
     /\ strayed' = strayed \cup KnownElsewhere(r, t)
     /\ holder' = [holder EXCEPT ![r] = Nobody]
     /\ Ended(w, TRUE)
     /\ UNCHANGED <<at, formVars, screenVars, scan, mapped, moves, sure>>

(* A page that cannot be written raises an exception or is reported by a   *)
(* result nobody looks at: then the write goes on and is called a success. *)
WriteBreaks(w) ==
  LET r == write[w].reader IN
  /\ write[w].pc \in {"holding", "half"}
  /\ strayed' = strayed \cup {write[w].tag}
  /\ holder' = [holder EXCEPT ![r] = Nobody]
  /\ \/ UNCHANGED cache /\ Failed(w)
     \/ at[r] # write[w].tag /\ cache' = Cleared(r) /\ Ended(w, TRUE)
  /\ UNCHANGED <<at, says, formVars, screenVars, scan, mapped, moves, sure>>

WriteStep == \E w \in Writes : \/ WriteNoLock(w) \/ WriteTake(w) \/ WriteHalf(w)
                               \/ WriteRest(w) \/ WriteBreaks(w)

-----------------------------------------------------------------------------
(* The screen.                                                             *)

(* on_enter: the list of readers is filled anew, so the first is chosen.   *)
Enter ==
  /\ ~on
  /\ on' = TRUE /\ chosen' = FirstReader
  /\ scanTimer' = TRUE
  /\ UNCHANGED <<driverVars, busy, scan, lastUid, writing, button, limit, resume, write,
                 results, mapped, moves, strayed, sure>>

Leave ==
  /\ on
  /\ on' = FALSE /\ scanTimer' = FALSE /\ writing' = FALSE
  /\ UNCHANGED <<driverVars, chosen, busy, scan, lastUid, button, limit, resume,
                 write, results, mapped, moves, strayed, sure>>

(* Another reader is chosen; what is shown of a tag stays.                 *)
Choose(r) ==
  /\ on /\ r # chosen
  /\ chosen' = r
  /\ UNCHANGED <<driverVars, on, screenVars, scan, write, results, mapped, moves, strayed,
                 sure>>

(* _scan_for_tag, from the timer.                                          *)
ScanTick ==
  /\ scanTimer /\ ~writing /\ ~busy
  /\ busy' = TRUE
  /\ scan' = [pc |-> "waiting", reader |-> chosen, tag |-> NoTag]
  /\ UNCHANGED <<driverVars, formVars, scanTimer, lastUid, writing, button, limit, resume,
                 write, results, mapped, moves, strayed, sure>>

(* _update_scan_ui.                                                        *)
ScanShown ==
  /\ scan.pc = "told"
  /\ busy' = FALSE /\ lastUid' = scan.tag /\ scan' = NoScan
  /\ sure' = (sure /\ lastUid' = lastUid)
  /\ UNCHANGED <<driverVars, formVars, scanTimer, writing, button, limit, resume, write,
                 results, mapped, moves, strayed>>

(* _on_write_tag, for the product the form says.                           *)
Press(w, p) ==
  /\ on /\ button /\ ~writing /\ lastUid # NoTag /\ write[w] = NoWrite
  /\ \A v \in Writes : v < w => write[v] # NoWrite
  /\ writing' = TRUE /\ button' = FALSE /\ scanTimer' = FALSE /\ limit' = TRUE
  /\ write' = [write EXCEPT ![w] = [NoWrite EXCEPT !.pc = "waiting", !.reader = chosen,
                                                   !.product = p]]
  /\ sure' = (at[chosen] = lastUid /\ results = <<>>
                /\ \A v \in Writes : write[v].pc \in {"idle", "ended"})
  /\ UNCHANGED <<driverVars, formVars, busy, scan, lastUid, resume, results, mapped, moves,
                 strayed>>

Register_Any(ok, p) ==
  mapped' = IF lastUid \in Tags THEN [mapped EXCEPT ![lastUid] = p] ELSE mapped
Register(ok, p) ==
  mapped' = IF ok /\ lastUid \in Tags THEN [mapped EXCEPT ![lastUid] = p] ELSE mapped

(* _on_write_complete, for the result of a thread: whichever write it      *)
(* comes from, it ends the one the screen waits for.                       *)
Complete ==
  /\ results # <<>>
  /\ results' = Tail(results)
  /\ limit' = FALSE
  /\ IF writing
       THEN /\ writing' = FALSE /\ button' = TRUE /\ scanTimer' = TRUE
            /\ Register(Head(results).ok, Head(results).product)
       ELSE UNCHANGED <<writing, button, scanTimer, mapped>>
  /\ UNCHANGED <<driverVars, formVars, busy, scan, lastUid, resume, write, moves, strayed, sure>>

(* _on_write_timeout: the screen goes on without the thread, and scans     *)
(* again two seconds later.                                                *)
Timeout ==
  /\ limit
  /\ limit' = FALSE
  /\ IF writing THEN writing' = FALSE /\ button' = TRUE /\ resume' = TRUE
                ELSE UNCHANGED <<writing, button, resume>>
  /\ UNCHANGED <<driverVars, formVars, scanTimer, busy, scan, lastUid, write, results, mapped,
                 moves, strayed, sure>>

Resume ==
  /\ resume
  /\ resume' = FALSE /\ scanTimer' = TRUE
  /\ UNCHANGED <<driverVars, formVars, busy, scan, lastUid, writing, button, limit, write,
                 results, mapped, moves, strayed, sure>>

ScanStep == ScanTick \/ ScanTake \/ ScanRead \/ ScanShown
ScreenStep == Complete \/ Timeout \/ Resume

-----------------------------------------------------------------------------
(* The crew takes a can away, or puts it on a reader that has none.        *)
Move(t, place) ==
  /\ moves < MaxMoves /\ moves' = moves + 1
  /\ \A r \in Readers : r \in place => at[r] = NoTag
  /\ at' = [r \in Readers |-> CASE r \in place -> t
                                 [] r \notin place /\ at[r] = t -> NoTag
                                 [] OTHER -> at[r]]
  /\ sure' = FALSE
  /\ UNCHANGED <<says, cache, holder, formVars, screenVars, scan, write, results, mapped,
                 strayed>>

Next == \/ Enter \/ Leave \/ ScanStep \/ ScreenStep \/ WriteStep
        \/ \E w \in Writes, p \in Products : Press(w, p)
        \/ \E r \in Readers : Choose(r) \/ TrackerPoll(r)
        \/ \E t \in Tags : Move(t, {}) \/ \E r \in Readers : Move(t, {r})

Spec == Init /\ [][Next]_writingVars

(* The threads run and the screen's event loop turns.                      *)
FairSpec == Spec /\ WF_writingVars(WriteStep) /\ WF_writingVars(ScanStep)
                 /\ WF_writingVars(ScreenStep)

(* Bound: once the crew has moved a can no second write is looked into.    *)
FewWrites == moves > 0 => \A w \in Writes \ {1} : write[w] = NoWrite

-----------------------------------------------------------------------------
(* What the driver remembers of a tag is what the tag says, unless the tag *)
(* was written on one reader while another remembered it, or its reading   *)
(* or writing was cut short: a scan that waits for a write to end does not *)
(* bring back what the tag said before.                                    *)
CacheIsTrue ==
  \A r \in Readers, t \in Tags :
    holder[r] = Nobody /\ t \notin strayed => cache[r][t] \in {Unread, says[t]}

(* A tag is mapped to the product it was given: unless another tag was     *)
(* shown than the one on the reader, or an earlier write was still under   *)
(* way, what enters the table is what the tag says.                        *)
MappedAsWritten ==
  \A t \in Tags : mapped'[t] # mapped[t] /\ sure /\ t \notin strayed => says[t] = mapped'[t]
MappingIsTrue == [][MappedAsWritten]_writingVars

(* The button of the screen comes back, as the timeout of eight seconds is *)
(* there to ensure.                                                        *)
ButtonReturns == []<>button
=============================================================================
