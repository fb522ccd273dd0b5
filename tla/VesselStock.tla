----------------------------- MODULE VesselStock -----------------------------
(***************************************************************************)
(* The table vessel_stock: how many litres of each paint are on board.     *)
(* The interface's thread changes amounts when a can is loaded or unloaded *)
(* (a barcode, a weight alarm, the stock-loading screen) or a mix is done, *)
(* and deletes rows; the sync thread, and the WebSocket's thread on a      *)
(* config_update command, bring the table in line with the cloud's list    *)
(* and merge rows that were stored under a code that the catalogue did not *)
(* know.                                                                   *)
(*                                                                         *)
(* All threads share one SQLite connection.  A statement and its commit    *)
(* are one step; what one statement reads and the next one writes are two. *)
(* The amount of a change is one unit.                                     *)
(***************************************************************************)
EXTENDS Integers, Functions

CONSTANTS
  Paints,       \* the products there are
  MaxChanges,   \* bounds the crew's acts, crashes and commands by WebSocket
  AdminRemoves  \* does the cloud's administrator take products off the list?

StockAssumption == MaxChanges \in Nat

Threads == {"sync", "ws"}

(* A row's product_id is the product's, or the code of a paint that was    *)
(* not in the catalogue when it was scanned.                               *)
Id(p)   == <<"id", p>>
Code(p) == <<"code", p>>
Keys    == {Id(p) : p \in Paints} \cup {Code(p) : p \in Paints}
NoKey   == <<"none", "none">>
Absent  == -1

VARIABLES
  stock,         \* vessel_stock: the rows there are, with current_liters
  catalog,       \* the paints of the table product
  cloudCatalog,  \* what the cloud's next answer has as products
  cloudList,     \* and as the vessel's stock
  edit,          \* the interface's thread in update_vessel_stock_from_barcode
  task,          \* a thread's place in _do_config_sync
  changes,       \* how many of these there were
  owed,          \* the litres of each paint by the changes that were confirmed
  upset          \* the paints whose amount two threads, a crash or the cloud spoilt

cloudVars == <<cloudCatalog, cloudList>>
vars == <<stock, catalog, cloudVars, edit, task, changes, owed, upset>>

Amount(k)  == IF k \in DOMAIN stock THEN stock[k] ELSE Absent
Liters(k)  == IF k \in DOMAIN stock THEN stock[k] ELSE 0
Without(k) == Restrict(stock, DOMAIN stock \ {k})
With(k, n) == [j \in DOMAIN stock \cup {k} |-> IF j = k THEN n ELSE stock[j]]

Resting == [pc |-> "idle", list |-> {}, todo |-> {}, snap |-> <<>>, key |-> NoKey, seen |-> Absent]
EditResting == [pc |-> "idle", key |-> NoKey, load |-> FALSE, seen |-> Absent]

TypeOK ==
  /\ DOMAIN stock \subseteq Keys /\ \A k \in DOMAIN stock : stock[k] \in Nat
  /\ catalog \subseteq cloudCatalog /\ cloudCatalog \subseteq Paints
  /\ cloudList \subseteq Keys
  /\ \A t \in Threads :
       /\ task[t].pc \in {"idle", "upsert", "insert", "remove", "orphans", "check", "write", "merged"}
       /\ task[t].list \subseteq Keys /\ task[t].todo \subseteq Keys
       /\ DOMAIN task[t].snap \subseteq Keys
  /\ edit.pc \in {"idle", "write"} /\ edit.key \in Keys \cup {NoKey}
  /\ owed \in [Paints -> 0 .. MaxChanges] /\ upset \subseteq Paints
  /\ changes \in 0 .. MaxChanges

Init ==
  /\ stock = <<>> /\ catalog = {} /\ cloudCatalog = {} /\ cloudList = {}
  /\ edit = EditResting /\ task = [t \in Threads |-> Resting]
  /\ changes = 0 /\ owed = [p \in Paints |-> 0] /\ upset = {}

-----------------------------------------------------------------------------
(* update_vessel_stock_from_barcode.  The product is looked up, the row is *)
(* read, and then written or inserted: an UPDATE of a row that has gone    *)
(* changes nothing, an INSERT of one that is there raises an exception.    *)
KeyOf(k) == IF k[2] \in catalog THEN Id(k[2]) ELSE k

Changed_Unclamped(old, load) == IF load \/ old = 0 THEN old + 1 ELSE old - 1
Changed(old, load) == IF load THEN old + 1 ELSE IF old = 0 THEN 0 ELSE old - 1

Written(k, seen, n) == IF (seen = Absent) = (k \in DOMAIN stock) THEN stock ELSE With(k, n)

ChangeRead(k, load) ==
  /\ edit.pc = "idle" /\ changes < MaxChanges
  /\ changes' = changes + 1
  /\ edit' = [pc |-> "write", key |-> KeyOf(k), load |-> load, seen |-> Amount(KeyOf(k))]
  /\ UNCHANGED <<stock, catalog, cloudVars, task, owed, upset>>

(* A barcode is of the product it is linked to, or has only its code (the  *)
(* cloud links them to products that it lists).                            *)
Linked(p) == p \in catalog
Scanned(p) == IF Linked(p) THEN Id(p) ELSE Code(p)
ScanRead(p, load) == ChangeRead(Scanned(p), load)

(* What a mix took of the base or the hardener, if the catalogue has it.   *)
(* (The older interface gives the mixing engine the database.)             *)
Consume(p) == p \in catalog /\ ChangeRead(Id(p), FALSE)

ScanWrite ==
  /\ edit.pc = "write" /\ edit' = EditResting
  /\ LET p   == edit.key[2]
         old == IF edit.seen = Absent THEN 0 ELSE edit.seen
     IN /\ stock' = Written(edit.key, edit.seen, Changed(old, edit.load))
        /\ owed' = [owed EXCEPT ![p] = IF edit.load THEN @ + 1
                                       ELSE IF old = 0 \/ @ = 0 THEN @ ELSE @ - 1]
        /\ upset' = IF Amount(edit.key) = edit.seen THEN upset ELSE upset \cup {p}
  /\ UNCHANGED <<catalog, cloudVars, task, changes>>

(* The inventory screen deletes a row for good.                            *)
DeleteItem(k) ==
  /\ edit.pc = "idle" /\ changes < MaxChanges /\ k \in DOMAIN stock
  /\ changes' = changes + 1
  /\ stock' = Without(k)
  /\ owed' = [owed EXCEPT ![k[2]] = IF @ < stock[k] THEN 0 ELSE @ - stock[k]]
  /\ UNCHANGED <<catalog, cloudVars, edit, task, upset>>

-----------------------------------------------------------------------------
(* _do_config_sync on thread t.                                            *)
Place(t, new) == task' = [task EXCEPT ![t] = new]
Done(t) == task' = [task EXCEPT ![t] = Resting]

(* The cloud has answered and the products are saved.  The answer may lack *)
(* the vessel's stock.  The WebSocket's thread does this when the cloud    *)
(* commands it.                                                            *)
Fetch(t) ==
  /\ task[t].pc = "idle"
  /\ IF t = "sync" THEN UNCHANGED changes
                   ELSE changes < MaxChanges /\ changes' = changes + 1
  /\ catalog' = cloudCatalog
  /\ \/ Place(t, [task[t] EXCEPT !.pc = "upsert", !.list = cloudList, !.todo = cloudList])
     \/ Place(t, [task[t] EXCEPT !.pc = "orphans"])
  /\ UNCHANGED <<stock, cloudVars, edit, owed, upset>>

(* upsert_vessel_stock_metadata: a row that is there keeps its amount, one *)
(* that is not is inserted without litres.  After the last item the rows   *)
(* to delete are read.                                                     *)
UpsertSelect(t) ==
  /\ task[t].pc = "upsert"
  /\ IF task[t].todo = {}
       THEN Place(t, [task[t] EXCEPT !.pc = "remove", !.list = {},
                                     !.todo = DOMAIN stock \ task[t].list])
       ELSE \E k \in task[t].todo :
              IF k \in DOMAIN stock
                THEN Place(t, [task[t] EXCEPT !.todo = @ \ {k}])
                ELSE Place(t, [task[t] EXCEPT !.pc = "insert", !.key = k])
  /\ UNCHANGED <<stock, catalog, cloudVars, edit, changes, owed, upset>>

Inserted(t) ==
  Place(t, [task[t] EXCEPT !.pc = "upsert", !.todo = @ \ {task[t].key}, !.key = NoKey])

(* A row that came in between makes the INSERT fail, and the exception     *)
(* ends the whole sync.                                                    *)
UpsertInsert_Replaces(t) ==
  /\ task[t].pc = "insert"
  /\ LET k == task[t].key IN
       stock' = With(k, 0) /\ Inserted(t)
  /\ UNCHANGED <<catalog, cloudVars, edit, changes, owed, upset>>
UpsertInsert(t) ==
  /\ task[t].pc = "insert"
  /\ LET k == task[t].key IN
       IF k \in DOMAIN stock
         THEN Done(t) /\ UNCHANGED stock
         ELSE stock' = With(k, 0) /\ Inserted(t)
  /\ UNCHANGED <<catalog, cloudVars, edit, changes, owed, upset>>

(* cleanup_vessel_stock_orphans works through the rows as it reads them    *)
(* here, once.                                                             *)
ReadOrphans(t) ==
  Place(t, [task[t] EXCEPT !.pc = "check", !.snap = stock, !.todo = DOMAIN stock])

Dropped(k) ==
  /\ stock' = Without(k)
  /\ upset' = IF Liters(k) > 0 THEN upset \cup {k[2]} ELSE upset

(* Rows that the cloud's answer does not list are deleted, one by one.     *)
DeleteUnlisted(t) ==
  /\ task[t].pc = "remove"
  /\ IF task[t].todo = {}
       THEN ReadOrphans(t) /\ UNCHANGED <<stock, upset>>
       ELSE \E k \in task[t].todo :
              /\ Place(t, [task[t] EXCEPT !.todo = @ \ {k}])
              /\ Dropped(k)
  /\ UNCHANGED <<catalog, cloudVars, edit, changes, owed>>

ListMissing(t) ==
  /\ task[t].pc = "orphans" /\ ReadOrphans(t)
  /\ UNCHANGED <<stock, catalog, cloudVars, edit, changes, owed, upset>>

(* Each row is a product's, or an orphan with litres for a product, whose  *)
(* row is then read; or it is dropped with what it holds.                  *)
CheckOrphan(t) ==
  /\ task[t].pc = "check"
  /\ IF task[t].todo = {}
       THEN Done(t) /\ UNCHANGED <<stock, upset>>
       ELSE \E k \in task[t].todo :
              IF k[1] = "code" /\ k[2] \in catalog /\ task[t].snap[k] > 0
                THEN /\ Place(t, [task[t] EXCEPT !.pc = "write", !.key = k, !.seen = Amount(Id(k[2]))])
                     /\ UNCHANGED <<stock, upset>>
                ELSE /\ Place(t, [task[t] EXCEPT !.todo = @ \ {k}])
                     /\ IF k[1] = "id" /\ k[2] \in catalog THEN UNCHANGED <<stock, upset>>
                                                           ELSE Dropped(k)
  /\ UNCHANGED <<catalog, cloudVars, edit, changes, owed>>

(* The litres are added to the product's row.  If that row has appeared    *)
(* meanwhile the exception ends the cleanup.                               *)
MergeWrite(t) ==
  /\ task[t].pc = "write"
  /\ LET p   == task[t].key[2]
         old == IF task[t].seen = Absent THEN 0 ELSE task[t].seen
     IN /\ stock' = Written(Id(p), task[t].seen, old + task[t].snap[Code(p)])
        /\ IF task[t].seen = Absent /\ Id(p) \in DOMAIN stock
             THEN Done(t) /\ UNCHANGED upset
             ELSE /\ Place(t, [task[t] EXCEPT !.pc = "merged"])
                  /\ upset' = IF Amount(Id(p)) = task[t].seen THEN upset ELSE upset \cup {p}
  /\ UNCHANGED <<catalog, cloudVars, edit, changes, owed>>

(* The orphan goes; what has changed since it was read is lost.            *)
Merged(t) == Place(t, [task[t] EXCEPT !.pc = "check", !.todo = @ \ {task[t].key},
                                      !.key = NoKey, !.seen = Absent])
DropMerged(t) ==
  /\ task[t].pc = "merged"
  /\ LET k == task[t].key IN
       /\ stock' = Without(k)
       /\ upset' = IF Amount(k) = task[t].snap[k] THEN upset ELSE upset \cup {k[2]}
       /\ Merged(t)
  /\ UNCHANGED <<catalog, cloudVars, edit, changes, owed>>

ConfigStep(t) == \/ UpsertSelect(t) \/ UpsertInsert(t) \/ DeleteUnlisted(t) \/ ListMissing(t)
                 \/ CheckOrphan(t) \/ MergeWrite(t) \/ DropMerged(t)

-----------------------------------------------------------------------------
(* The sync thread's heartbeat reports the rows, and the cloud lists what  *)
(* the edge has measured.                                                  *)
Heartbeat ==
  /\ task["sync"].pc = "idle"
  /\ cloudList' = cloudList \cup DOMAIN stock
  /\ UNCHANGED <<stock, catalog, cloudCatalog, edit, task, changes, owed, upset>>

(* The cloud's administrator adds a product, or takes one off the list.    *)
AdminAdds(p) ==
  /\ cloudCatalog' = cloudCatalog \cup {p} /\ cloudList' = cloudList \cup {Id(p)}
  /\ UNCHANGED <<stock, catalog, edit, task, changes, owed, upset>>

AdminDeletes(k) ==
  /\ AdminRemoves /\ k \in cloudList
  /\ cloudList' = cloudList \ {k}
  /\ UNCHANGED <<stock, catalog, cloudCatalog, edit, task, changes, owed, upset>>

(* The process dies.  A confirmed change that is not yet written is lost,  *)
(* and an orphan that was merged and not yet deleted is merged once more.  *)
Crash ==
  /\ changes < MaxChanges
  /\ changes' = changes + 1
  /\ upset' = upset \cup {task[t].key[2] : t \in {t \in Threads : task[t].pc = "merged"}}
  /\ edit' = EditResting /\ task' = [t \in Threads |-> Resting]
  /\ UNCHANGED <<stock, catalog, cloudVars, owed>>

Next ==
  \/ \E p \in Paints : AdminAdds(p) \/ Consume(p) \/ \E load \in BOOLEAN : ScanRead(p, load)
  \/ \E k \in Keys : AdminDeletes(k) \/ DeleteItem(k)
  \/ \E t \in Threads : Fetch(t) \/ ConfigStep(t)
  \/ ScanWrite \/ Heartbeat \/ Crash

Spec == Init /\ [][Next]_vars

(* The sync loop asks for the configuration again and again; a thread that *)
(* has begun a sync goes on.                                               *)
FairSpec == /\ Spec /\ WF_vars(Fetch("sync")) /\ WF_vars(ConfigStep("sync"))
            /\ WF_vars(ConfigStep("ws"))

-----------------------------------------------------------------------------
(* No litre is lost or counted twice, whatever is scanned, catalogued,     *)
(* listed, merged and synchronised in between, unless two threads change a *)
(* row at the same time, the process dies in a merge, or a row goes that   *)
(* the cloud does not list or that matches no product.                     *)
merging(p) == \E t \in Threads : task[t].pc = "merged" /\ task[t].key[2] = p
StockAddsUp == \A p \in Paints \ upset : merging(p) \/ Liters(Id(p)) + Liters(Code(p)) = owed[p]

(* A row under a mere code does not stay: it becomes its product's, or     *)
(* goes.                                                                   *)
CodesGo == \A p \in Paints : []<>(Code(p) \notin DOMAIN stock)

(* The list's comment says that rows go because an administrator deleted   *)
(* them: while nobody does, no row with litres goes for want of listing.   *)
OnlyAdminDeletes ==
  [][\A t \in Threads : DeleteUnlisted(t) => upset' = upset]_vars
=============================================================================
