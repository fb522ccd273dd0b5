-------------------------- MODULE VesselStock_proofs --------------------------
(***************************************************************************)
(* Theorems about VesselStock: its types, and that no litre is lost or     *)
(* counted twice.                                                          *)
(***************************************************************************)
EXTENDS VesselStock, TLAPS

Pcs == {"idle", "upsert", "insert", "remove", "orphans", "check", "write", "merged"}
Amounts == Nat \cup {Absent}

(* A table, with some of the keys.                                         *)
Tables == UNION {[D -> Nat] : D \in SUBSET Keys}
Tasks == [pc : Pcs, list : SUBSET Keys, todo : SUBSET Keys, snap : Tables,
          key : Keys \cup {NoKey}, seen : Amounts]
Edits == [pc : {"idle", "write"}, key : Keys \cup {NoKey}, load : BOOLEAN, seen : Amounts]

(* What a thread that inserts or merges holds: an orphan it has seen with  *)
(* litres, of a paint that is in the catalogue.                            *)
Fits(r, known) ==
  /\ r.pc = "insert" => r.key \in Keys
  /\ r.pc = "check" => r.todo \subseteq DOMAIN r.snap
  /\ r.pc \in {"write", "merged"} =>
       /\ r.todo \subseteq DOMAIN r.snap /\ r.key \in DOMAIN r.snap
       /\ r.key[1] = "code" /\ r.key[2] \in known /\ r.snap[r.key] > 0

Pending == IF edit.pc = "write" THEN 1 ELSE 0

Types ==
  /\ stock \in Tables
  /\ catalog \subseteq cloudCatalog /\ cloudCatalog \subseteq Paints
  /\ cloudList \subseteq Keys
  /\ task \in [Threads -> Tasks]
  /\ \A t \in Threads : Fits(task[t], catalog)
  /\ edit \in Edits /\ (edit.pc = "write" => edit.key \in Keys)
  /\ owed \in [Paints -> Nat] /\ changes \in 0 .. MaxChanges
  /\ \A p \in Paints : owed[p] + Pending <= changes
  /\ upset \subseteq Paints

(* What thread t has added to the row of p and not yet taken from the      *)
(* orphan.                                                                 *)
Merging(t, p) == task[t].pc = "merged" /\ task[t].key = Code(p)
Twice(t, p)   == IF Merging(t, p) THEN task[t].snap[Code(p)] ELSE 0

AddsUp(p) == Liters(Id(p)) + Liters(Code(p)) = owed[p] + Twice("sync", p) + Twice("ws", p)

(* The threads that merge p will find that the orphan has changed.         *)
Doomed(p) ==
  /\ p \in catalog /\ ~(edit.pc = "write" /\ edit.key = Code(p))
  /\ \/ \A t \in Threads : Merging(t, p)
     \/ \E t \in Threads : Merging(t, p) /\ Amount(Code(p)) # task[t].snap[Code(p)]

(* A change of an orphan that is to be written cannot take more than is    *)
(* owed.                                                                   *)
Covered(p) == edit.pc = "write" /\ edit.key = Code(p) => edit.seen <= owed[p]

Balanced == \A p \in Paints \ upset : (AddsUp(p) \/ Doomed(p)) /\ Covered(p)

IInv == Types /\ Balanced

-----------------------------------------------------------------------------
(* Keys and tables.                                                        *)
LEMMA KeyFacts ==
  ASSUME NEW p \in Paints
  PROVE  /\ Id(p) \in Keys /\ Code(p) \in Keys /\ Id(p) # Code(p)
         /\ Id(p)[1] = "id" /\ Code(p)[1] = "code" /\ Id(p)[2] = p /\ Code(p)[2] = p
BY DEF Id, Code, Keys

LEMMA KeyParts ==
  ASSUME NEW k \in Keys
  PROVE  /\ k[2] \in Paints /\ k # NoKey
         /\ k[1] = "id" => k = Id(k[2])
         /\ k[1] # "id" => k = Code(k[2]) /\ k[1] = "code"
BY DEF Id, Code, Keys, NoKey

LEMMA TableFacts ==
  ASSUME stock \in Tables
  PROVE  /\ DOMAIN stock \subseteq Keys
         /\ \A k : Amount(k) \in Amounts /\ Liters(k) \in Nat
         /\ \A k : Liters(k) = IF Amount(k) = Absent THEN 0 ELSE Amount(k)
         /\ \A k : k \in DOMAIN stock <=> Amount(k) # Absent
         /\ \A k \in DOMAIN stock : Amount(k) = stock[k]
<1>1. PICK D \in SUBSET Keys : stock \in [D -> Nat]
  BY DEF Tables
<1>2. QED
  BY <1>1 DEF Amount, Liters, Absent, Amounts

LEMMA WithFacts ==
  ASSUME stock \in Tables, NEW k \in Keys, NEW n \in Nat, stock' = With(k, n)
  PROVE  /\ stock' \in Tables /\ Amount(k)' = n
         /\ \A j : j # k => Amount(j)' = Amount(j)
<1>1. PICK D \in SUBSET Keys : stock \in [D -> Nat]
  BY DEF Tables
<1>2. With(k, n) = [j \in D \cup {k} |-> IF j = k THEN n ELSE stock[j]]
  BY <1>1 DEF With
<1>3. stock' \in [D \cup {k} -> Nat] /\ D \cup {k} \in SUBSET Keys
  BY <1>1, <1>2
<1>4. stock' \in Tables
  BY <1>3 DEF Tables
<1>5. QED
  BY <1>1, <1>2, <1>4 DEF Amount

LEMMA WithoutFacts ==
  ASSUME stock \in Tables, NEW k \in Keys, stock' = Without(k)
  PROVE  /\ stock' \in Tables /\ Amount(k)' = Absent
         /\ \A j : j # k => Amount(j)' = Amount(j)
<1>1. PICK D \in SUBSET Keys : stock \in [D -> Nat]
  BY DEF Tables
<1>2. Without(k) = [j \in D \ {k} |-> stock[j]]
  BY <1>1 DEF Without, Restrict
<1>3. stock' \in [D \ {k} -> Nat] /\ D \ {k} \in SUBSET Keys
  BY <1>1, <1>2
<1>4. stock' \in Tables
  BY <1>3 DEF Tables
<1>5. QED
  BY <1>1, <1>2, <1>4 DEF Amount

-----------------------------------------------------------------------------
(* A step keeps what is kept of p if it changes neither the litres nor the *)
(* merging of p, nor begins a change of the orphan of a catalogued paint.  *)
LEMMA Untouched ==
  ASSUME Types, Types', NEW p \in Paints, AddsUp(p) \/ Doomed(p),
         UNCHANGED <<Liters(Id(p)), Liters(Code(p)), owed[p]>>,
         \A t \in Threads : Merging(t, p)' = Merging(t, p),
         \A t \in Threads : Merging(t, p) => UNCHANGED task[t].snap[Code(p)],
         catalog \subseteq catalog',
         p \in catalog => (edit'.pc = "write" /\ edit'.key = Code(p)
                            => edit.pc = "write" /\ edit.key = Code(p))
  PROVE  (AddsUp(p) \/ Doomed(p))'
<1>1. CASE AddsUp(p)
  BY <1>1 DEF AddsUp, Twice, Threads
<1>2. CASE Doomed(p)
  <2>1. p \in catalog' /\ ~(edit'.pc = "write" /\ edit'.key = Code(p))
    BY <1>2 DEF Doomed
  <2>2. CASE \A t \in Threads : Merging(t, p)
    BY <2>1, <2>2 DEF Doomed
  <2>3. ASSUME NEW t \in Threads, Merging(t, p), Amount(Code(p)) # task[t].snap[Code(p)]
        PROVE  Doomed(p)'
    <3>1. task[t].snap[Code(p)] > 0 /\ task[t].snap[Code(p)] \in Nat
      BY <2>3 DEF Types, Fits, Merging, Tasks, Tables
    <3>2. /\ Liters(Code(p)) = IF Amount(Code(p)) = Absent THEN 0 ELSE Amount(Code(p))
          /\ Amount(Code(p)) \in Amounts
      BY TableFacts DEF Types
    <3>3. /\ Liters(Code(p))' = IF Amount(Code(p))' = Absent THEN 0 ELSE Amount(Code(p))'
          /\ Amount(Code(p))' \in Amounts
      BY DEF Types, Tables, Amount, Liters, Amounts, Absent
    <3>4. Amount(Code(p))' # task[t].snap[Code(p)]
      BY <2>3, <3>1, <3>2, <3>3 DEF Amounts, Absent
    <3>5. QED
      BY <2>1, <2>3, <3>4 DEF Doomed
  <2>4. QED
    BY <1>2, <2>2, <2>3 DEF Doomed
<1>3. QED
  BY <1>1, <1>2

(* A paint that no thread merges and whose orphan no thread will find      *)
(* changed adds up plainly.                                                *)
LEMMA PlainSum ==
  ASSUME Types, NEW p \in Paints, AddsUp(p) \/ Doomed(p),
         \A t \in Threads : ~Merging(t, p)
  PROVE  Liters(Id(p)) + Liters(Code(p)) = owed[p]
BY TableFacts DEF AddsUp, Twice, Doomed, Threads, Types

-----------------------------------------------------------------------------
(* Types.  A thread's new place fits, and those of the others still do     *)
(* when the catalogue grows.                                               *)
LEMMA PlacedFacts ==
  ASSUME Types, NEW t \in Threads, NEW new \in Tasks, Place(t, new),
         catalog \subseteq catalog', Fits(new, catalog')
  PROVE  /\ task' \in [Threads -> Tasks] /\ \A u \in Threads : Fits(task'[u], catalog')
         /\ task'[t] = new /\ \A u \in Threads \ {t} : task'[u] = task[u]
<1>1. /\ task' \in [Threads -> Tasks]
      /\ task'[t] = new /\ \A u \in Threads \ {t} : task'[u] = task[u]
  BY DEF Place, Types
<1>2. ASSUME NEW u \in Threads PROVE Fits(task'[u], catalog')
  <2>1. CASE u = t
    BY <1>1, <2>1
  <2>2. CASE u # t
    BY <1>1, <2>2 DEF Types, Fits
  <2>3. QED
    BY <2>1, <2>2
<1>3. QED
  BY <1>1, <1>2

LEMMA RestingFits == Resting \in Tasks /\ \A c : Fits(Resting, c)
<1>1. <<>> \in [{} -> Nat]
  OBVIOUS
<1>2. <<>> \in Tables
  BY <1>1 DEF Tables
<1>3. QED
  BY <1>2 DEF Resting, Tasks, Pcs, Fits, Amounts

LEMMA InitTypes == ASSUME StockAssumption PROVE Init => Types
<1>1. <<>> \in [{} -> Nat]
  OBVIOUS
<1>2. <<>> \in Tables
  BY <1>1 DEF Tables
<1>3. QED
  BY <1>2, RestingFits
     DEF Init, Types, EditResting, Edits, Amounts, Threads, StockAssumption, Pending

(* The steps of a thread change neither an edit nor what is owed.          *)
LEMMA ConfigTypes ==
  ASSUME Types, NEW t \in Threads, NEW new \in Tasks, Place(t, new), Fits(new, catalog),
         stock' \in Tables, upset' \subseteq Paints,
         UNCHANGED <<catalog, cloudVars, edit, changes, owed>>
  PROVE  Types'
BY PlacedFacts DEF Types, cloudVars, Pending

LEMMA TypesNext == ASSUME StockAssumption PROVE Types /\ [Next]_vars => Types'
<1> SUFFICES ASSUME Types, [Next]_vars PROVE Types'
  OBVIOUS
<1>m. MaxChanges \in Nat /\ changes \in 0 .. MaxChanges
  BY DEF StockAssumption, Types
<1>w. owed \in [Paints -> Nat] /\ \A q \in Paints : owed[q] + Pending <= changes
  BY DEF Types
<1>k. \A t \in Threads : task[t] \in Tasks /\ Fits(task[t], catalog)
  BY DEF Types
<1>s. stock \in Tables /\ upset \subseteq Paints
  BY DEF Types
<1>a. CASE UNCHANGED vars
  BY <1>a DEF Types, vars, cloudVars, Pending, Fits
<1>1. ASSUME NEW p \in Paints, AdminAdds(p) PROVE Types'
  BY <1>1, KeyFacts DEF AdminAdds, Types, Pending, Fits
<1>z. ASSUME NEW k \in Keys, NEW load \in BOOLEAN, ChangeRead(k, load) PROVE Types'
  <2>1. KeyOf(k) \in Keys /\ Amount(KeyOf(k)) \in Amounts
    BY <1>s, KeyFacts, KeyParts, TableFacts DEF KeyOf
  <2>2. edit' \in Edits /\ edit'.key \in Keys /\ edit'.pc = "write" /\ edit.pc = "idle"
    BY <1>z, <2>1 DEF ChangeRead, Edits
  <2>3. changes' \in 0 .. MaxChanges /\ \A q \in Paints : owed'[q] + 1 <= changes'
    BY <1>z, <1>m, <1>w DEF ChangeRead, Pending
  <2>4. QED
    BY <1>z, <2>2, <2>3 DEF ChangeRead, Types, cloudVars, Pending, Fits
<1>2. ASSUME NEW p \in Paints, NEW load \in BOOLEAN, ScanRead(p, load) PROVE Types'
  BY <1>2, <1>z, KeyFacts DEF ScanRead, Scanned
<1>c. ASSUME NEW p \in Paints, Consume(p) PROVE Types'
  BY <1>c, <1>z, KeyFacts DEF Consume
<1>3. ASSUME NEW k \in Keys, AdminDeletes(k) PROVE Types'
  BY <1>3 DEF AdminDeletes, Types, Pending, Fits
<1>4. ASSUME NEW k \in Keys, DeleteItem(k) PROVE Types'
  <2>0. stock' \in Tables
    BY <1>4, <1>s, WithoutFacts DEF DeleteItem
  <2>1. k[2] \in Paints
    BY KeyParts
  <2>2. stock[k] \in Nat
    BY <1>4, <1>s DEF DeleteItem, Tables
  <2>3. owed' \in [Paints -> Nat] /\ \A q \in Paints : owed'[q] <= owed[q] /\ owed[q] \in Nat
    BY <1>4, <2>1, <2>2 DEF DeleteItem, Types
  <2>4. changes' \in 0 .. MaxChanges /\ changes' = changes + 1
    BY <1>4, <1>m DEF DeleteItem
  <2>5. \A q \in Paints : owed'[q] + Pending' <= changes'
    BY <1>4, <1>w, <1>m, <2>3, <2>4 DEF DeleteItem, Pending
  <2>6. QED
    BY <1>4, <2>0, <2>3, <2>4, <2>5 DEF DeleteItem, Types, cloudVars, Fits
<1>5. CASE ScanWrite
  <2>9. edit.pc = "write" /\ edit.key \in Keys /\ edit.seen \in Amounts
    BY <1>5 DEF ScanWrite, Types, Edits
  <2>0. edit.pc = "write" /\ edit.key \in Keys /\ edit.key[2] \in Paints /\ edit.seen \in Amounts
    BY <2>9, KeyParts
  <2> DEFINE old == IF edit.seen = Absent THEN 0 ELSE edit.seen
  <2>1. old \in Nat /\ Changed(old, edit.load) \in Nat
    BY <2>0 DEF Changed, Amounts
  <2>2. stock' \in Tables
    BY <1>5, <1>s, <2>0, <2>1, WithFacts DEF ScanWrite, Written
  <2>3. /\ owed' \in [Paints -> Nat] /\ \A q \in Paints : owed'[q] <= owed[q] + 1
        /\ edit' = EditResting
    BY <1>5, <2>0 DEF ScanWrite, Types
  <2>4. \A q \in Paints : owed'[q] + Pending' <= changes'
    BY <1>5, <2>0, <2>3 DEF ScanWrite, Types, Pending, EditResting
  <2>5. edit' \in Edits /\ edit'.pc = "idle"
    BY <2>3 DEF EditResting, Edits, Amounts
  <2>6. upset' \subseteq Paints
    BY <1>5, <1>s, <2>0 DEF ScanWrite
  <2>7. QED
    BY <1>5, <2>2, <2>3, <2>4, <2>5, <2>6 DEF ScanWrite, Types, cloudVars, Fits
<1>6. CASE Heartbeat
  BY <1>6, <1>s, TableFacts DEF Heartbeat, Types, Pending, Fits
<1>7. CASE Crash
  <2>1. {task[t].key[2] : t \in {t \in Threads : task[t].pc = "merged"}} \subseteq Paints
    BY <1>k DEF Fits, Types
  <2>2. task' \in [Threads -> Tasks] /\ \A t \in Threads : Fits(task'[t], catalog)
    BY <1>7, RestingFits DEF Crash
  <2>3. edit' \in Edits /\ edit'.pc = "idle"
    BY <1>7 DEF Crash, EditResting, Edits, Amounts
  <2>4. changes' \in 0 .. MaxChanges /\ changes' = changes + 1
    BY <1>7, <1>m DEF Crash
  <2>5. \A q \in Paints : owed'[q] + Pending' <= changes'
    BY <1>7, <1>w, <1>m, <2>3, <2>4 DEF Crash, Pending
  <2>6. QED
    BY <1>7, <1>s, <2>1, <2>2, <2>3, <2>4, <2>5 DEF Crash, Types, cloudVars
<1>8. ASSUME NEW t \in Threads, Fetch(t) PROVE Types'
  <2>1. catalog' = cloudCatalog /\ catalog \subseteq catalog' /\ cloudList \subseteq Keys
    BY <1>8 DEF Fetch, Types
  <2>2. PICK new \in Tasks : Place(t, new) /\ Fits(new, catalog')
    <3>1. [task[t] EXCEPT !.pc = "upsert", !.list = cloudList, !.todo = cloudList] \in Tasks
      BY <1>k, <2>1 DEF Tasks, Pcs
    <3>2. [task[t] EXCEPT !.pc = "orphans"] \in Tasks
      BY <1>k DEF Tasks, Pcs
    <3>3. QED
      BY <1>8, <1>k, <3>1, <3>2 DEF Fetch, Fits, Tasks
  <2>3. changes' \in 0 .. MaxChanges /\ changes' >= changes
    BY <1>8, <1>m DEF Fetch
  <2>4. \A q \in Paints : owed'[q] + Pending' <= changes'
    BY <1>8, <1>w, <1>m, <2>3 DEF Fetch, Pending
  <2>5. task' \in [Threads -> Tasks] /\ \A u \in Threads : Fits(task'[u], catalog')
    BY <2>1, <2>2, PlacedFacts
  <2>6. QED
    BY <1>8, <2>1, <2>3, <2>4, <2>5 DEF Fetch, Types, cloudVars
<1>9. ASSUME NEW t \in Threads, UpsertSelect(t) PROVE Types'
  <2>1. PICK new \in Tasks : Place(t, new) /\ Fits(new, catalog)
    <3>1. DOMAIN stock \subseteq Keys /\ task[t].todo \subseteq Keys
      BY <1>s, <1>k, TableFacts DEF Tasks
    <3>2. [task[t] EXCEPT !.pc = "remove", !.list = {}, !.todo = DOMAIN stock \ task[t].list] \in Tasks
      BY <1>k, <3>1 DEF Tasks, Pcs
    <3>3. \A k : [task[t] EXCEPT !.todo = @ \ {k}] \in Tasks
      BY <1>k DEF Tasks
    <3>4. \A k \in Keys : [task[t] EXCEPT !.pc = "insert", !.key = k] \in Tasks
      BY <1>k DEF Tasks, Pcs
    <3>5. \A k : Fits([task[t] EXCEPT !.todo = @ \ {k}], catalog)
      BY <1>9, <1>k DEF UpsertSelect, Fits, Tasks
    <3>6. \A k \in Keys : Fits([task[t] EXCEPT !.pc = "insert", !.key = k], catalog)
      BY <1>k DEF Fits, Tasks
    <3>7. Fits([task[t] EXCEPT !.pc = "remove", !.list = {}, !.todo = DOMAIN stock \ task[t].list],
               catalog)
      BY <1>k DEF Fits, Tasks
    <3>8. QED
      BY <1>9, <3>1, <3>2, <3>3, <3>4, <3>5, <3>6, <3>7 DEF UpsertSelect
  <2>2. QED
    BY <1>9, <1>s, <2>1, ConfigTypes DEF UpsertSelect
<1>10. ASSUME NEW t \in Threads, UpsertInsert(t) PROVE Types'
  <2>0. task[t].key \in Keys
    BY <1>10, <1>k DEF UpsertInsert, Fits
  <2>1. PICK new \in Tasks : Place(t, new) /\ Fits(new, catalog)
    <3>1. [task[t] EXCEPT !.pc = "upsert", !.todo = @ \ {task[t].key}, !.key = NoKey] \in Tasks
      BY <1>k DEF Tasks, Pcs
    <3>2. QED
      BY <1>10, <1>k, <3>1, RestingFits DEF UpsertInsert, Inserted, Done, Place, Fits, Tasks
  <2>2. stock' \in Tables
    BY <1>10, <1>s, <2>0, WithFacts DEF UpsertInsert
  <2>3. QED
    BY <1>10, <1>s, <2>1, <2>2, ConfigTypes DEF UpsertInsert
<1>o. ASSUME NEW t \in Threads, ReadOrphans(t)
      PROVE  \E new \in Tasks : Place(t, new) /\ Fits(new, catalog)
  <2>1. DOMAIN stock \subseteq Keys
    BY <1>s, TableFacts
  <2>2. [task[t] EXCEPT !.pc = "check", !.snap = stock, !.todo = DOMAIN stock] \in Tasks
    BY <1>k, <1>s, <2>1 DEF Tasks, Pcs
  <2>3. QED
    BY <1>o, <1>k, <2>2 DEF ReadOrphans, Fits, Tasks
<1>d. ASSUME NEW k \in Keys, Dropped(k) PROVE stock' \in Tables /\ upset' \subseteq Paints
  <2>1. stock' \in Tables
    BY <1>d, <1>s, WithoutFacts DEF Dropped
  <2>2. k[2] \in Paints
    BY KeyParts
  <2>3. QED
    BY <1>d, <1>s, <2>1, <2>2 DEF Dropped
<1>11. ASSUME NEW t \in Threads, DeleteUnlisted(t) PROVE Types'
  <2>1. CASE task[t].todo = {}
    BY <1>11, <2>1, <1>o, <1>s, ConfigTypes DEF DeleteUnlisted
  <2>2. CASE task[t].todo # {}
    <3>1. PICK k \in task[t].todo : Place(t, [task[t] EXCEPT !.todo = @ \ {k}]) /\ Dropped(k)
      BY <1>11, <2>2 DEF DeleteUnlisted
    <3>2. [task[t] EXCEPT !.todo = @ \ {k}] \in Tasks /\ k \in Keys
      BY <1>k DEF Tasks
    <3>3. Fits([task[t] EXCEPT !.todo = @ \ {k}], catalog)
      BY <1>11, <1>k DEF DeleteUnlisted, Fits, Tasks
    <3>4. QED
      BY <1>11, <1>d, <3>1, <3>2, <3>3, ConfigTypes DEF DeleteUnlisted
  <2>3. QED
    BY <2>1, <2>2
<1>12. ASSUME NEW t \in Threads, ListMissing(t) PROVE Types'
  BY <1>12, <1>o, <1>s, ConfigTypes DEF ListMissing
<1>13. ASSUME NEW t \in Threads, CheckOrphan(t) PROVE Types'
  <2>1. CASE task[t].todo = {}
    BY <1>13, <2>1, <1>s, RestingFits, ConfigTypes DEF CheckOrphan, Done, Place
  <2>2. CASE task[t].todo # {}
    <3>0. task[t].todo \subseteq DOMAIN task[t].snap /\ task[t].todo \subseteq Keys
      BY <1>13, <1>k DEF CheckOrphan, Fits, Tasks
    <3>1. PICK k \in task[t].todo :
            IF k[1] = "code" /\ k[2] \in catalog /\ task[t].snap[k] > 0
              THEN /\ Place(t, [task[t] EXCEPT !.pc = "write", !.key = k, !.seen = Amount(Id(k[2]))])
                   /\ UNCHANGED <<stock, upset>>
              ELSE /\ Place(t, [task[t] EXCEPT !.todo = @ \ {k}])
                   /\ IF k[1] = "id" /\ k[2] \in catalog THEN UNCHANGED <<stock, upset>>
                                                         ELSE Dropped(k)
      BY <1>13, <2>2 DEF CheckOrphan
    <3>2. [task[t] EXCEPT !.todo = @ \ {k}] \in Tasks /\ k \in Keys
      BY <1>k DEF Tasks
    <3>3. Fits([task[t] EXCEPT !.todo = @ \ {k}], catalog)
      BY <1>13, <1>k DEF CheckOrphan, Fits, Tasks
    <3>4. [task[t] EXCEPT !.pc = "write", !.key = k, !.seen = Amount(Id(k[2]))] \in Tasks
      BY <1>k, <1>s, <3>2, TableFacts DEF Tasks, Pcs
    <3>5. k[1] = "code" /\ k[2] \in catalog /\ task[t].snap[k] > 0
          => Fits([task[t] EXCEPT !.pc = "write", !.key = k, !.seen = Amount(Id(k[2]))], catalog)
      BY <1>k, <3>0 DEF Fits, Tasks
    <3>6. stock' \in Tables /\ upset' \subseteq Paints
      BY <1>s, <1>d, <3>1, <3>2
    <3>7. QED
      BY <1>13, <3>1, <3>2, <3>3, <3>4, <3>5, <3>6, ConfigTypes DEF CheckOrphan
  <2>3. QED
    BY <2>1, <2>2
<1>14. ASSUME NEW t \in Threads, MergeWrite(t) PROVE Types'
  <2> DEFINE q == task[t].key[2]
             old == IF task[t].seen = Absent THEN 0 ELSE task[t].seen
  <2>1. /\ task[t].key \in Keys /\ q \in Paints /\ Id(q) \in Keys /\ task[t].key = Code(q)
        /\ task[t].snap[Code(q)] \in Nat /\ old \in Nat
    <3>1. task[t].key \in DOMAIN task[t].snap /\ task[t].key[1] = "code" /\ task[t].snap \in Tables
      BY <1>14, <1>k DEF MergeWrite, Fits, Tasks
    <3>2. task[t].key \in Keys /\ task[t].snap[task[t].key] \in Nat
      BY <3>1 DEF Tables
    <3>3. old \in Nat
      BY <1>k DEF Tasks, Amounts, Absent
    <3>4. QED
      BY <3>1, <3>2, <3>3, KeyParts, KeyFacts
  <2>2. stock' \in Tables
    BY <1>14, <1>s, <2>1, WithFacts DEF MergeWrite, Written
  <2>3. [task[t] EXCEPT !.pc = "merged"] \in Tasks /\ Fits([task[t] EXCEPT !.pc = "merged"], catalog)
    BY <1>14, <1>k DEF MergeWrite, Tasks, Pcs, Fits
  <2>4. PICK new \in Tasks : Place(t, new) /\ Fits(new, catalog)
    BY <1>14, <2>3, RestingFits DEF MergeWrite, Done, Place
  <2>5. upset' \subseteq Paints
    BY <1>14, <1>s, <2>1 DEF MergeWrite
  <2>6. QED
    BY <1>14, <2>2, <2>4, <2>5, ConfigTypes DEF MergeWrite
<1>15. ASSUME NEW t \in Threads, DropMerged(t) PROVE Types'
  <2>1. task[t].key \in DOMAIN task[t].snap /\ task[t].snap \in Tables
    BY <1>15, <1>k DEF DropMerged, Fits, Tasks
  <2>9. task[t].key \in Keys
    BY <2>1 DEF Tables
  <2>2. task[t].key \in Keys /\ task[t].key[2] \in Paints
    BY <2>9, KeyParts
  <2>3. stock' \in Tables /\ upset' \subseteq Paints
    BY <1>15, <1>s, <2>2, WithoutFacts DEF DropMerged
  <2> DEFINE new == [task[t] EXCEPT !.pc = "check", !.todo = @ \ {task[t].key},
                                    !.key = NoKey, !.seen = Absent]
  <2>4. new \in Tasks
    BY <1>k DEF Tasks, Pcs, Amounts
  <2>5. Fits(new, catalog)
    BY <1>15, <1>k DEF DropMerged, Fits, Tasks
  <2>6. Place(t, new)
    BY <1>15 DEF DropMerged, Merged
  <2>7. QED
    BY <1>15, <2>3, <2>4, <2>5, <2>6, ConfigTypes DEF DropMerged
<1>16. QED
  BY <1>a, <1>c, <1>1, <1>2, <1>3, <1>4, <1>5, <1>6, <1>7, <1>8, <1>9, <1>10, <1>11, <1>12, <1>13,
     <1>14, <1>15
     DEF Next, ConfigStep

-----------------------------------------------------------------------------
(* Sums.                                                                   *)
LEMMA NextTableFacts ==
  ASSUME stock' \in Tables
  PROVE  \A k : /\ Amount(k)' \in Amounts
               /\ Liters(k)' = IF Amount(k)' = Absent THEN 0 ELSE Amount(k)'
BY DEF Tables, Amount, Liters, Amounts, Absent

(* What a thread that merges p has seen of the orphan.                     *)
LEMMA MergingFacts ==
  ASSUME Types, NEW t \in Threads, NEW p \in Paints, Merging(t, p)
  PROVE  /\ p \in catalog /\ task[t].snap[Code(p)] \in Nat /\ task[t].snap[Code(p)] > 0
         /\ Code(p) \in DOMAIN task[t].snap
<1>1. task[t] \in Tasks /\ Fits(task[t], catalog)
  BY DEF Types
<1>2. task[t].pc = "merged" /\ task[t].key = Code(p) /\ Code(p)[2] = p
  BY KeyFacts DEF Merging
<1>3. task[t].snap \in Tables
  BY <1>1 DEF Tasks
<1>4. QED
  BY <1>1, <1>2, <1>3 DEF Fits, Tables

(* While no change of its orphan is pending, the row of a paint that adds  *)
(* up has what is owed, together with the orphan if nobody merges it.      *)
LEMMA RowIsOwed ==
  ASSUME Types, NEW p \in Paints, AddsUp(p), ~Doomed(p),
         ~(edit.pc = "write" /\ edit.key = Code(p))
  PROVE  /\ (\A t \in Threads : ~Merging(t, p))
              => Liters(Id(p)) + Liters(Code(p)) = owed[p]
         /\ (\E t \in Threads : Merging(t, p)) => Liters(Id(p)) = owed[p]
<1>1. ASSUME \A t \in Threads : ~Merging(t, p)
      PROVE  Liters(Id(p)) + Liters(Code(p)) = owed[p]
  BY <1>1, PlainSum
<1>2. ASSUME NEW t \in Threads, Merging(t, p) PROVE Liters(Id(p)) = owed[p]
  <2>1. /\ p \in catalog /\ task[t].snap[Code(p)] \in Nat /\ task[t].snap[Code(p)] > 0
    BY <1>2, MergingFacts
  <2>2. \A u \in Threads \ {t} : ~Merging(u, p)
    BY <1>2, <2>1 DEF Doomed, Threads
  <2>3. Amount(Code(p)) = task[t].snap[Code(p)]
    BY <1>2, <2>1 DEF Doomed
  <2>4. /\ Liters(Code(p)) = task[t].snap[Code(p)] /\ Liters(Id(p)) \in Nat
        /\ owed[p] \in Nat
    BY <2>1, <2>3, TableFacts DEF Types, Absent
  <2>5. Twice("sync", p) + Twice("ws", p) = task[t].snap[Code(p)]
    BY <1>2, <2>1, <2>2 DEF Twice, Threads
  <2>6. Twice("sync", p) \in Nat /\ Twice("ws", p) \in Nat
    BY <1>2, <2>1, <2>2 DEF Twice, Threads
  <2>7. QED
    BY <2>1, <2>4, <2>5, <2>6 DEF AddsUp
<1>3. QED
  BY <1>1, <1>2

(* A thread's step that neither begins nor ends a merge, nor changes       *)
(* litres.                                                                 *)
LEMMA ThreadKeeps ==
  ASSUME Types, Types', NEW t \in Threads, NEW new \in Tasks, Place(t, new),
         task[t].pc # "merged", NEW p \in Paints, AddsUp(p) \/ Doomed(p), Covered(p),
         new.pc # "merged" \/ new.key # Code(p),
         UNCHANGED <<edit, owed, Liters(Id(p)), Liters(Code(p))>>, catalog \subseteq catalog'
  PROVE  (AddsUp(p) \/ Doomed(p))' /\ Covered(p)'
<1>1. task'[t] = new /\ \A u \in Threads \ {t} : task'[u] = task[u]
  BY DEF Place, Types
<1>2. \A u \in Threads : Merging(u, p)' = Merging(u, p)
  BY <1>1 DEF Merging
<1>3. \A u \in Threads : Merging(u, p) => UNCHANGED task[u].snap[Code(p)]
  BY <1>1 DEF Merging
<1>4. (AddsUp(p) \/ Doomed(p))'
  BY <1>2, <1>3, Untouched
<1>5. Covered(p)'
  BY DEF Covered
<1>6. QED
  BY <1>4, <1>5

LEMMA DroppedKeeps ==
  ASSUME stock \in Tables, NEW k \in Keys, Dropped(k), NEW p \in Paints \ upset'
  PROVE  p \notin upset /\ UNCHANGED <<Liters(Id(p)), Liters(Code(p))>>
<1>1. /\ stock' \in Tables /\ Amount(k)' = Absent
      /\ \A j : j # k => Amount(j)' = Amount(j)
  BY WithoutFacts DEF Dropped
<1>2. p \notin upset /\ (k[2] = p => Liters(k) = 0)
  BY TableFacts DEF Dropped
<1>3. k \notin {Id(p), Code(p)} \/ Liters(k) = 0
  BY <1>2, KeyFacts
<1>4. \A j : j # k => Liters(j)' = Liters(j)
  BY <1>1, TableFacts, NextTableFacts
<1>5. Liters(k)' = 0
  BY <1>1, NextTableFacts
<1>6. QED
  BY <1>2, <1>3, <1>4, <1>5

-----------------------------------------------------------------------------
(* The same, for each action.                                              *)
LEMMA ChangeReadKeeps ==
  ASSUME Types, Types', Balanced, NEW k \in Keys, NEW load \in BOOLEAN, ChangeRead(k, load),
         NEW p \in Paints \ upset'
  PROVE  (AddsUp(p) \/ Doomed(p))' /\ Covered(p)'
<1>1. p \notin upset /\ p \in Paints /\ (AddsUp(p) \/ Doomed(p)) /\ owed[p] \in Nat
  BY DEF ChangeRead, Balanced, Types
<1>2. UNCHANGED <<stock, task, owed, catalog>>
  BY DEF ChangeRead
<1>3. UNCHANGED <<Liters(Id(p)), Liters(Code(p)), owed[p]>>
  BY <1>2 DEF Liters
<1>4. edit'.key = KeyOf(k) /\ edit'.seen = Amount(KeyOf(k))
  BY DEF ChangeRead
<1>5. edit'.key = Code(p) => p \notin catalog
  BY <1>4, KeyFacts, KeyParts DEF KeyOf
<1>6. \A t \in Threads : Merging(t, p)' = Merging(t, p)
  BY <1>2 DEF Merging
<1>7. (AddsUp(p) \/ Doomed(p))'
  BY <1>1, <1>2, <1>3, <1>5, <1>6, Untouched
<1>8. ASSUME edit'.key = Code(p) PROVE edit'.seen <= owed'[p]
  <2>1. \A t \in Threads : ~Merging(t, p)
    BY <1>5, <1>8, MergingFacts
  <2>2. Liters(Id(p)) + Liters(Code(p)) = owed[p]
    BY <1>1, <2>1, PlainSum
  <2>3. /\ Liters(Id(p)) \in Nat /\ Liters(Code(p)) \in Nat /\ Amount(Code(p)) \in Amounts
        /\ Liters(Code(p)) = IF Amount(Code(p)) = Absent THEN 0 ELSE Amount(Code(p))
    BY TableFacts DEF Types
  <2>4. Amount(Code(p)) <= owed[p]
    BY <1>1, <2>2, <2>3 DEF Amounts, Absent
  <2>5. QED
    BY <1>2, <1>4, <1>8, <2>4
<1>9. QED
  BY <1>7, <1>8 DEF Covered

LEMMA ScanWriteKeeps ==
  ASSUME Types, Types', Balanced, ScanWrite,
         NEW p \in Paints \ upset'
  PROVE  (AddsUp(p) \/ Doomed(p))' /\ Covered(p)'
<1>0. edit.key \in Keys /\ edit.pc = "write" /\ edit.seen \in Amounts /\ edit.load \in BOOLEAN
  BY DEF ScanWrite, Types, Edits
<1>k. PICK k \in Keys : k = edit.key
  BY <1>0
<1>q. PICK q \in Paints : q = k[2]
  BY KeyParts
<1> DEFINE old == IF edit.seen = Absent THEN 0 ELSE edit.seen
           new == Changed(old, edit.load)
<1>1. k = edit.key /\ edit.pc = "write" /\ edit.seen \in Amounts /\ edit.load \in BOOLEAN
  BY <1>0, <1>k
<1>2. q \in Paints /\ (k = Id(q) \/ k = Code(q))
  BY <1>q, KeyParts
<1>3. old \in Nat /\ new \in Nat
  BY <1>1 DEF Changed, Amounts
<1>4. /\ stock' = Written(k, edit.seen, new) /\ edit' = EditResting
      /\ owed' = [owed EXCEPT ![q] = IF edit.load THEN @ + 1
                                     ELSE IF old = 0 \/ @ = 0 THEN @ ELSE @ - 1]
      /\ upset' = (IF Amount(k) = edit.seen THEN upset ELSE upset \cup {q})
      /\ UNCHANGED <<task, catalog>>
  BY <1>k, <1>q DEF ScanWrite
<1> HIDE DEF old, new
<1>5. p \notin upset /\ p \in Paints /\ (AddsUp(p) \/ Doomed(p)) /\ Covered(p)
  BY <1>4 DEF Balanced
<1>6. edit'.pc = "idle"
  BY <1>4 DEF EditResting
<1>7. \A t \in Threads : Merging(t, p)' = Merging(t, p) /\ Twice(t, p)' = Twice(t, p)
  BY <1>4 DEF Merging, Twice
<1>8. stock \in Tables /\ owed \in [Paints -> Nat]
  BY DEF Types
<1>9. stock' = stock \/ stock' = With(k, new)
  BY <1>4 DEF Written
<1>10. \A j : j # k => Amount(j)' = Amount(j)
  BY <1>1, <1>3, <1>8, <1>9, WithFacts DEF Amount
<1>11. \A j : j # k => Liters(j)' = Liters(j)
  BY <1>8, <1>10, TableFacts, NextTableFacts DEF Types
<1>12. CASE q # p
  <2>1. k # Id(p) /\ k # Code(p)
    BY <1>2, <1>5, <1>12, KeyFacts
  <2>2. UNCHANGED <<Liters(Id(p)), Liters(Code(p)), owed[p]>>
    BY <1>2, <1>4, <1>8, <1>11, <1>12, <2>1
  <2>3. (AddsUp(p) \/ Doomed(p))'
    BY <1>4, <1>5, <1>6, <1>7, <2>2, Untouched
  <2>4. QED
    BY <1>6, <2>3 DEF Covered
<1>13. CASE q = p
  <2>1. Amount(k) = edit.seen
    BY <1>4, <1>13
  <2>2. k \in DOMAIN stock <=> edit.seen # Absent
    BY <1>8, <2>1, TableFacts
  <2>3. stock' = With(k, new)
    BY <1>4, <2>2 DEF Written
  <2>4. Amount(k)' = new
    BY <1>1, <1>3, <1>8, <2>3, WithFacts
  <2>5. Liters(k)' = new /\ Liters(k) = old
    BY <1>3, <1>8, <2>1, <2>4, TableFacts, NextTableFacts DEF Types, old, Absent
  <2>6. /\ Liters(Id(p)) \in Nat /\ Liters(Code(p)) \in Nat /\ owed[p] \in Nat
    BY <1>5, <1>8, TableFacts
  <2>7. owed'[p] = IF edit.load THEN owed[p] + 1
                   ELSE IF old = 0 \/ owed[p] = 0 THEN owed[p] ELSE owed[p] - 1
    BY <1>4, <1>5, <1>8, <1>13
  <2>t. Twice("sync", p)' = Twice("sync", p) /\ Twice("ws", p)' = Twice("ws", p)
    BY <1>7 DEF Threads
  <2>u. Twice("sync", p) \in Nat /\ Twice("ws", p) \in Nat
    BY <1>5, MergingFacts DEF Twice, Threads
  <2>8. CASE k = Code(p)
    <3>1. AddsUp(p)
      BY <1>1, <1>5, <2>8 DEF Doomed
    <3>2. old <= owed[p]
      BY <1>1, <1>5, <2>6, <2>8 DEF Covered, old
    <3>3. Liters(Id(p))' = Liters(Id(p)) /\ Liters(Code(p))' = new
      BY <1>5, <1>11, <2>5, <2>8, KeyFacts
    <3>4. new - old = owed'[p] - owed[p]
      BY <1>3, <2>6, <2>7, <3>2 DEF new, Changed
    <3>5. AddsUp(p)'
      BY <1>3, <2>5, <2>6, <2>8, <2>t, <2>u, <2>7, <3>1, <3>3, <3>4 DEF AddsUp
    <3>6. QED
      BY <1>6, <3>5 DEF Covered
  <2>9. CASE k = Id(p)
    <3>1. Amount(Code(p))' = Amount(Code(p)) /\ Liters(Code(p))' = Liters(Code(p))
      BY <1>5, <1>10, <1>11, <2>9, KeyFacts
    <3>2. CASE Doomed(p)
      <4>1. Doomed(p)'
        BY <1>4, <1>6, <1>7, <3>1, <3>2 DEF Doomed
      <4>2. QED
        BY <1>6, <4>1 DEF Covered
    <3>3. CASE ~Doomed(p)
      <4>1. AddsUp(p) /\ edit.key # Code(p)
        BY <1>1, <1>5, <2>9, <3>3, KeyFacts
      <4>2. Liters(Id(p)) <= owed[p]
        BY <1>5, <2>6, <3>3, <4>1, RowIsOwed
      <4>3. new - old = owed'[p] - owed[p]
        BY <1>3, <2>5, <2>6, <2>7, <2>9, <4>2 DEF new, Changed
      <4>4. AddsUp(p)'
        BY <1>3, <2>5, <2>6, <2>7, <2>9, <2>t, <2>u, <3>1, <4>1, <4>3 DEF AddsUp
      <4>5. QED
        BY <1>6, <4>4 DEF Covered
    <3>4. QED
      BY <3>2, <3>3
  <2>10. QED
    BY <1>2, <1>13, <2>8, <2>9
<1>14. QED
  BY <1>12, <1>13

LEMMA DeleteItemKeeps ==
  ASSUME Types, Types', Balanced, NEW k \in Keys, DeleteItem(k),
         NEW p \in Paints \ upset'
  PROVE  (AddsUp(p) \/ Doomed(p))' /\ Covered(p)'
<1> DEFINE q == k[2]
<1>1. /\ stock' = Without(k) /\ k \in DOMAIN stock
      /\ owed' = [owed EXCEPT ![q] = IF @ < stock[k] THEN 0 ELSE @ - stock[k]]
      /\ edit.pc = "idle" /\ UNCHANGED <<task, catalog, edit, upset>>
  BY DEF DeleteItem
<1>2. q \in Paints /\ (k = Id(q) \/ k = Code(q))
  BY KeyParts
<1> HIDE DEF q
<1>3. p \notin upset /\ p \in Paints /\ (AddsUp(p) \/ Doomed(p))
  BY <1>1 DEF Balanced
<1>4. \A t \in Threads : Merging(t, p)' = Merging(t, p) /\ Twice(t, p)' = Twice(t, p)
  BY <1>1 DEF Merging, Twice
<1>5. stock \in Tables /\ owed \in [Paints -> Nat] /\ stock' \in Tables
  BY DEF Types
<1>6. Amount(k)' = Absent /\ \A j : j # k => Amount(j)' = Amount(j)
  BY <1>1, <1>5, WithoutFacts
<1>7. Liters(k)' = 0 /\ \A j : j # k => Liters(j)' = Liters(j)
  BY <1>5, <1>6, TableFacts, NextTableFacts
<1>8. Covered(p)'
  BY <1>1 DEF Covered
<1>9. CASE q # p
  <2>1. k # Id(p) /\ k # Code(p)
    BY <1>2, <1>3, <1>9, KeyFacts
  <2>2. UNCHANGED <<Liters(Id(p)), Liters(Code(p)), owed[p]>>
    BY <1>1, <1>2, <1>3, <1>5, <1>7, <1>9, <2>1
  <2>3. (AddsUp(p) \/ Doomed(p))'
    BY <1>1, <1>3, <1>4, <2>2, Untouched
  <2>4. QED
    BY <1>8, <2>3
<1>10. CASE q = p
  <2>1. Liters(k) = stock[k] /\ Liters(k) \in Nat
    BY <1>1, <1>5, TableFacts DEF Liters
  <2>2. /\ Liters(Id(p)) \in Nat /\ Liters(Code(p)) \in Nat /\ owed[p] \in Nat
    BY <1>3, <1>5, TableFacts
  <2>3. owed'[p] = IF owed[p] < Liters(k) THEN 0 ELSE owed[p] - Liters(k)
    BY <1>1, <1>3, <1>5, <1>10, <2>1
  <2>t. Twice("sync", p)' = Twice("sync", p) /\ Twice("ws", p)' = Twice("ws", p)
    BY <1>4 DEF Threads
  <2>u. Twice("sync", p) \in Nat /\ Twice("ws", p) \in Nat
    BY <1>3, MergingFacts DEF Twice, Threads
  <2>4. ASSUME k = Id(p) PROVE (AddsUp(p) \/ Doomed(p))'
    <3>1. Amount(Code(p))' = Amount(Code(p)) /\ Liters(Code(p))' = Liters(Code(p))
      BY <1>3, <1>6, <1>7, <2>4, KeyFacts
    <3>2. CASE Doomed(p)
      BY <1>1, <1>4, <3>1, <3>2 DEF Doomed
    <3>3. CASE ~Doomed(p)
      <4>1. AddsUp(p)
        BY <1>3, <3>3
      <4>2. Liters(Id(p)) <= owed[p]
        BY <1>1, <1>3, <2>2, <3>3, <4>1, RowIsOwed
      <4>3. QED
        BY <1>7, <2>2, <2>3, <2>4, <2>t, <2>u, <3>1, <4>1, <4>2 DEF AddsUp
    <3>4. QED
      BY <3>2, <3>3
  <2>5. ASSUME k = Code(p) PROVE (AddsUp(p) \/ Doomed(p))'
    <3>1. ASSUME NEW t \in Threads, Merging(t, p) PROVE Doomed(p)'
      <4>1. p \in catalog /\ task[t].snap[Code(p)] \in Nat
        BY <1>3, <3>1, MergingFacts
      <4>2. Amount(Code(p))' # task'[t].snap[Code(p)]
        BY <1>1, <1>6, <2>5, <4>1 DEF Absent
      <4>3. QED
        BY <1>1, <1>4, <3>1, <4>1, <4>2 DEF Doomed
    <3>2. ASSUME \A t \in Threads : ~Merging(t, p) PROVE AddsUp(p)'
      <4>1. Liters(Id(p)) + Liters(Code(p)) = owed[p]
        BY <1>3, <3>2, PlainSum
      <4>2. Liters(Id(p))' = Liters(Id(p)) /\ Liters(Code(p))' = 0
        BY <1>3, <1>7, <2>5, KeyFacts
      <4>3. Twice("sync", p)' = 0 /\ Twice("ws", p)' = 0
        BY <1>4, <3>2 DEF Twice, Threads
      <4>4. QED
        BY <2>2, <2>3, <2>5, <4>1, <4>2, <4>3 DEF AddsUp
    <3>3. QED
      BY <3>1, <3>2
  <2>6. QED
    BY <1>2, <1>8, <1>10, <2>4, <2>5
<1>11. QED
  BY <1>9, <1>10

LEMMA MergeWriteKeeps ==
  ASSUME Types, Types', Balanced, NEW t \in Threads, MergeWrite(t),
         NEW p \in Paints \ upset'
  PROVE  (AddsUp(p) \/ Doomed(p))' /\ Covered(p)'
<1> DEFINE q == task[t].key[2]
           seen == task[t].seen
           snap == task[t].snap[Code(q)]
           old == IF seen = Absent THEN 0 ELSE seen
           new == [task[t] EXCEPT !.pc = "merged"]
<1>1. /\ task[t].pc = "write" /\ UNCHANGED <<edit, owed, catalog>>
      /\ stock' = Written(Id(q), seen, old + snap)
      /\ IF seen = Absent /\ Id(q) \in DOMAIN stock
           THEN Done(t) /\ UNCHANGED upset
           ELSE /\ Place(t, new)
                /\ upset' = IF Amount(Id(q)) = seen THEN upset ELSE upset \cup {q}
  BY DEF MergeWrite
<1>2. task[t] \in Tasks /\ Fits(task[t], catalog) /\ stock \in Tables
  BY DEF Types
<1>3. /\ task[t].key \in Keys /\ q \in Paints /\ task[t].key = Code(q)
      /\ snap \in Nat /\ snap > 0 /\ old \in Nat /\ seen \in Amounts
  <2>1. /\ task[t].key \in DOMAIN task[t].snap /\ task[t].key[1] = "code"
        /\ task[t].snap \in Tables /\ task[t].snap[task[t].key] > 0 /\ seen \in Amounts
    BY <1>1, <1>2 DEF Fits, Tasks
  <2>2. task[t].key \in Keys /\ task[t].snap[task[t].key] \in Nat
    BY <2>1 DEF Tables
  <2>3. old \in Nat
    BY <2>1 DEF Amounts, Absent
  <2>4. QED
    BY <2>1, <2>2, <2>3, KeyParts, KeyFacts
<1>4. new \in Tasks /\ new.key = Code(q) /\ new.snap = task[t].snap /\ new.pc = "merged"
  BY <1>2, <1>3 DEF Tasks, Pcs
<1> HIDE DEF q, seen, snap, old, new
<1>5. p \notin upset /\ p \in Paints /\ (AddsUp(p) \/ Doomed(p)) /\ Covered(p)
  BY <1>1 DEF Balanced
<1>6. CASE seen = Absent /\ Id(q) \in DOMAIN stock
  <2>1. stock' = stock /\ Place(t, Resting)
    BY <1>1, <1>6 DEF Written, Done, Place
  <2>2. UNCHANGED <<Liters(Id(p)), Liters(Code(p))>>
    BY <2>1 DEF Liters
  <2>3. Resting \in Tasks /\ Resting.pc # "merged"
    BY RestingFits DEF Resting
  <2>4. QED
    BY <1>1, <1>5, <2>1, <2>2, <2>3, ThreadKeeps
<1>7. CASE ~(seen = Absent /\ Id(q) \in DOMAIN stock)
  <2>1. /\ Place(t, new)
        /\ upset' = IF Amount(Id(q)) = seen THEN upset ELSE upset \cup {q}
    BY <1>1, <1>7
  <2>2. /\ Id(q) \in Keys /\ old + snap \in Nat
    BY <1>3, KeyFacts
  <2>3. stock' = stock \/ stock' = With(Id(q), old + snap)
    BY <1>1 DEF Written
  <2>4. \A j : j # Id(q) => Amount(j)' = Amount(j)
    BY <1>2, <2>2, <2>3, WithFacts DEF Amount
  <2>5. \A j : j # Id(q) => Liters(j)' = Liters(j)
    BY <1>2, <2>4, TableFacts, NextTableFacts DEF Types
  <2>6. CASE q # p
    <3>1. Id(q) # Id(p) /\ Id(q) # Code(p) /\ Code(q) # Code(p)
      BY <1>3, <1>5, <2>6, KeyFacts
    <3>2. UNCHANGED <<Liters(Id(p)), Liters(Code(p))>>
      BY <2>5, <3>1
    <3>3. QED
      BY <1>1, <1>4, <1>5, <2>1, <3>1, <3>2, ThreadKeeps
  <2>7. CASE q = p
    <3>1. Amount(Id(p)) = seen
      BY <2>1, <2>7
    <3>2. Id(p) \in DOMAIN stock <=> seen # Absent
      BY <1>2, <3>1, TableFacts
    <3>3. stock' = With(Id(p), old + snap)
      BY <1>1, <2>7, <3>2 DEF Written
    <3>4. Amount(Id(p))' = old + snap
      BY <1>2, <2>2, <2>7, <3>3, WithFacts
    <3>5. Liters(Id(p)) = old /\ Liters(Id(p))' = old + snap
      BY <1>2, <1>3, <2>2, <3>1, <3>4, TableFacts, NextTableFacts DEF Types, old, Absent
    <3>6. Amount(Code(p))' = Amount(Code(p)) /\ Liters(Code(p))' = Liters(Code(p))
      BY <1>5, <2>4, <2>5, <2>7, KeyFacts
    <3>7. task'[t] = new /\ \A u \in Threads \ {t} : task'[u] = task[u]
      BY <2>1 DEF Place, Types
    <3>8. /\ Merging(t, p)' /\ ~Merging(t, p)
          /\ \A u \in Threads \ {t} : Merging(u, p)' = Merging(u, p) /\ Twice(u, p)' = Twice(u, p)
      BY <1>1, <1>4, <2>7, <3>7 DEF Merging, Twice
    <3>9. Covered(p)'
      BY <1>1, <1>5 DEF Covered
    <3>10. ASSUME Doomed(p) PROVE Doomed(p)'
      <4>1. p \in catalog' /\ ~(edit'.pc = "write" /\ edit'.key = Code(p))
        BY <1>1, <3>10 DEF Doomed
      <4>2. PICK u \in Threads : Merging(u, p) /\ Amount(Code(p)) # task[u].snap[Code(p)]
        BY <3>8, <3>10 DEF Doomed
      <4>3. Merging(u, p)' /\ Amount(Code(p))' # task'[u].snap[Code(p)]
        BY <3>6, <3>7, <3>8, <4>2
      <4>4. QED
        BY <4>1, <4>3 DEF Doomed
    <3>11. ASSUME AddsUp(p) PROVE AddsUp(p)'
      <4>1. Twice(t, p) = 0 /\ Twice(t, p)' = snap
        BY <1>4, <2>7, <3>7, <3>8 DEF Twice, snap
      <4>2. PICK u \in Threads \ {t} : Threads = {t, u}
        BY DEF Threads
      <4>3. Twice(u, p)' = Twice(u, p) /\ Twice(u, p) \in Nat
        BY <1>5, <3>8, MergingFacts DEF Twice
      <4>4. /\ Liters(Id(p)) \in Nat /\ Liters(Code(p)) \in Nat /\ owed[p] \in Nat
            /\ owed'[p] = owed[p]
        BY <1>1, <1>2, <1>5, TableFacts DEF Types
      <4>5. Twice("sync", p) + Twice("ws", p) = Twice(t, p) + Twice(u, p)
        BY <4>1, <4>2, <4>3 DEF Threads
      <4>6. Twice("sync", p)' + Twice("ws", p)' = Twice(t, p)' + Twice(u, p)'
        BY <1>3, <4>1, <4>2, <4>3 DEF Threads
      <4>7. Twice("sync", p) \in Nat /\ Twice("ws", p) \in Nat
            /\ Twice("sync", p)' \in Nat /\ Twice("ws", p)' \in Nat
        BY <1>3, <4>1, <4>2, <4>3 DEF Threads
      <4>8. QED
        BY <1>3, <3>5, <3>6, <3>11, <4>1, <4>3, <4>4, <4>5, <4>6, <4>7 DEF AddsUp
    <3>12. QED
      BY <1>5, <3>9, <3>10, <3>11
  <2>8. QED
    BY <2>6, <2>7
<1>8. QED
  BY <1>6, <1>7

LEMMA DropMergedKeeps ==
  ASSUME Types, Types', Balanced, NEW t \in Threads, DropMerged(t),
         NEW p \in Paints \ upset'
  PROVE  (AddsUp(p) \/ Doomed(p))' /\ Covered(p)'
<1>2. task[t] \in Tasks /\ Fits(task[t], catalog) /\ stock \in Tables
  BY DEF Types
<1>0. task[t].key \in Keys /\ task[t].key[1] = "code" /\ task[t].pc = "merged"
  BY <1>2 DEF DropMerged, Fits, Tasks, Tables
<1>k. PICK k \in Keys : k = task[t].key
  BY <1>0
<1>q. PICK q \in Paints : q = k[2]
  BY KeyParts
<1> DEFINE new == [task[t] EXCEPT !.pc = "check", !.todo = @ \ {k}, !.key = NoKey, !.seen = Absent]
<1>1. /\ task[t].pc = "merged" /\ stock' = Without(k) /\ Place(t, new)
      /\ upset' = (IF Amount(k) = task[t].snap[k] THEN upset ELSE upset \cup {q})
      /\ UNCHANGED <<edit, owed, catalog>>
  BY <1>k, <1>q DEF DropMerged, Merged
<1>3. k \in Keys /\ q \in Paints /\ k = Code(q)
  BY <1>0, <1>k, <1>q, KeyParts
<1>4. new.pc = "check"
  BY <1>2 DEF Tasks
<1> HIDE DEF new
<1>5. p \notin upset /\ p \in Paints /\ (AddsUp(p) \/ Doomed(p)) /\ Covered(p)
  BY <1>1 DEF Balanced
<1>6. Amount(k)' = Absent /\ \A j : j # k => Amount(j)' = Amount(j)
  BY <1>1, <1>2, <1>3, WithoutFacts
<1>7. \A j : j # k => Liters(j)' = Liters(j)
  BY <1>2, <1>6, TableFacts, NextTableFacts DEF Types
<1>8. task'[t] = new /\ \A u \in Threads \ {t} : task'[u] = task[u]
  BY <1>1 DEF Place, Types
<1>9. /\ ~Merging(t, p)'
      /\ \A u \in Threads \ {t} : Merging(u, p)' = Merging(u, p) /\ Twice(u, p)' = Twice(u, p)
  BY <1>4, <1>8 DEF Merging, Twice
<1>10. Covered(p)'
  BY <1>1, <1>5 DEF Covered
<1>11. CASE q # p
  <2>1. k # Id(p) /\ k # Code(p)
    BY <1>3, <1>5, <1>11, KeyFacts
  <2>2. UNCHANGED <<Liters(Id(p)), Liters(Code(p)), owed[p]>>
    BY <1>1, <1>7, <2>1
  <2>3. ~Merging(t, p)
    BY <1>k, <2>1 DEF Merging
  <2>4. \A u \in Threads : Merging(u, p)' = Merging(u, p)
    BY <1>9, <2>3 DEF Merging
  <2>5. \A u \in Threads : Merging(u, p) => UNCHANGED task[u].snap[Code(p)]
    BY <1>8, <2>3
  <2>6. (AddsUp(p) \/ Doomed(p))'
    BY <1>1, <1>5, <2>2, <2>4, <2>5, Untouched
  <2>7. QED
    BY <1>10, <2>6
<1>12. CASE q = p
  <2>0. k = Code(p) /\ Merging(t, p)
    BY <1>1, <1>3, <1>12, <1>k DEF Merging
  <2>1. Amount(Code(p)) = task[t].snap[Code(p)]
    BY <1>1, <1>12, <2>0
  <2>2. task[t].snap[Code(p)] \in Nat /\ task[t].snap[Code(p)] > 0
    BY <1>5, <2>0, MergingFacts
  <2>3. Liters(Code(p)) = task[t].snap[Code(p)] /\ Liters(Code(p))' = 0
    BY <1>2, <1>6, <2>0, <2>1, <2>2, TableFacts, NextTableFacts DEF Types, Absent
  <2>4. Liters(Id(p))' = Liters(Id(p))
    BY <1>5, <1>7, <2>0, KeyFacts
  <2>5. PICK u \in Threads \ {t} : Threads = {t, u}
    BY DEF Threads
  <2>6. ASSUME AddsUp(p) PROVE AddsUp(p)'
    <3>1. Twice(t, p) = task[t].snap[Code(p)] /\ Twice(t, p)' = 0
      BY <1>9, <2>0 DEF Twice
    <3>2. Twice(u, p)' = Twice(u, p) /\ Twice(u, p) \in Nat
      BY <1>5, <1>9, MergingFacts DEF Twice
    <3>3. /\ Liters(Id(p)) \in Nat /\ owed[p] \in Nat /\ owed'[p] = owed[p]
      BY <1>1, <1>2, <1>5, TableFacts DEF Types
    <3>4. /\ Twice("sync", p) + Twice("ws", p) = Twice(t, p) + Twice(u, p)
          /\ Twice("sync", p)' + Twice("ws", p)' = Twice(t, p)' + Twice(u, p)'
      BY <2>2, <2>5, <3>1, <3>2 DEF Threads
    <3>5. /\ Twice("sync", p) \in Nat /\ Twice("ws", p) \in Nat
          /\ Twice("sync", p)' \in Nat /\ Twice("ws", p)' \in Nat
      BY <2>2, <2>5, <3>1, <3>2 DEF Threads
    <3>6. QED
      BY <2>2, <2>3, <2>4, <2>6, <3>1, <3>2, <3>3, <3>4, <3>5 DEF AddsUp
  <2>7. ASSUME Doomed(p) PROVE Doomed(p)'
    <3>1. p \in catalog' /\ ~(edit'.pc = "write" /\ edit'.key = Code(p))
      BY <1>1, <2>7 DEF Doomed
    <3>2. Merging(u, p)
      BY <2>1, <2>5, <2>7 DEF Doomed
    <3>3. task[u].snap[Code(p)] \in Nat
      BY <1>5, <3>2, MergingFacts
    <3>4. Merging(u, p)' /\ Amount(Code(p))' # task'[u].snap[Code(p)]
      BY <1>6, <1>8, <1>9, <2>0, <3>2, <3>3 DEF Absent
    <3>5. QED
      BY <3>1, <3>4 DEF Doomed
  <2>8. QED
    BY <1>5, <1>10, <2>6, <2>7
<1>13. QED
  BY <1>11, <1>12

LEMMA CrashKeeps ==
  ASSUME Types, Types', Balanced, Crash,
         NEW p \in Paints \ upset'
  PROVE  (AddsUp(p) \/ Doomed(p))' /\ Covered(p)'
<1>1. /\ edit' = EditResting /\ task' = [t \in Threads |-> Resting] /\ UNCHANGED <<stock, owed>>
      /\ upset' = upset \cup {task[t].key[2] : t \in {t \in Threads : task[t].pc = "merged"}}
  BY DEF Crash
<1>2. p \notin upset /\ p \in Paints /\ (AddsUp(p) \/ Doomed(p))
  BY <1>1 DEF Balanced
<1>3. \A t \in Threads : ~Merging(t, p)
  BY <1>1, <1>2, KeyFacts DEF Merging
<1>4. Liters(Id(p)) + Liters(Code(p)) = owed[p] /\ owed[p] \in Nat
  BY <1>2, <1>3, PlainSum DEF Types
<1>5. Liters(Id(p))' = Liters(Id(p)) /\ Liters(Code(p))' = Liters(Code(p))
  BY <1>1 DEF Liters
<1>6. Twice("sync", p)' = 0 /\ Twice("ws", p)' = 0
  BY <1>1 DEF Twice, Merging, Threads, Resting
<1>7. AddsUp(p)'
  BY <1>1, <1>4, <1>5, <1>6 DEF AddsUp
<1>8. Covered(p)'
  BY <1>1 DEF Covered, EditResting
<1>9. QED
  BY <1>7, <1>8

(* The steps of a thread that only go on to the next row, insert one       *)
(* without litres, or drop one.                                            *)
LEMMA ConfigKeeps ==
  ASSUME Types, Types', Balanced, NEW t \in Threads, NEW new \in Tasks, Place(t, new),
         task[t].pc # "merged", new.pc # "merged", NEW p \in Paints \ upset', p \notin upset,
         UNCHANGED <<edit, owed, Liters(Id(p)), Liters(Code(p))>>, catalog \subseteq catalog'
  PROVE  (AddsUp(p) \/ Doomed(p))' /\ Covered(p)'
BY ThreadKeeps DEF Balanced

LEMMA BalancedNext ==
  ASSUME Types, Types', Balanced, [Next]_vars
  PROVE  Balanced'
<1> SUFFICES ASSUME NEW p \in Paints \ upset'
             PROVE  (AddsUp(p) \/ Doomed(p))' /\ Covered(p)'
  BY DEF Balanced
<1> DEFINE Kept == (AddsUp(p) \/ Doomed(p))' /\ Covered(p)'
<1>k. \A t \in Threads : task[t] \in Tasks /\ Fits(task[t], catalog)
  BY DEF Types
<1>s. stock \in Tables /\ stock' \in Tables /\ task \in [Threads -> Tasks]
  BY DEF Types
(* A step that changes neither litres nor threads nor an edit.             *)
<1>u. ASSUME UNCHANGED <<stock, task, edit, owed, upset>>, catalog' = catalog
      PROVE  Kept
  <2>1. p \notin upset /\ p \in Paints /\ (AddsUp(p) \/ Doomed(p)) /\ Covered(p)
    BY <1>u DEF Balanced
  <2>2. UNCHANGED <<Liters(Id(p)), Liters(Code(p)), owed[p]>>
    BY <1>u DEF Liters
  <2>3. \A t \in Threads : Merging(t, p)' = Merging(t, p)
    BY <1>u DEF Merging
  <2>4. (AddsUp(p) \/ Doomed(p))'
    BY <1>u, <2>1, <2>2, <2>3, Untouched
  <2>5. QED
    BY <1>u, <2>1, <2>4 DEF Covered
(* The same but for a thread.                                              *)
<1>t. ASSUME NEW t \in Threads, task'[t].pc # "merged", task[t].pc # "merged",
             Place(t, task'[t]), UNCHANGED <<stock, edit, owed, upset>>, catalog \subseteq catalog'
      PROVE  Kept
  <2>1. task'[t] \in Tasks
    BY DEF Types
  <2>2. UNCHANGED <<Liters(Id(p)), Liters(Code(p))>>
    BY <1>t DEF Liters
  <2>3. QED
    BY <1>t, <2>1, <2>2, ConfigKeeps
<1>n. ASSUME NEW t \in Threads, NEW new, Place(t, new) PROVE task'[t] = new
  BY <1>n DEF Types, Place
<1>a. CASE UNCHANGED vars
  BY <1>a, <1>u DEF vars
<1>1. ASSUME NEW q \in Paints, AdminAdds(q) PROVE Kept
  BY <1>1, <1>u DEF AdminAdds
<1>2. ASSUME NEW q \in Paints, NEW load \in BOOLEAN, ScanRead(q, load) PROVE Kept
  BY <1>2, ChangeReadKeeps, KeyFacts DEF ScanRead, Scanned
<1>2c. ASSUME NEW q \in Paints, Consume(q) PROVE Kept
  BY <1>2c, ChangeReadKeeps, KeyFacts DEF Consume
<1>3. ASSUME NEW k \in Keys, AdminDeletes(k) PROVE Kept
  BY <1>3, <1>u DEF AdminDeletes
<1>4. ASSUME NEW k \in Keys, DeleteItem(k) PROVE Kept
  BY <1>4, DeleteItemKeeps
<1>5. CASE ScanWrite
  BY <1>5, ScanWriteKeeps
<1>6. CASE Heartbeat
  BY <1>6, <1>u DEF Heartbeat
<1>7. CASE Crash
  BY <1>7, CrashKeeps
<1>8. ASSUME NEW t \in Threads, Fetch(t) PROVE Kept
  <2>1. catalog \subseteq catalog'
    BY <1>8 DEF Fetch, Types
  <2>2. Place(t, task'[t]) /\ task'[t].pc # "merged"
    BY <1>8, <1>k, <1>s DEF Fetch, Place, Tasks
  <2>3. QED
    BY <1>8, <1>t, <2>1, <2>2 DEF Fetch
<1>9. ASSUME NEW t \in Threads, UpsertSelect(t) PROVE Kept
  <2>1. Place(t, task'[t]) /\ task'[t].pc # "merged"
    BY <1>9, <1>k, <1>s DEF UpsertSelect, Place, Tasks
  <2>2. QED
    BY <1>9, <1>t, <2>1 DEF UpsertSelect
<1>10. ASSUME NEW t \in Threads, UpsertInsert(t) PROVE Kept
  <2>1. Place(t, task'[t]) /\ task'[t].pc # "merged"
    <3>1. CASE Done(t)
      BY <1>s, <3>1 DEF Done, Place, Resting
    <3>2. CASE Inserted(t)
      BY <1>k, <1>n, <3>2 DEF Inserted, Tasks
    <3>3. QED
      BY <1>10, <3>1, <3>2 DEF UpsertInsert
  <2>2. task'[t] \in Tasks
    BY DEF Types
  <2>3. UNCHANGED <<Liters(Id(p)), Liters(Code(p))>>
    <3>1. task[t].key \in Keys
      BY <1>10, <1>k DEF UpsertInsert, Fits
    <3>2. PICK k \in Keys : k = task[t].key
      BY <3>1
    <3>3. CASE k \in DOMAIN stock
      BY <1>10, <3>2, <3>3 DEF UpsertInsert, Liters
    <3>4. CASE k \notin DOMAIN stock
      <4>1. stock' = With(k, 0)
        BY <1>10, <3>2, <3>4 DEF UpsertInsert
      <4>2. Amount(k)' = 0 /\ Amount(k) = Absent /\ \A j : j # k => Amount(j)' = Amount(j)
        BY <1>s, <3>4, <4>1, TableFacts, WithFacts
      <4>3. \A j : Liters(j)' = Liters(j)
        BY <1>s, <4>2, TableFacts, NextTableFacts
      <4>4. QED
        BY <4>3
    <3>5. QED
      BY <3>3, <3>4
  <2>4. QED
    BY <1>10, <2>1, <2>2, <2>3, ConfigKeeps DEF UpsertInsert
<1>o. ASSUME NEW t \in Threads, ReadOrphans(t)
      PROVE  Place(t, task'[t]) /\ task'[t].pc # "merged"
  BY <1>o, <1>k, <1>n DEF ReadOrphans, Tasks
<1>11. ASSUME NEW t \in Threads, DeleteUnlisted(t) PROVE Kept
  <2>0. task[t].pc = "remove"
    BY <1>11 DEF DeleteUnlisted
  <2>1. CASE task[t].todo = {}
    BY <1>11, <2>1, <1>o, <1>t, <2>0 DEF DeleteUnlisted
  <2>2. CASE task[t].todo # {}
    <3>1. PICK k \in task[t].todo : Place(t, [task[t] EXCEPT !.todo = @ \ {k}]) /\ Dropped(k)
      BY <1>11, <2>2 DEF DeleteUnlisted
    <3>2. [task[t] EXCEPT !.todo = @ \ {k}] \in Tasks /\ k \in Keys
          /\ [task[t] EXCEPT !.todo = @ \ {k}].pc = "remove"
      BY <1>k, <2>0 DEF Tasks
    <3>3. p \notin upset /\ UNCHANGED <<Liters(Id(p)), Liters(Code(p))>>
      BY <1>s, <3>1, <3>2, DroppedKeeps
    <3>4. QED
      BY <1>11, <2>0, <3>1, <3>2, <3>3, ConfigKeeps DEF DeleteUnlisted
  <2>3. QED
    BY <2>1, <2>2
<1>12. ASSUME NEW t \in Threads, ListMissing(t) PROVE Kept
  BY <1>12, <1>o, <1>t DEF ListMissing
<1>13. ASSUME NEW t \in Threads, CheckOrphan(t) PROVE Kept
  <2>0. task[t].pc = "check" /\ UNCHANGED <<catalog, edit, owed>>
    BY <1>13 DEF CheckOrphan
  <2>1. CASE task[t].todo = {}
    <3>1. Place(t, Resting) /\ UNCHANGED <<stock, upset>> /\ Resting.pc # "merged"
      BY <1>13, <2>1 DEF CheckOrphan, Done, Place, Resting
    <3>2. QED
      BY <1>n, <1>t, <2>0, <3>1
  <2>2. CASE task[t].todo # {}
    <3>1. PICK k \in task[t].todo :
            IF k[1] = "code" /\ k[2] \in catalog /\ task[t].snap[k] > 0
              THEN /\ Place(t, [task[t] EXCEPT !.pc = "write", !.key = k, !.seen = Amount(Id(k[2]))])
                   /\ UNCHANGED <<stock, upset>>
              ELSE /\ Place(t, [task[t] EXCEPT !.todo = @ \ {k}])
                   /\ IF k[1] = "id" /\ k[2] \in catalog THEN UNCHANGED <<stock, upset>>
                                                         ELSE Dropped(k)
      BY <1>13, <2>2 DEF CheckOrphan
    <3>2. Place(t, task'[t]) /\ task'[t].pc # "merged"
      BY <1>k, <1>s, <2>0, <3>1 DEF Place, Tasks
    <3>3. task'[t] \in Tasks /\ k \in Keys
      BY <1>k DEF Types, Tasks
    <3>4. UNCHANGED <<stock, upset>> \/ Dropped(k)
      BY <3>1
    <3>5. p \notin upset /\ UNCHANGED <<Liters(Id(p)), Liters(Code(p))>>
      BY <1>s, <3>3, <3>4, DroppedKeeps DEF Liters
    <3>6. QED
      BY <2>0, <3>2, <3>3, <3>5, ConfigKeeps
  <2>3. QED
    BY <2>1, <2>2
<1>14. ASSUME NEW t \in Threads, MergeWrite(t) PROVE Kept
  BY <1>14, MergeWriteKeeps
<1>15. ASSUME NEW t \in Threads, DropMerged(t) PROVE Kept
  BY <1>15, DropMergedKeeps
<1>16. QED
  BY <1>a, <1>2c, <1>1, <1>2, <1>3, <1>4, <1>5, <1>6, <1>7, <1>8, <1>9, <1>10, <1>11, <1>12, <1>13,
     <1>14, <1>15
     DEF Next, ConfigStep

LEMMA InitBalanced == Init => Balanced
<1> SUFFICES ASSUME Init, NEW p \in Paints PROVE AddsUp(p) /\ Covered(p)
  BY DEF Balanced
<1>1. Liters(Id(p)) = 0 /\ Liters(Code(p)) = 0
  BY DEF Init, Liters
<1>2. Twice("sync", p) = 0 /\ Twice("ws", p) = 0
  BY DEF Init, Twice, Merging, Resting, Threads
<1>3. QED
  BY <1>1, <1>2 DEF Init, AddsUp, Covered, EditResting

LEMMA SpecIInv == ASSUME StockAssumption PROVE Spec => []IInv
<1>1. Init => IInv
  BY InitTypes, InitBalanced DEF IInv
<1>2. IInv /\ [Next]_vars => IInv'
  BY TypesNext, BalancedNext DEF IInv
<1>3. QED
  BY <1>1, <1>2, PTL DEF Spec

-----------------------------------------------------------------------------
(* The tables, the threads' places and what is owed have their types,      *)
(* whatever happens in between.                                            *)
THEOREM StockTypeCorrect == ASSUME StockAssumption PROVE Spec => []TypeOK
<1>1. Types => TypeOK
  <2> SUFFICES ASSUME Types PROVE TypeOK
    OBVIOUS
  <2>1. DOMAIN stock \subseteq Keys /\ \A k \in DOMAIN stock : stock[k] \in Nat
    BY DEF Types, Tables
  <2>2. ASSUME NEW t \in Threads
        PROVE  /\ task[t].pc \in Pcs /\ task[t].list \subseteq Keys /\ task[t].todo \subseteq Keys
               /\ DOMAIN task[t].snap \subseteq Keys
    BY DEF Types, Tasks, Tables
  <2>3. owed \in [Paints -> 0 .. MaxChanges]
    <3>1. ASSUME NEW p \in Paints PROVE owed[p] \in 0 .. MaxChanges
      <4>1. /\ owed[p] \in Nat /\ owed[p] + Pending <= changes
            /\ changes \in 0 .. MaxChanges /\ MaxChanges \in Nat
        BY DEF Types, StockAssumption
      <4>2. QED
        BY <4>1 DEF Pending
    <3>2. QED
      BY <3>1 DEF Types
  <2>4. QED
    BY <2>1, <2>2, <2>3 DEF Types, TypeOK, Pcs, Edits
<1>2. QED
  BY <1>1, SpecIInv, PTL DEF IInv

(* No litre is lost or counted twice by the threads that load, unload,     *)
(* synchronise and merge: for every paint whose amount none of the known   *)
(* mishaps has spoilt, the rows have what the confirmed changes left.      *)
THEOREM NoLitreIsLost == ASSUME StockAssumption PROVE Spec => []StockAddsUp
<1>1. IInv => StockAddsUp
  <2> SUFFICES ASSUME IInv, NEW p \in Paints \ upset, ~merging(p)
               PROVE  Liters(Id(p)) + Liters(Code(p)) = owed[p]
    BY DEF StockAddsUp
  <2>1. \A t \in Threads : ~Merging(t, p)
    BY KeyFacts DEF merging, Merging
  <2>2. QED
    BY <2>1, PlainSum DEF IInv, Balanced
<1>2. QED
  BY <1>1, SpecIInv, PTL
=============================================================================
