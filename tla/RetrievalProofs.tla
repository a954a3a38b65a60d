-------------------------- MODULE RetrievalProofs --------------------------
(***************************************************************************)
(* Theorems about retrieval, for any tables, processes and scores.         *)
(*                                                                         *)
(* Of SchemaIndex: type correctness, IndexIsExact, OwnReindexIsSeen and    *)
(* LiveTablesStay.  Of TableSelection: all its invariants, by what each    *)
(* of its operators makes of a sequence: what Among keeps, how a ranking   *)
(* falls into strong and weak, what Best, Joined, Expand and Aliases yield *)
(* step by step.                                                           *)
(***************************************************************************)
EXTENDS SchemaIndex, TableSelection, SequenceLemmas

Running(p) == run[p].at # "idle"

(* How far an undisturbed run has come: it knows the schema; after the     *)
(* comparison what it is not going to embed is right, and then everything. *)
RunInOrder(p) ==
    Running(p) /\ ~disturbed[p] =>
        /\ run[p].tables = live
        /\ run[p].at = "upsert" =>
               \A t \in TablesIn(live) \ run[p].pending :
                   index[t] = RowFor(live[t], proc[p].model)
        /\ run[p].at = "prune" =>
               \A t \in TablesIn(live) : index[t] = RowFor(live[t], proc[p].model)

(* A table that a run does not know was created since it read the schema. *)
MissedSince(p) ==
    Running(p) => \A t \in TablesIn(live) \ TablesIn(run[p].tables) : t \in missed[p]

(* Between its prune and its refresh a service holds no vectors. *)
CacheDropped(p) == run[p].at = "refresh" => proc[p].cache = Null

IndexInv ==
    /\ IndexTypeOK
    /\ \A p \in Process : RunInOrder(p) /\ MissedSince(p) /\ CacheDropped(p)
    /\ \A p \in Process : run[p].at = "refresh" => p \in Service
    /\ IndexIsExact
    /\ OwnReindexIsSeen
-----------------------------------------------------------------------------
LEMMA InitiallyInOrder == IndexInit => IndexInv
<1> SUFFICES ASSUME IndexInit PROVE IndexInv
  OBVIOUS
<1>1. NoRun \in Run /\ NoRun.pending = {} /\ NoRun.at = "idle"
  BY IndexAssumption DEF NoRun, Run, Schema
<1>2. \A m \in Model : Started(m) \in Singletons
  BY DEF Started, Singletons
<1>3. \A p \in Process : run[p] = NoRun
  BY DEF IndexInit
<1>4. IndexTypeOK
  <2>1. index \in Stored
    BY DEF IndexInit, Stored
  <2>2. run \in [Process -> Run] /\ \A p \in Process : run[p].pending \subseteq TablesIn(run[p].tables)
    BY <1>1, <1>3 DEF IndexInit
  <2>3. proc \in [Process -> Singletons]
    BY <1>2 DEF IndexInit
  <2> QED
    BY <2>1, <2>2, <2>3 DEF IndexTypeOK, IndexInit
<1>5. \A p \in Process : run[p].at = "idle"
  BY <1>1, <1>3
<1>6. IndexIsExact /\ OwnReindexIsSeen
  BY DEF IndexInit, IndexIsExact, OwnReindexIsSeen
<1> QED
  BY <1>4, <1>5, <1>6 DEF IndexInv, RunInOrder, MissedSince, CacheDropped, Running

LEMMA IntrospectPreserves ==
  ASSUME IndexInv, NEW p \in Process, Introspect(p)
  PROVE  IndexInv'
<1> DEFINE new == [at |-> "ensure", tables |-> live, pending |-> {}]
<1>1. run' = [run EXCEPT ![p] = new] /\ run \in [Process -> Run] /\ live \in Schema
  BY DEF Introspect, IndexInv, IndexTypeOK
<1>2. new \in Run /\ new.at = "ensure" /\ new.tables = live /\ new.pending = {}
  BY <1>1 DEF Run
<1> HIDE DEF new
<1>3. \A q \in Process : run'[q] = IF q = p THEN new ELSE run[q]
  BY <1>1
<1>4. UNCHANGED <<backend, live, index, width, proc, settled, fresh>>
  BY DEF Introspect
<1>5. disturbed' = [disturbed EXCEPT ![p] = FALSE] /\ missed' = [missed EXCEPT ![p] = {}]
  BY DEF Introspect
<1>6. IndexTypeOK'
  <2>1. run' \in [Process -> Run]
    BY <1>1, <1>2
  <2>2. \A q \in Process : run'[q].pending \subseteq TablesIn(run'[q].tables)
    BY <1>2, <1>3 DEF IndexInv, IndexTypeOK
  <2>3. disturbed' \in [Process -> BOOLEAN] /\ missed' \in [Process -> SUBSET Table]
    BY <1>5 DEF IndexInv, IndexTypeOK
  <2> QED
    BY <1>4, <2>1, <2>2, <2>3 DEF IndexInv, IndexTypeOK, TablesIn
<1>7. ASSUME NEW q \in Process
      PROVE  (RunInOrder(q) /\ MissedSince(q) /\ CacheDropped(q))'
  <2>1. CASE q = p
    BY <1>2, <1>3, <1>4, <2>1 DEF RunInOrder, MissedSince, CacheDropped, Running
  <2>2. CASE q # p
    <3>1. run'[q] = run[q] /\ disturbed'[q] = disturbed[q] /\ missed'[q] = missed[q]
      BY <1>3, <1>5, <2>2 DEF IndexInv, IndexTypeOK
    <3> QED
      BY <3>1, <1>4 DEF IndexInv, RunInOrder, MissedSince, CacheDropped, Running, TablesIn
  <2> QED
    BY <2>1, <2>2
<1>8. \A q \in Process : run'[q].at = "refresh" => q \in Service
  BY <1>2, <1>3 DEF IndexInv
<1>9. (IndexIsExact /\ OwnReindexIsSeen)'
  BY <1>4 DEF IndexInv, IndexIsExact, OwnReindexIsSeen, TablesIn
<1> QED
  BY <1>6, <1>7, <1>8, <1>9 DEF IndexInv

(* Steps that only move a run on: what the others have is as before. *)
LEMMA MovePreserves ==
  ASSUME IndexInv, NEW p \in Process, NEW new \in Run,
         run' = [run EXCEPT ![p] = new],
         UNCHANGED <<backend, live, index, proc, disturbed, missed, settled, fresh>>,
         width' \in {Dim[m] : m \in Model} \cup {Null},
         new.pending \subseteq TablesIn(new.tables),
         new.at # "refresh",
         new.at = "idle" \/ (Running(p) /\ new.tables = run[p].tables),
         new.at = "upsert" =>
            \A t \in TablesIn(run[p].tables) \ new.pending :
                index[t] = RowFor(run[p].tables[t], proc[p].model),
         new.at # "prune"
  PROVE  IndexInv'
<1>1. \A q \in Process : run'[q] = IF q = p THEN new ELSE run[q]
  BY DEF IndexInv, IndexTypeOK
<1>2. IndexTypeOK'
  <2>1. run' \in [Process -> Run]
    BY DEF IndexInv, IndexTypeOK
  <2>2. \A q \in Process : run'[q].pending \subseteq TablesIn(run'[q].tables)
    BY <1>1 DEF IndexInv, IndexTypeOK
  <2> QED
    BY <2>1, <2>2 DEF IndexInv, IndexTypeOK
<1>3. ASSUME NEW q \in Process
      PROVE  (RunInOrder(q) /\ MissedSince(q) /\ CacheDropped(q))'
  <2>1. CASE q = p
    BY <1>1, <2>1 DEF IndexInv, RunInOrder, MissedSince, CacheDropped, Running, TablesIn
  <2>2. CASE q # p
    BY <1>1, <2>2 DEF IndexInv, RunInOrder, MissedSince, CacheDropped, Running, TablesIn
  <2> QED
    BY <2>1, <2>2
<1>4. \A q \in Process : run'[q].at = "refresh" => q \in Service
  BY <1>1 DEF IndexInv
<1>5. (IndexIsExact /\ OwnReindexIsSeen)'
  BY DEF IndexInv, IndexIsExact, OwnReindexIsSeen, TablesIn
<1> QED
  BY <1>2, <1>3, <1>4, <1>5 DEF IndexInv

LEMMA EnsureSchemaPreserves ==
  ASSUME IndexInv, NEW p \in Process, EnsureSchema(p)
  PROVE  IndexInv'
<1> DEFINE new == [run[p] EXCEPT !.at = "compare"]
<1>1. run[p] \in Run /\ proc[p] \in Singletons /\ run \in [Process -> Run]
  BY DEF IndexInv, IndexTypeOK
<1>2. new \in Run /\ new.at = "compare" /\ new.tables = run[p].tables /\ new.pending = run[p].pending
  BY <1>1 DEF Run
<1>3. run' = [run EXCEPT ![p] = new]
  BY <1>1 DEF EnsureSchema
<1>4. width' \in {Dim[m] : m \in Model} \cup {Null}
  BY <1>1 DEF EnsureSchema, IndexInv, IndexTypeOK, Singletons
<1>5. new.pending \subseteq TablesIn(new.tables)
  BY <1>2 DEF IndexInv, IndexTypeOK
<1>6. Running(p) /\ UNCHANGED <<backend, live, index, proc, disturbed, missed, settled, fresh>>
  BY DEF EnsureSchema, Running
<1> HIDE DEF new
<1> QED
  BY <1>2, <1>3, <1>4, <1>5, <1>6, MovePreserves

LEMMA ComparePreserves ==
  ASSUME IndexInv, NEW p \in Process, NEW force \in BOOLEAN, Compare(p, force)
  PROVE  IndexInv'
<1> DEFINE chosen == {t \in TablesIn(run[p].tables) : force \/ ~Unchanged(p, t)}
           new == [run[p] EXCEPT !.at = "upsert", !.pending = chosen]
<1>1. run[p] \in Run /\ run \in [Process -> Run]
  BY DEF IndexInv, IndexTypeOK
<1>2. chosen \in SUBSET Table
  BY DEF TablesIn
<1>3. \A t \in TablesIn(run[p].tables) \ chosen :
          index[t] = RowFor(run[p].tables[t], proc[p].model)
  BY DEF Unchanged
<1>4. chosen \subseteq TablesIn(run[p].tables)
  OBVIOUS
<1>5. run' = [run EXCEPT ![p] = new]
  BY <1>1 DEF Compare
<1> HIDE DEF chosen
<1>6. new \in Run /\ new.at = "upsert" /\ new.tables = run[p].tables /\ new.pending = chosen
  BY <1>1, <1>2 DEF Run
<1>7. /\ Running(p)
      /\ UNCHANGED <<backend, live, index, proc, disturbed, missed, settled, fresh>>
      /\ width' \in {Dim[m] : m \in Model} \cup {Null}
  BY DEF Compare, Running, IndexInv, IndexTypeOK
<1> HIDE DEF new
<1> QED
  BY <1>3, <1>4, <1>5, <1>6, <1>7, MovePreserves

LEMMA FailRunPreserves ==
  ASSUME IndexInv, NEW p \in Process, FailRun(p)
  PROVE  IndexInv'
<1>1. NoRun \in Run /\ NoRun.at = "idle" /\ NoRun.pending = {}
  BY DEF NoRun, Run, Schema
<1>2. /\ UNCHANGED <<backend, live, index, proc, disturbed, missed, settled, fresh>>
      /\ run' = [run EXCEPT ![p] = NoRun]
      /\ width' \in {Dim[m] : m \in Model} \cup {Null}
  BY DEF FailRun, IndexInv, IndexTypeOK
<1> QED
  BY <1>1, <1>2, MovePreserves

(* What the caches hold after a write of p: p's is empty, the others' are  *)
(* as before, and only p stays fresh if the index is another one.          *)
LEMMA SeenAfterWrite ==
  ASSUME IndexInv, NEW p \in Process, WriteNoted(p), live' = live,
         proc' = [proc EXCEPT ![p].cache = Null]
  PROVE  /\ fresh' \subseteq Service
         /\ OwnReindexIsSeen'
         /\ proc' \in [Process -> Singletons]
         /\ \A q \in Process : /\ proc'[q].model = proc[q].model
                               /\ proc'[q].cache = IF q = p THEN Null ELSE proc[q].cache
<1>1. proc \in [Process -> Singletons] /\ fresh \subseteq Service
  BY DEF IndexInv, IndexTypeOK
<1>2. PICK new : new = [proc[p] EXCEPT !.cache = Null]
  OBVIOUS
<1>3. proc' = [proc EXCEPT ![p] = new]
  BY <1>2
<1>4. /\ new \in Singletons /\ new.cache = Null
      /\ new.model = proc[p].model /\ new.snapshot = proc[p].snapshot
  BY <1>1, <1>2 DEF Singletons
<1>5. proc' \in [Process -> Singletons] /\ \A q \in Process : proc'[q] = IF q = p THEN new ELSE proc[q]
  BY <1>1, <1>3, <1>4
<1>6. \A q \in Process : /\ proc'[q].model = proc[q].model
                         /\ proc'[q].cache = IF q = p THEN Null ELSE proc[q].cache
                         /\ proc'[q].snapshot = proc[q].snapshot
  BY <1>4, <1>5
<1>7. fresh' \subseteq fresh /\ (index' = index \/ fresh' \subseteq {p})
  <2>1. fresh' = IF index' = index THEN fresh ELSE fresh \cap {p}
    BY DEF WriteNoted
  <2> QED
    BY <2>1
<1>8. OwnReindexIsSeen'
  BY <1>1, <1>6, <1>7 DEF IndexInv, OwnReindexIsSeen, Process
<1> QED
  BY <1>1, <1>5, <1>6, <1>7, <1>8

(* A run that a write of p leaves undisturbed shares p's schema and model. *)
LEMMA UndisturbedByWrite ==
  ASSUME IndexInv, NEW p \in Process, WriteNoted(p), NEW q \in Process, ~disturbed'[q]
  PROVE  /\ ~disturbed[q]
         /\ q = p \/ (run[p].tables = live /\ proc[p].model = proc[q].model)
BY DEF WriteNoted

LEMMA UpsertPreserves ==
  ASSUME IndexInv, NEW p \in Process, Upsert(p)
  PROVE  IndexInv'
<1>1. PICK new : new = [run[p] EXCEPT !.at = "prune"]
  OBVIOUS
<1>2. run[p] \in Run /\ run \in [Process -> Run]
  BY DEF IndexInv, IndexTypeOK
<1>3. new \in Run /\ new.at = "prune" /\ new.tables = run[p].tables /\ new.pending = run[p].pending
  BY <1>1, <1>2 DEF Run
<1>4. run' = [run EXCEPT ![p] = new] /\ run[p].at = "upsert" /\ Running(p)
  BY <1>1, <1>2 DEF Upsert, Running
<1>5. \A q \in Process : run'[q] = IF q = p THEN new ELSE run[q]
  BY <1>2, <1>4
<1>6. run' \in [Process -> Run] /\ \A q \in Process : run'[q].pending \subseteq TablesIn(run'[q].tables)
  BY <1>2, <1>3, <1>4, <1>5 DEF IndexInv, IndexTypeOK
<1>7. UNCHANGED <<backend, live, width, missed>>
  BY DEF Upsert
<1>8. \A q \in Process : run'[q].at = "refresh" => q \in Service /\ run[q].at = "refresh" /\ q # p
  BY <1>3, <1>5 DEF IndexInv
<1>9. ASSUME NEW q \in Process PROVE MissedSince(q)'
  BY <1>3, <1>4, <1>5, <1>7 DEF IndexInv, MissedSince, Running, TablesIn
<1>10. CASE run[p].pending = {}
  <2>1. UNCHANGED <<index, proc, disturbed, settled, fresh>>
    BY <1>10 DEF Upsert
  <2>2. IndexTypeOK'
    BY <1>6, <1>7, <2>1 DEF IndexInv, IndexTypeOK
  <2>3. ASSUME NEW q \in Process PROVE RunInOrder(q)' /\ CacheDropped(q)'
    BY <1>3, <1>4, <1>5, <1>7, <1>10, <2>1 DEF IndexInv, RunInOrder, CacheDropped, Running, TablesIn
  <2>4. (IndexIsExact /\ OwnReindexIsSeen)'
    BY <1>7, <2>1 DEF IndexInv, IndexIsExact, OwnReindexIsSeen, TablesIn
  <2> QED
    BY <1>8, <1>9, <2>2, <2>3, <2>4 DEF IndexInv
<1>11. CASE run[p].pending # {}
  <2>1. /\ index' = [t \in Table |-> IF t \in run[p].pending
                                    THEN RowFor(run[p].tables[t], proc[p].model) ELSE index[t]]
        /\ proc' = [proc EXCEPT ![p].cache = Null]
        /\ settled' = IF run[p].tables = live /\ proc[p].model = settled THEN settled ELSE Null
        /\ WriteNoted(p)
    BY <1>11 DEF Upsert
  <2>2. /\ fresh' \subseteq Service /\ OwnReindexIsSeen' /\ proc' \in [Process -> Singletons]
        /\ \A q \in Process : /\ proc'[q].model = proc[q].model
                              /\ proc'[q].cache = IF q = p THEN Null ELSE proc[q].cache
    BY <1>7, <2>1, SeenAfterWrite
  <2>3. IndexTypeOK'
    <3>1. run[p].tables \in Schema /\ run[p].pending \subseteq TablesIn(run[p].tables)
          /\ proc[p].model \in Model
      BY <1>2 DEF IndexInv, IndexTypeOK, Run, Singletons
    <3>2. \A t \in run[p].pending : RowFor(run[p].tables[t], proc[p].model) \in Row
      BY <3>1 DEF TablesIn, Schema, RowFor, Row
    <3>3. index' \in Stored
      BY <2>1, <3>2 DEF IndexInv, IndexTypeOK, Stored
    <3>4. settled' \in Model \cup {Null} /\ disturbed' \in [Process -> BOOLEAN]
      BY <2>1 DEF WriteNoted, IndexInv, IndexTypeOK
    <3> QED
      BY <1>6, <1>7, <2>2, <3>3, <3>4 DEF IndexInv, IndexTypeOK
  <2>4. ASSUME NEW q \in Process PROVE RunInOrder(q)'
    <3> SUFFICES ASSUME Running(q)', ~disturbed'[q] PROVE RunInOrder(q)'
      BY DEF RunInOrder
    <3>1. Running(q) /\ RunInOrder(q)
      BY <1>3, <1>4, <1>5 DEF Running, IndexInv
    <3>2. ~disturbed[q] /\ (q = p \/ (run[p].tables = live /\ proc[p].model = proc[q].model))
      BY <2>1, UndisturbedByWrite
    <3>3. run[p].tables = live /\ proc[p].model = proc[q].model
      BY <3>1, <3>2 DEF RunInOrder
    <3>4. \A t \in TablesIn(live) :
              index'[t] = IF t \in run[p].pending THEN RowFor(live[t], proc[q].model) ELSE index[t]
      BY <2>1, <3>3 DEF TablesIn
    <3>5. proc'[q].model = proc[q].model /\ live' = live /\ TablesIn(live)' = TablesIn(live)
      BY <1>7, <2>2 DEF TablesIn
    <3>6. CASE q = p
      <4>1. run'[q].at = "prune" /\ run'[q].tables = live
        BY <1>3, <1>5, <3>3, <3>6
      <4>2. \A t \in TablesIn(live) \ run[p].pending : index[t] = RowFor(live[t], proc[q].model)
        BY <1>4, <3>1, <3>2, <3>6 DEF RunInOrder
      <4> QED
        BY <3>4, <3>5, <4>1, <4>2 DEF RunInOrder
    <3>7. CASE q # p
      <4>1. run'[q] = run[q]
        BY <1>5, <3>7
      <4> QED
        BY <3>1, <3>2, <3>4, <3>5, <4>1 DEF RunInOrder
    <3> QED
      BY <3>6, <3>7
  <2>5. ASSUME NEW q \in Process PROVE CacheDropped(q)'
    BY <1>8, <2>2 DEF IndexInv, CacheDropped
  <2>6. IndexIsExact'
    <3> SUFFICES ASSUME settled' # Null, TablesIn(live)' # {}, NEW t \in Table
                 PROVE  /\ settled' = settled
                        /\ index'[t] = IF live[t] = Null THEN Null ELSE RowFor(live[t], settled)
      BY <1>7 DEF IndexIsExact
    <3>1. run[p].tables = live /\ proc[p].model = settled /\ settled' = settled
      BY <2>1
    <3>2. index[t] = IF live[t] = Null THEN Null ELSE RowFor(live[t], settled)
      BY <1>7, <3>1 DEF IndexInv, IndexIsExact, TablesIn
    <3>3. t \in run[p].pending => live[t] # Null
      BY <3>1 DEF IndexInv, IndexTypeOK, TablesIn
    <3> QED
      BY <2>1, <3>1, <3>2, <3>3
  <2> QED
    BY <1>8, <1>9, <2>2, <2>3, <2>4, <2>5, <2>6 DEF IndexInv
<1> QED
  BY <1>10, <1>11

LEMMA PrunePreserves ==
  ASSUME IndexInv, NEW p \in Process, Prune(p)
  PROVE  IndexInv'
<1>1. PICK new : new = AfterPrune(p)
  OBVIOUS
<1>2. run[p] \in Run /\ run \in [Process -> Run] /\ run[p].pending \subseteq TablesIn(run[p].tables)
  BY DEF IndexInv, IndexTypeOK
<1>3. /\ new \in Run
      /\ new.pending \subseteq TablesIn(new.tables)
      /\ \/ new.at = "refresh" /\ p \in Service /\ new.tables = run[p].tables
         \/ new.at = "idle"
  BY <1>1, <1>2 DEF AfterPrune, NoRun, Run, Schema
<1>4. run' = [run EXCEPT ![p] = new] /\ run[p].at = "prune" /\ Running(p)
  BY <1>1, <1>2 DEF Prune, Running
<1>5. \A q \in Process : run'[q] = IF q = p THEN new ELSE run[q]
  BY <1>2, <1>4
<1>6. run' \in [Process -> Run] /\ \A q \in Process : run'[q].pending \subseteq TablesIn(run'[q].tables)
  BY <1>2, <1>3, <1>4, <1>5 DEF IndexInv, IndexTypeOK
<1>7. UNCHANGED <<backend, live, width, missed>>
  BY DEF Prune
<1>8. /\ index' = [t \in Table |-> IF Keep(p) = {} \/ t \in Keep(p) THEN index[t] ELSE Null]
      /\ proc' = [proc EXCEPT ![p].cache = Null]
      /\ settled' = IF ~disturbed[p] THEN proc[p].model
                    ELSE IF index' = index THEN settled ELSE Null
      /\ WriteNoted(p)
  BY DEF Prune, Pruned
<1>9. /\ fresh' \subseteq Service /\ OwnReindexIsSeen' /\ proc' \in [Process -> Singletons]
      /\ \A q \in Process : /\ proc'[q].model = proc[q].model
                            /\ proc'[q].cache = IF q = p THEN Null ELSE proc[q].cache
  BY <1>7, <1>8, SeenAfterWrite
<1>10. IndexTypeOK'
  <2>1. index' \in Stored
    BY <1>8 DEF IndexInv, IndexTypeOK, Stored
  <2>2. settled' \in Model \cup {Null}
    BY <1>8 DEF IndexInv, IndexTypeOK, Singletons
  <2>3. disturbed' \in [Process -> BOOLEAN]
    BY <1>8 DEF WriteNoted, IndexInv, IndexTypeOK
  <2> QED
    BY <1>6, <1>7, <1>9, <2>1, <2>2, <2>3 DEF IndexInv, IndexTypeOK
<1>11. ASSUME NEW q \in Process PROVE RunInOrder(q)'
  <2> SUFFICES ASSUME Running(q)', ~disturbed'[q] PROVE RunInOrder(q)'
    BY DEF RunInOrder
  <2>1. Running(q) /\ RunInOrder(q)
    BY <1>3, <1>4, <1>5 DEF Running, IndexInv
  <2>2. ~disturbed[q] /\ (q = p \/ (run[p].tables = live /\ proc[p].model = proc[q].model))
    BY <1>8, UndisturbedByWrite
  <2>3. run[p].tables = live
    BY <2>1, <2>2 DEF RunInOrder
  <2>4. \A t \in TablesIn(live) : index'[t] = index[t]
    BY <1>8, <2>3 DEF TablesIn, Keep
  <2>5. proc'[q].model = proc[q].model /\ live' = live /\ TablesIn(live)' = TablesIn(live)
    BY <1>7, <1>9 DEF TablesIn
  <2>6. CASE q = p
    <3>1. run'[q].at = "refresh" /\ run'[q].tables = live
      BY <1>3, <1>5, <2>3, <2>6 DEF Running
    <3> QED
      BY <2>5, <3>1 DEF RunInOrder
  <2>7. CASE q # p
    <3>1. run'[q] = run[q]
      BY <1>5, <2>7
    <3> QED
      BY <2>1, <2>2, <2>4, <2>5, <3>1 DEF RunInOrder
  <2> QED
    BY <2>6, <2>7
<1>12. ASSUME NEW q \in Process PROVE MissedSince(q)' /\ CacheDropped(q)'
  <2>1. MissedSince(q) /\ CacheDropped(q)
    BY DEF IndexInv
  <2>2. MissedSince(q)'
    BY <1>3, <1>4, <1>5, <1>7, <2>1 DEF MissedSince, Running, TablesIn
  <2>3. CacheDropped(q)'
    BY <1>5, <1>9, <2>1 DEF CacheDropped
  <2> QED
    BY <2>2, <2>3
<1>13. \A q \in Process : run'[q].at = "refresh" => q \in Service
  BY <1>3, <1>5 DEF IndexInv
<1>14. IndexIsExact'
  <2> SUFFICES ASSUME settled' # Null, TablesIn(live) # {}, NEW t \in Table
               PROVE  index'[t] = IF live[t] = Null THEN Null ELSE RowFor(live[t], settled')
    BY <1>7 DEF IndexIsExact, TablesIn
  <2>1. CASE ~disturbed[p]
    <3>1. RunInOrder(p) /\ settled' = proc[p].model
      BY <1>8, <2>1 DEF IndexInv
    <3>2. Keep(p) = TablesIn(live)
      BY <1>4, <2>1, <3>1 DEF RunInOrder, Keep
    <3>3. \A u \in TablesIn(live) : index[u] = RowFor(live[u], proc[p].model)
      BY <1>4, <2>1, <3>1 DEF RunInOrder
    <3>4. t \in TablesIn(live) <=> live[t] # Null
      BY DEF TablesIn
    <3> QED
      BY <1>8, <3>1, <3>2, <3>3, <3>4
  <2>2. CASE disturbed[p]
    <3>1. index' = index /\ settled' = settled
      BY <1>8, <2>2
    <3> QED
      BY <3>1 DEF IndexInv, IndexIsExact
  <2> QED
    BY <2>1, <2>2
<1> QED
  BY <1>9, <1>10, <1>11, <1>12, <1>13, <1>14 DEF IndexInv

LEMMA RefreshPreserves ==
  ASSUME IndexInv, NEW p \in Process, Refresh(p)
  PROVE  IndexInv'
<1>1. PICK new : new = [proc[p] EXCEPT !.snapshot = live]
  OBVIOUS
<1>2. /\ proc \in [Process -> Singletons] /\ live \in Schema /\ run \in [Process -> Run]
      /\ p \in Service /\ proc[p].cache = Null
  BY DEF IndexInv, IndexTypeOK, Refresh, CacheDropped
<1>3. new \in Singletons /\ new.model = proc[p].model /\ new.cache = Null /\ new.snapshot = live
  BY <1>1, <1>2 DEF Singletons
<1>4. NoRun \in Run /\ NoRun.at = "idle" /\ NoRun.pending = {}
  BY DEF NoRun, Run, Schema
<1>5. /\ proc' = [proc EXCEPT ![p] = new] /\ run' = [run EXCEPT ![p] = NoRun]
      /\ fresh' = fresh \cup {p}
      /\ UNCHANGED <<backend, live, index, width, disturbed, missed, settled>>
  BY <1>1 DEF Refresh
<1>6. \A q \in Process : /\ proc'[q] = IF q = p THEN new ELSE proc[q]
                         /\ run'[q] = IF q = p THEN NoRun ELSE run[q]
  BY <1>2, <1>5
<1>7. IndexTypeOK'
  <2>1. run' \in [Process -> Run] /\ proc' \in [Process -> Singletons]
    BY <1>2, <1>3, <1>4, <1>5
  <2>2. \A q \in Process : run'[q].pending \subseteq TablesIn(run'[q].tables)
    BY <1>4, <1>6 DEF IndexInv, IndexTypeOK
  <2>3. fresh' \subseteq Service
    BY <1>2, <1>5 DEF IndexInv, IndexTypeOK
  <2> QED
    BY <1>5, <2>1, <2>2, <2>3 DEF IndexInv, IndexTypeOK
<1>8. ASSUME NEW q \in Process
      PROVE  (RunInOrder(q) /\ MissedSince(q) /\ CacheDropped(q))'
  BY <1>4, <1>5, <1>6 DEF IndexInv, RunInOrder, MissedSince, CacheDropped, Running, TablesIn
<1>9. \A q \in Process : run'[q].at = "refresh" => q \in Service
  BY <1>4, <1>6 DEF IndexInv
<1>10. IndexIsExact'
  BY <1>5 DEF IndexInv, IndexIsExact, TablesIn
<1>11. OwnReindexIsSeen'
  BY <1>3, <1>5, <1>6 DEF IndexInv, IndexTypeOK, OwnReindexIsSeen, Process
<1> QED
  BY <1>7, <1>8, <1>9, <1>10, <1>11 DEF IndexInv

(* A service that answers requests changes only what it holds in memory. *)
LEMMA ServePreserves ==
  ASSUME IndexInv, NEW p \in Service, ~Running(p), NEW new \in Singletons,
         proc' = [proc EXCEPT ![p] = new],
         new.model = proc[p].model,
         new.snapshot \in {live, proc[p].snapshot},
         new.cache \in {index, proc[p].cache},
         UNCHANGED <<backend, live, index, width, run, disturbed, missed, settled, fresh>>
  PROVE  IndexInv'
<1>1. proc \in [Process -> Singletons] /\ p \in Process
  BY DEF IndexInv, IndexTypeOK, Process
<1>2. \A q \in Process : proc'[q] = IF q = p THEN new ELSE proc[q]
  BY <1>1
<1>3. IndexTypeOK'
  <2>1. proc' \in [Process -> Singletons]
    BY <1>1
  <2> QED
    BY <2>1 DEF IndexInv, IndexTypeOK, TablesIn
<1>4. ASSUME NEW q \in Process
      PROVE  (RunInOrder(q) /\ MissedSince(q) /\ CacheDropped(q))'
  <2>1. /\ proc'[q].model = proc[q].model /\ run'[q] = run[q] /\ disturbed'[q] = disturbed[q]
        /\ run[q].at = "refresh" => proc'[q].cache = proc[q].cache
    BY <1>2 DEF Running
  <2> QED
    BY <2>1 DEF IndexInv, RunInOrder, MissedSince, CacheDropped, Running, TablesIn
<1>5. (IndexIsExact /\ \A q \in Process : run[q].at = "refresh" => q \in Service)'
  BY DEF IndexInv, IndexIsExact, TablesIn
<1>6. OwnReindexIsSeen'
  BY <1>2 DEF IndexInv, IndexTypeOK, OwnReindexIsSeen, Process
<1> QED
  BY <1>3, <1>4, <1>5, <1>6 DEF IndexInv

LEMMA LoadRetrieverPreserves ==
  ASSUME IndexInv, NEW p \in Service, LoadRetriever(p)
  PROVE  IndexInv'
<1>1. PICK new : new = [proc[p] EXCEPT !.snapshot = live]
  OBVIOUS
<1>2. proc[p] \in Singletons /\ live \in Schema
  BY DEF IndexInv, IndexTypeOK, Process
<1>3. /\ new \in Singletons /\ new.model = proc[p].model
      /\ new.cache = proc[p].cache /\ new.snapshot = live
  BY <1>1, <1>2 DEF Singletons
<1>4. /\ ~Running(p) /\ proc' = [proc EXCEPT ![p] = new]
      /\ UNCHANGED <<backend, live, index, width, run, disturbed, missed, settled, fresh>>
  BY <1>1 DEF LoadRetriever, Running
<1> QED
  BY <1>3, <1>4, ServePreserves

LEMMA SearchPreserves ==
  ASSUME IndexInv, NEW p \in Service, Search(p)
  PROVE  IndexInv'
<1>1. PICK new : new = [proc[p] EXCEPT !.cache = index]
  OBVIOUS
<1>2. proc[p] \in Singletons /\ index \in Stored
  BY DEF IndexInv, IndexTypeOK, Process
<1>3. /\ new \in Singletons /\ new.model = proc[p].model
      /\ new.cache = index /\ new.snapshot = proc[p].snapshot
  BY <1>1, <1>2 DEF Singletons
<1>4. /\ ~Running(p) /\ proc' = [proc EXCEPT ![p] = new]
      /\ UNCHANGED <<backend, live, index, width, run, disturbed, missed, settled, fresh>>
  BY <1>1 DEF Search, Running
<1> QED
  BY <1>3, <1>4, ServePreserves

LEMMA RestartPreserves ==
  ASSUME IndexInv, NEW p \in Process, NEW m \in Model, Restart(p, m)
  PROVE  IndexInv'
<1>1. NoRun \in Run /\ NoRun.at = "idle" /\ NoRun.pending = {} /\ Started(m) \in Singletons
  BY DEF NoRun, Run, Schema, Started, Singletons
<1>2. /\ proc' = [proc EXCEPT ![p] = Started(m)] /\ run' = [run EXCEPT ![p] = NoRun]
      /\ fresh' = fresh \ {p}
      /\ UNCHANGED <<backend, live, index, width, disturbed, missed, settled>>
  BY DEF Restart
<1>3. proc \in [Process -> Singletons] /\ run \in [Process -> Run]
  BY DEF IndexInv, IndexTypeOK
<1>4. \A q \in Process : /\ q # p => proc'[q] = proc[q] /\ run'[q] = run[q]
                         /\ q = p => run'[q] = NoRun
  BY <1>2, <1>3
<1>5. IndexTypeOK'
  <2>1. run' \in [Process -> Run] /\ proc' \in [Process -> Singletons]
    BY <1>1, <1>2, <1>3
  <2>2. \A q \in Process : run'[q].pending \subseteq TablesIn(run'[q].tables)
    BY <1>1, <1>4 DEF IndexInv, IndexTypeOK
  <2>3. fresh' \subseteq Service
    BY <1>2 DEF IndexInv, IndexTypeOK
  <2> QED
    BY <1>2, <2>1, <2>2, <2>3 DEF IndexInv, IndexTypeOK
<1>6. ASSUME NEW q \in Process
      PROVE  (RunInOrder(q) /\ MissedSince(q) /\ CacheDropped(q))'
  BY <1>1, <1>2, <1>4 DEF IndexInv, RunInOrder, MissedSince, CacheDropped, Running, TablesIn
<1>7. \A q \in Process : run'[q].at = "refresh" => q \in Service
  BY <1>1, <1>4 DEF IndexInv
<1>8. IndexIsExact'
  BY <1>2 DEF IndexInv, IndexIsExact, TablesIn
<1>9. OwnReindexIsSeen'
  BY <1>2, <1>4 DEF IndexInv, IndexTypeOK, OwnReindexIsSeen, Process
<1> QED
  BY <1>5, <1>6, <1>7, <1>8, <1>9 DEF IndexInv

LEMMA AlterPreserves ==
  ASSUME IndexInv, NEW t \in Table, NEW v \in Version \cup {Null}, Alter(t, v)
  PROVE  IndexInv'
<1>1. /\ live' = [live EXCEPT ![t] = v]
      /\ disturbed' = [p \in Process |-> TRUE]
      /\ missed' = [p \in Process |-> IF live[t] = Null THEN missed[p] \cup {t} ELSE missed[p]]
      /\ settled' = Null /\ fresh' = {}
      /\ UNCHANGED <<backend, index, width, run, proc>>
  BY DEF Alter
<1>2. live' \in Schema /\ missed' \in [Process -> SUBSET Table]
  BY <1>1 DEF IndexInv, IndexTypeOK, Schema
<1>3. IndexTypeOK'
  <2>1. \A p \in Process : run'[p].pending \subseteq TablesIn(run'[p].tables)
    BY <1>1 DEF IndexInv, IndexTypeOK
  <2> QED
    BY <1>1, <1>2, <2>1 DEF IndexInv, IndexTypeOK
<1>4. ASSUME NEW p \in Process
      PROVE  (RunInOrder(p) /\ MissedSince(p) /\ CacheDropped(p))'
  <2>1. RunInOrder(p)'
    BY <1>1 DEF RunInOrder
  <2>2. MissedSince(p)'
    <3> SUFFICES ASSUME Running(p), NEW u \in Table, live'[u] # Null, run[p].tables[u] = Null
                 PROVE  u \in missed'[p]
      BY <1>1 DEF MissedSince, Running, TablesIn
    <3>1. live[u] # Null \/ (u = t /\ live[t] = Null)
      BY <1>1 DEF IndexInv, IndexTypeOK, Schema
    <3>2. live[u] # Null => u \in missed[p]
      BY DEF IndexInv, MissedSince, TablesIn
    <3> QED
      BY <1>1, <3>1, <3>2
  <2>3. CacheDropped(p)'
    BY <1>1 DEF IndexInv, CacheDropped
  <2> QED
    BY <2>1, <2>2, <2>3
<1>5. \A p \in Process : run'[p].at = "refresh" => p \in Service
  BY <1>1 DEF IndexInv
<1>6. (IndexIsExact /\ OwnReindexIsSeen)'
  BY <1>1 DEF IndexIsExact, OwnReindexIsSeen
<1> QED
  BY <1>3, <1>4, <1>5, <1>6 DEF IndexInv

LEMMA StepPreserves == IndexInv /\ [IndexNext]_indexVars => IndexInv'
<1> SUFFICES ASSUME IndexInv, [IndexNext]_indexVars PROVE IndexInv'
  OBVIOUS
<1>1. ASSUME NEW p \in Process, RunStep(p) PROVE IndexInv'
  BY <1>1, IntrospectPreserves, EnsureSchemaPreserves, ComparePreserves, UpsertPreserves,
     PrunePreserves, RefreshPreserves, FailRunPreserves DEF RunStep
<1>2. ASSUME NEW p \in Service, LoadRetriever(p) \/ Search(p) PROVE IndexInv'
  BY <1>2, LoadRetrieverPreserves, SearchPreserves
<1>3. ASSUME NEW p \in Process, NEW m \in Model, Restart(p, m) PROVE IndexInv'
  BY <1>3, RestartPreserves
<1>4. ASSUME NEW t \in Table, NEW v \in Version \cup {Null}, Alter(t, v) PROVE IndexInv'
  BY <1>4, AlterPreserves
<1>5. CASE UNCHANGED indexVars
  BY <1>5 DEF indexVars, IndexInv, IndexTypeOK, RunInOrder, MissedSince, CacheDropped, Running,
              IndexIsExact, OwnReindexIsSeen, TablesIn
<1> QED
  BY <1>1, <1>2, <1>3, <1>4, <1>5 DEF IndexNext

(* The indexer keeps the inductive invariant, whatever processes run it,   *)
(* fail, or start anew, and however the schema changes.                    *)
THEOREM IndexInvariant == IndexSpec => []IndexInv
BY InitiallyInOrder, StepPreserves, PTL DEF IndexSpec

(* Type correctness: whatever runs, fails and restarts, index_schema embeds *)
(* only tables it has introspected, and only services ever refresh.         *)
THEOREM IndexTypes == IndexSpec => []IndexTypeOK
<1>1. IndexInv => IndexTypeOK
  BY DEF IndexInv
<1> QED
  BY <1>1, IndexInvariant, PTL

(* An undisturbed run of index_schema leaves one right row per table, for   *)
(* any number of processes that index at the same time, any history of      *)
(* failed runs and any set of embedding models.                             *)
THEOREM IndexExact == IndexSpec => []IndexIsExact
<1>1. IndexInv => IndexIsExact
  BY DEF IndexInv
<1> QED
  BY <1>1, IndexInvariant, PTL

(* A service that has reindexed holds neither an older schema nor older     *)
(* vectors in memory, until another process or a migration changes them.    *)
THEOREM ReindexSeen == IndexSpec => []OwnReindexIsSeen
<1>1. IndexInv => OwnReindexIsSeen
  BY DEF IndexInv
<1> QED
  BY <1>1, IndexInvariant, PTL

(* No step of any number of concurrent runs removes the row of a live table *)
(* unless it prunes for a run that began before the table was created.      *)
THEOREM TablesStay == IndexSpec => LiveTablesStay
<1> DEFINE Stays == \A t \in Table :
                        index[t] # Null /\ index'[t] = Null /\ live[t] # Null =>
                            \E p \in Process : run[p].at = "prune" /\ t \in missed[p]
<1>1. IndexInv /\ [IndexNext]_indexVars => [Stays]_indexVars
  <2> SUFFICES ASSUME IndexInv, IndexNext, NEW t \in Table,
                      index[t] # Null, index'[t] = Null, live[t] # Null
               PROVE  \E p \in Process : run[p].at = "prune" /\ t \in missed[p]
    OBVIOUS
  <2>1. index' # index
    OBVIOUS
  <2>2. PICK p \in Process : Upsert(p) \/ Prune(p)
    BY <2>1 DEF IndexNext, RunStep, Introspect, EnsureSchema, Compare, Refresh, FailRun,
                LoadRetriever, Search, Restart, Alter, Process
  <2>3. ~Upsert(p)
    <3> SUFFICES ASSUME Upsert(p) PROVE FALSE
      OBVIOUS
    <3>1. index'[t] = IF t \in run[p].pending
                      THEN RowFor(run[p].tables[t], proc[p].model) ELSE index[t]
      BY <2>1 DEF Upsert
    <3>2. t \in run[p].pending => RowFor(run[p].tables[t], proc[p].model) \in Row
      BY DEF IndexInv, IndexTypeOK, Run, Schema, Singletons, TablesIn, RowFor, Row
    <3>3. Null \notin Row
      BY IndexAssumption DEF Row
    <3> QED
      BY <3>1, <3>2, <3>3
  <2>4. run[p].at = "prune" /\ t \notin Keep(p)
    BY <2>2, <2>3 DEF Prune, Pruned
  <2>5. t \in missed[p]
    BY <2>4 DEF IndexInv, MissedSince, Running, Keep, TablesIn
  <2> QED
    BY <2>4, <2>5
<1> QED
  BY <1>1, IndexInvariant, PTL DEF IndexSpec, LiveTablesStay
-----------------------------------------------------------------------------
(* Places in their order are different places. *)
LEMMA IncreasingTellsApart ==
    ASSUME NEW l \in Nat, NEW n \in Nat, NEW f \in [1 .. l -> 1 .. n],
           \A i, j \in 1 .. l : i < j => f[i] < f[j]
    PROVE  \A i, j \in 1 .. l : f[i] = f[j] => i = j
<1>1. ASSUME NEW i \in 1 .. l, NEW j \in 1 .. l, i < j PROVE f[i] # f[j]
  <2>1. f[i] \in 1 .. n /\ f[j] \in 1 .. n /\ f[i] < f[j]
    BY <1>1
  <2>2. PICK a \in 1 .. n, b \in 1 .. n : a = f[i] /\ b = f[j] /\ a < b
    BY <2>1
  <2> QED
    BY <2>2
<1>2. ASSUME NEW i \in 1 .. l, NEW j \in 1 .. l, f[i] = f[j] PROVE i = j
  <2>1. ~(i < j) /\ ~(j < i)
    BY <1>1, <1>2
  <2> QED
    BY <2>1
<1> QED
  BY <1>2

(* What Among has kept after each element. *)
Keeps(h, s, wanted, V) ==
    /\ h \in [0 .. Len(s) -> Seq(V)]
    /\ h[0] = <<>>
    /\ \A i \in 1 .. Len(s) :
          h[i] = IF s[i] \in wanted THEN Append(h[i - 1], s[i]) ELSE h[i - 1]
    /\ Among(s, wanted) = h[Len(s)]

(* They are the steps of the fold that defines it. *)
LEMMA AmongSteps ==
    ASSUME NEW V, NEW s \in Seq(V), NEW wanted
    PROVE  \E h : Keeps(h, s, wanted, V)
<1> DEFINE n == Len(s)
           step == [p \in (1 .. n) \X Seq(V) |->
                      IF s[p[1]] \in wanted THEN Append(p[2], s[p[1]]) ELSE p[2]]
           Is(g) == g = [S \in SUBSET (DOMAIN s) |->
                           IF S = {} THEN <<>>
                           ELSE IF s[Max(S)] \in wanted
                                THEN Append(g[S \ {Max(S)}], s[Max(S)])
                                ELSE g[S \ {Max(S)}]]
           fold == CHOOSE g : Is(g)
<1>1. Among(s, wanted) = fold[DOMAIN s]
  BY DEF Among, FoldLeft, MapThenFoldSet
<1>2. /\ n \in Nat /\ DOMAIN s = 1 .. n /\ <<>> \in Seq(V)
      /\ \A i \in 1 .. n : s[i] \in V
  OBVIOUS
<1>3. /\ step \in [(1 .. n) \X Seq(V) -> Seq(V)]
      /\ \A i \in 1 .. n, v \in Seq(V) :
            step[<<i, v>>] = IF s[i] \in wanted THEN Append(v, s[i]) ELSE v
  <2> HIDE DEF n
  <2>1. \A i \in 1 .. n, v \in Seq(V) : Append(v, s[i]) \in Seq(V)
    BY <1>2
  <2> QED
    BY <1>2, <2>1
<1> HIDE DEF step, n
<1>4. PICK g \in [SUBSET (1 .. n) -> Seq(V)] : Solves(g, <<>>, step, n)
  BY <1>2, <1>3, FoldSolution
<1>5. \A S \in SUBSET (1 .. n) : S # {} => Max(S) \in 1 .. n
  BY <1>2, LargestUpTo
<1>6. Is(g)
  <2>1. ASSUME NEW S \in SUBSET (1 .. n), S # {}
        PROVE  g[S] = IF s[Max(S)] \in wanted THEN Append(g[S \ {Max(S)}], s[Max(S)])
                      ELSE g[S \ {Max(S)}]
    <3>1. Max(S) \in 1 .. n /\ g[S \ {Max(S)}] \in Seq(V)
      BY <1>5, <2>1
    <3>2. g[S] = step[<<Max(S), g[S \ {Max(S)}]>>]
      BY <1>4, <2>1 DEF Solves
    <3> QED
      BY <1>3, <3>1, <3>2
  <2>2. g[{}] = <<>>
    BY <1>4 DEF Solves
  <2> QED
    BY <1>2, <2>1, <2>2
<1>7. Is(fold)
  <2> HIDE DEF Is
  <2> QED
    BY <1>6
<1> HIDE DEF fold
<1>8. SolvesIn(Seq(V), fold, <<>>, step, n)
  <2>1. \A S \in SUBSET (1 .. n) :
           fold[S] = IF S = {} THEN <<>>
                     ELSE IF s[Max(S)] \in wanted THEN Append(fold[S \ {Max(S)}], s[Max(S)])
                     ELSE fold[S \ {Max(S)}]
    BY <1>2, <1>7
  <2>2. fold = [S \in SUBSET (1 .. n) |-> fold[S]]
    BY <1>2, <1>7
  <2> QED
    BY <1>3, <1>5, <2>1, <2>2 DEF SolvesIn
<1>9. PICK h \in [0 .. n -> Seq(V)] : Reaches(h, fold, <<>>, step, n)
  BY <1>2, <1>3, <1>8, FoldSteps
<1>10. \A i \in 1 .. n : h[i] = IF s[i] \in wanted THEN Append(h[i - 1], s[i]) ELSE h[i - 1]
  <2>1. \A i \in 1 .. n : h[i - 1] \in Seq(V) /\ h[i] = step[<<i, h[i - 1]>>]
    <3>1. \A i \in 1 .. n : i - 1 \in 0 .. n
      BY <1>2
    <3>2. \A i \in 1 .. n : h[i] = step[<<i, h[i - 1]>>]
      BY <1>9 DEF Follows, Reaches
    <3> QED
      BY <1>9, <3>1, <3>2
  <2> QED
    BY <1>3, <2>1
<1> QED
  BY <1>1, <1>2, <1>9, <1>10 DEF n, Follows, Reaches, Keeps

(* The elements that Among keeps, and the places they come from: wanted    *)
(* ones, in their order, and all of them.                                  *)
PlacesOf(f, q, s, wanted, n) ==
    /\ f \in [1 .. Len(q) -> 1 .. n]
    /\ \A i \in 1 .. Len(q) : q[i] = s[f[i]] /\ s[f[i]] \in wanted
    /\ \A i, j \in 1 .. Len(q) : i < j => f[i] < f[j]
    /\ \A k \in 1 .. n : s[k] \in wanted => \E i \in 1 .. Len(q) : f[i] = k

(* Among has such places. *)
LEMMA AmongPlaces ==
    ASSUME NEW V, NEW s \in Seq(V), NEW wanted
    PROVE  /\ Among(s, wanted) \in Seq(V)
           /\ \E f : PlacesOf(f, Among(s, wanted), s, wanted, Len(s))
<1>1. PICK h : Keeps(h, s, wanted, V)
  BY AmongSteps
<1>2. PICK n \in Nat : n = Len(s)
  OBVIOUS
<1> DEFINE Good == {k \in 0 .. n : \E f : PlacesOf(f, h[k], s, wanted, k)}
<1>3. 0 \in Good
  <2>1. PICK q \in Seq(V) : q = h[0] /\ Len(q) = 0
    BY <1>1, <1>2 DEF Keeps
  <2>2. PICK f : f \in [1 .. 0 -> 1 .. 0]
    <3>1. [i \in 1 .. 0 |-> i] \in [1 .. 0 -> 1 .. 0]
      OBVIOUS
    <3> QED
      BY <3>1
  <2>3. PlacesOf(f, h[0], s, wanted, 0)
    BY <2>1, <2>2 DEF PlacesOf
  <2> QED
    BY <2>3
<1>4. ASSUME NEW k \in 0 .. n, k < n, k \in Good PROVE k + 1 \in Good
  <2>1. PICK f : PlacesOf(f, h[k], s, wanted, k)
    BY <1>4
  <2>2. PICK m \in Nat : m = k + 1 /\ m \in 1 .. n /\ m - 1 = k
    BY <1>4
  <2>3. PICK q, r \in Seq(V) : q = h[k] /\ r = h[m]
    BY <1>1, <1>2, <2>2 DEF Keeps
  <2>4. r = IF s[m] \in wanted THEN Append(q, s[m]) ELSE q
    BY <1>1, <1>2, <2>2, <2>3 DEF Keeps
  <2>5. PICK l \in Nat : l = Len(q)
    OBVIOUS
  <2>6. /\ f \in [1 .. l -> 1 .. k]
        /\ \A i \in 1 .. l : q[i] = s[f[i]] /\ s[f[i]] \in wanted
        /\ \A i, j \in 1 .. l : i < j => f[i] < f[j]
        /\ \A p \in 1 .. k : s[p] \in wanted => \E i \in 1 .. l : f[i] = p
    BY <2>1, <2>3, <2>5 DEF PlacesOf
  <2>7. CASE s[m] \in wanted
    <3>1. s[m] \in V
      BY <1>2, <2>2
    <3>2. /\ Len(r) = l + 1 /\ r[l + 1] = s[m]
          /\ \A i \in 1 .. l : r[i] = q[i]
      BY <2>4, <2>5, <2>7, <3>1, AppendProperties
    <3>3. PICK g : g = [i \in 1 .. l + 1 |-> IF i <= l THEN f[i] ELSE m]
      OBVIOUS
    <3>4. \A i \in 1 .. l + 1 : i \in 1 .. l \/ i = l + 1
      OBVIOUS
    <3>5. /\ \A i \in 1 .. l : g[i] = f[i] /\ f[i] \in 1 .. k
          /\ g[l + 1] = m
      BY <2>6, <3>3
    <3>6. g \in [1 .. l + 1 -> 1 .. m]
      <4>1. \A i \in 1 .. l + 1 : g[i] \in 1 .. m
        BY <2>2, <3>4, <3>5
      <4>2. g = [i \in 1 .. l + 1 |-> g[i]]
        BY <3>3
      <4> QED
        BY <4>1, <4>2
    <3>7. \A i \in 1 .. l + 1 : r[i] = s[g[i]] /\ s[g[i]] \in wanted
      BY <2>6, <2>7, <3>2, <3>4, <3>5
    <3>8. \A i, j \in 1 .. l + 1 : i < j => g[i] < g[j]
      <4>1. ASSUME NEW i \in 1 .. l + 1, NEW j \in 1 .. l + 1, i < j PROVE g[i] < g[j]
        <5>1. i \in 1 .. l
          BY <4>1
        <5>2. CASE j \in 1 .. l
          BY <2>6, <3>5, <4>1, <5>1, <5>2
        <5>3. CASE j = l + 1
          BY <2>2, <3>5, <5>1, <5>3
        <5> QED
          BY <3>4, <5>2, <5>3
      <4> QED
        BY <4>1
    <3>9. \A p \in 1 .. m : s[p] \in wanted => \E i \in 1 .. l + 1 : g[i] = p
      <4>1. ASSUME NEW p \in 1 .. m, s[p] \in wanted PROVE \E i \in 1 .. l + 1 : g[i] = p
        <5>1. p \in 1 .. k \/ p = m
          BY <2>2
        <5>2. CASE p = m
          <6>1. l + 1 \in 1 .. l + 1
            OBVIOUS
          <6> QED
            BY <3>5, <5>2, <6>1
        <5>3. CASE p \in 1 .. k
          <6>1. PICK i \in 1 .. l : f[i] = p
            BY <2>6, <4>1, <5>3
          <6>2. i \in 1 .. l + 1 /\ g[i] = p
            BY <3>5, <6>1
          <6> QED
            BY <6>2
        <5> QED
          BY <5>1, <5>2, <5>3
      <4> QED
        BY <4>1
    <3>10. PlacesOf(g, r, s, wanted, m)
      BY <3>2, <3>6, <3>7, <3>8, <3>9 DEF PlacesOf
    <3> QED
      BY <2>2, <2>3, <3>10
  <2>8. CASE s[m] \notin wanted
    <3>1. r = q
      BY <2>4, <2>8
    <3>2. f \in [1 .. l -> 1 .. m]
      BY <2>2, <2>6
    <3>3. \A p \in 1 .. m : s[p] \in wanted => \E i \in 1 .. l : f[i] = p
      <4>1. \A p \in 1 .. m : p \in 1 .. k \/ p = m
        BY <2>2
      <4> QED
        BY <2>6, <2>8, <4>1
    <3>4. PlacesOf(f, r, s, wanted, m)
      BY <2>5, <2>6, <3>1, <3>2, <3>3 DEF PlacesOf
    <3> QED
      BY <2>2, <2>3, <3>4
  <2> QED
    BY <2>7, <2>8
<1>5. n \in Good
  <2> HIDE DEF Good
  <2>1. \A k \in 0 .. n : k \in Good
    BY <1>3, <1>4, UpTo
  <2> QED
    BY <2>1
<1> QED
  BY <1>1, <1>2, <1>5 DEF Keeps

(* If the wanted elements come first, Among keeps just them. *)
LEMMA AmongFirst ==
    ASSUME NEW V, NEW s \in Seq(V), NEW wanted, NEW m \in 0 .. Len(s),
           \A i \in 1 .. Len(s) : s[i] \in wanted <=> i <= m
    PROVE  Among(s, wanted) = SubSeq(s, 1, m)
<1>1. PICK h : Keeps(h, s, wanted, V)
  BY AmongSteps
<1>2. PICK n \in Nat : n = Len(s)
  OBVIOUS
<1> DEFINE Good == {k \in 0 .. n : h[k] = SubSeq(s, 1, IF k <= m THEN k ELSE m)}
<1>3. 0 \in Good
  BY <1>1 DEF Keeps
<1>4. ASSUME NEW k \in 0 .. n, k < n, k \in Good PROVE k + 1 \in Good
  <2>1. PICK j \in Nat : j = k + 1 /\ j \in 1 .. n /\ j - 1 = k
    BY <1>4
  <2>2. h[j] = IF s[j] \in wanted THEN Append(h[k], s[j]) ELSE h[k]
    BY <1>1, <1>2, <2>1 DEF Keeps
  <2>3. CASE j <= m
    <3>1. h[k] = SubSeq(s, 1, k) /\ s[j] \in wanted
      BY <1>2, <1>4, <2>1, <2>3
    <3>2. k + 1 <= Len(s)
      BY <1>2, <2>1
    <3>3. /\ SubSeq(s, 1, k) \in Seq(V) /\ s[k + 1] \in V
          /\ SubSeq(s, 1, k + 1) = SubSeq(s, 1, k) \o <<s[k + 1]>>
      BY <3>2, PrefixGrows
    <3>4. PICK a \in Seq(V), x \in V : a = SubSeq(s, 1, k) /\ x = s[j]
      BY <2>1, <3>3
    <3>5. Append(a, x) = a \o <<x>>
      OBVIOUS
    <3>6. h[j] = SubSeq(s, 1, j)
      BY <2>1, <2>2, <3>1, <3>3, <3>4, <3>5
    <3> QED
      BY <2>1, <2>3, <3>6
  <2>4. CASE ~(j <= m)
    <3>1. s[j] \notin wanted /\ ~(k + 1 <= m)
      BY <1>2, <2>1, <2>4
    <3>2. h[k] = SubSeq(s, 1, m)
      BY <1>4, <3>1
    <3> QED
      BY <2>1, <2>2, <3>1, <3>2
  <2> QED
    BY <2>3, <2>4
<1>5. n \in Good
  <2> HIDE DEF Good
  <2>1. \A k \in 0 .. n : k \in Good
    BY <1>3, <1>4, UpTo
  <2> QED
    BY <2>1
<1>6. h[n] = SubSeq(s, 1, m)
  BY <1>2, <1>5
<1> QED
  BY <1>1, <1>2, <1>6 DEF Keeps

(* What the assumption says of the numbers, and of the tables by name. *)
LEMMA Settings ==
    /\ TopK \in Nat \ {0} /\ MaxTables \in Nat \ {0} /\ MinScore \in Nat
    /\ IsFiniteSet(TableName) /\ Cardinality(TableName) \in Nat
    /\ \A i, j \in 1 .. Len(ByName) : ByName[i] = ByName[j] => i = j
<1>1. /\ ByName \in Seq(TableName) /\ ToSet(ByName) = TableName
      /\ Len(ByName) = Cardinality(TableName)
      /\ TopK \in Nat \ {0} /\ MaxTables \in Nat \ {0} /\ MinScore \in Nat
  BY SelectionAssumption
<1>2. PICK n \in Nat : n = Len(ByName)
  BY <1>1
<1>3. ByName \in [1 .. n -> TableName] /\ \A t \in TableName : \E i \in 1 .. n : ByName[i] = t
  BY <1>1, <1>2 DEF ToSet
<1>4. ByName \in Surjection(1 .. n, TableName)
  BY <1>3 DEF Surjection
<1>5. IsFiniteSet(1 .. n) /\ Cardinality(1 .. n) = n
  BY FS_Interval
<1>6. IsFiniteSet(TableName) /\ ByName \in Injection(1 .. n, TableName)
  BY <1>1, <1>2, <1>4, <1>5, FS_Surjection
<1> QED
  BY <1>1, <1>2, <1>6 DEF Injection, IsInjective

(* The beginning of a sequence. *)
LEMMA AtMostIs ==
    ASSUME NEW V, NEW s \in Seq(V), NEW n \in Nat
    PROVE  /\ AtMost(s, n) \in Seq(V) /\ AtMost(s, n) = SubSeq(s, 1, Min({n, Len(s)}))
           /\ Len(AtMost(s, n)) = IF n <= Len(s) THEN n ELSE Len(s)
           /\ \A i \in 1 .. Len(AtMost(s, n)) : AtMost(s, n)[i] = s[i]
<1>1. PICK l \in Nat : l = Len(s)
  OBVIOUS
<1>2. Min({n, l}) = IF n <= l THEN n ELSE l
  BY OfTwo
<1>3. PICK m \in Nat : m = Min({n, l}) /\ m <= l /\ m = IF n <= l THEN n ELSE l
  BY <1>2
<1>4. \A i \in 1 .. m : s[i] \in V
  BY <1>1, <1>3
<1>5. /\ SubSeq(s, 1, m) \in Seq(V) /\ Len(SubSeq(s, 1, m)) = m
      /\ \A i \in 1 .. m : SubSeq(s, 1, m)[i] = s[i]
  <2>1. /\ SubSeq(s, 1, m) \in Seq(V)
        /\ Len(SubSeq(s, 1, m)) = IF 1 <= m THEN m - 1 + 1 ELSE 0
        /\ \A i \in 1 .. m - 1 + 1 : SubSeq(s, 1, m)[i] = s[1 + i - 1]
    BY <1>4, SubSeqProperties
  <2>2. m - 1 + 1 = m /\ (~(1 <= m) => m = 0) /\ \A i \in 1 .. m : 1 + i - 1 = i
    OBVIOUS
  <2> QED
    BY <2>1, <2>2
<1> QED
  BY <1>1, <1>3, <1>5 DEF AtMost

(* A ranking is an enumeration of the scored tables, best first. *)
LEMMA RankingIs ==
    ASSUME NEW D \in SUBSET TableName, NEW scores \in [D -> Nat], NEW ranked \in Rankings(scores)
    PROVE  /\ ranked \in Seq(D) /\ Len(ranked) = Cardinality(D) /\ Cardinality(D) \in Nat
           /\ \A t \in D : \E i \in 1 .. Len(ranked) : ranked[i] = t
           /\ \A i, j \in 1 .. Len(ranked) : ranked[i] = ranked[j] => i = j
           /\ \A i, j \in 1 .. Len(ranked) : i <= j => scores[ranked[i]] >= scores[ranked[j]]
<1>1. IsFiniteSet(D) /\ Cardinality(D) \in Nat
  BY Settings, FS_Subset, FS_CardinalityType
<1>2. PICK n \in Nat : n = Cardinality(D)
  BY <1>1
<1>3. /\ ranked \in [1 .. n -> D] /\ \A i, j \in 1 .. n : i # j => ranked[i] # ranked[j]
      /\ \A i, j \in 1 .. n : i < j => scores[ranked[i]] >= scores[ranked[j]]
  BY <1>2 DEF Rankings, SetToSeqs
<1>4. ranked \in Seq(D) /\ Len(ranked) = n
  BY <1>3
<1>5. ranked \in Injection(1 .. n, D)
  BY <1>3 DEF Injection, IsInjective
<1>6. IsFiniteSet(1 .. n) /\ Cardinality(1 .. n) = n
  BY FS_Interval
<1>7. ranked \in Surjection(1 .. n, D)
  BY <1>1, <1>2, <1>5, <1>6, FS_Injection
<1>8. \A t \in D : \E i \in 1 .. n : ranked[i] = t
  BY <1>7 DEF Surjection
<1>9. \A i, j \in 1 .. n : i <= j => scores[ranked[i]] >= scores[ranked[j]]
  <2>1. ASSUME NEW i \in 1 .. n, NEW j \in 1 .. n, i <= j
        PROVE  scores[ranked[i]] >= scores[ranked[j]]
    <3>1. scores[ranked[i]] \in Nat
      BY <1>3
    <3>2. i < j \/ i = j
      BY <2>1
    <3> QED
      BY <1>3, <3>1, <3>2
  <2> QED
    BY <2>1
<1> QED
  BY <1>1, <1>2, <1>3, <1>4, <1>8, <1>9

Strong(scores) == {t \in DOMAIN scores : scores[t] >= MinScore}

(* The tables that score enough are the first of a ranking. *)
LEMMA StrongFirst ==
    ASSUME NEW D \in SUBSET TableName, NEW scores \in [D -> Nat], NEW ranked \in Rankings(scores)
    PROVE  /\ Cardinality(Strong(scores)) \in 0 .. Len(ranked)
           /\ \A i \in 1 .. Len(ranked) :
                 ranked[i] \in Strong(scores) <=> i <= Cardinality(Strong(scores))
<1>1. PICK n \in Nat :
         /\ n = Len(ranked) /\ ranked \in Seq(D)
         /\ \A t \in D : \E i \in 1 .. n : ranked[i] = t
         /\ \A i, j \in 1 .. n : ranked[i] = ranked[j] => i = j
         /\ \A i, j \in 1 .. n : i <= j => scores[ranked[i]] >= scores[ranked[j]]
  <2>1. /\ ranked \in Seq(D) /\ Len(ranked) \in Nat
        /\ \A t \in D : \E i \in 1 .. Len(ranked) : ranked[i] = t
        /\ \A i, j \in 1 .. Len(ranked) : ranked[i] = ranked[j] => i = j
        /\ \A i, j \in 1 .. Len(ranked) : i <= j => scores[ranked[i]] >= scores[ranked[j]]
    BY RankingIs
  <2> QED
    BY <2>1
<1>2. PICK S : S = Strong(scores)
  OBVIOUS
<1>3. /\ S \subseteq D /\ \A i \in 1 .. n : ranked[i] \in D
      /\ \A t \in D : t \in S <=> scores[t] >= MinScore
      /\ \A t \in D : scores[t] \in Nat
  BY <1>1, <1>2 DEF Strong
<1>4. PICK weak \in SUBSET Nat : weak = {i \in 1 .. n : ranked[i] \notin S} \cup {n + 1}
  <2>1. {i \in 1 .. n : ranked[i] \notin S} \cup {n + 1} \in SUBSET Nat
    OBVIOUS
  <2> QED
    BY <2>1
<1>5. PICK b \in weak : \A i \in weak : b <= i
  <2>1. weak # {}
    BY <1>4
  <2> QED
    BY <2>1, LeastOf
<1>6. PICK k \in 0 .. n : b = k + 1
  BY <1>4, <1>5
<1>7. \A i \in 1 .. n : ranked[i] \in S <=> i <= k
  <2>1. ASSUME NEW i \in 1 .. n, i <= k PROVE ranked[i] \in S
    BY <1>4, <1>5, <1>6, <2>1
  <2>2. ASSUME NEW i \in 1 .. n, ~(i <= k) PROVE ranked[i] \notin S
    <3>1. b \in 1 .. n /\ b <= i /\ ranked[b] \notin S
      BY <1>4, <1>5, <1>6, <2>2
    <3>2. scores[ranked[b]] \in Nat /\ scores[ranked[i]] \in Nat /\ MinScore \in Nat
      BY <1>3, <3>1, Settings
    <3>3. ~(scores[ranked[b]] >= MinScore) /\ scores[ranked[b]] >= scores[ranked[i]]
      BY <1>1, <1>3, <3>1
    <3> QED
      BY <1>3, <3>2, <3>3
  <2> QED
    BY <2>1, <2>2
<1>8. PICK g : g = [i \in 1 .. k |-> ranked[i]]
  OBVIOUS
<1>9. g \in Bijection(1 .. k, S)
  <2>1. g \in [1 .. k -> S]
    BY <1>6, <1>7, <1>8
  <2>2. \A i, j \in 1 .. k : g[i] = g[j] => i = j
    BY <1>1, <1>6, <1>8
  <2>3. \A t \in S : \E i \in 1 .. k : g[i] = t
    BY <1>1, <1>3, <1>7, <1>8
  <2> QED
    BY <2>1, <2>2, <2>3 DEF Bijection, Injection, Surjection, IsInjective
<1>10. Cardinality(S) = k
  <2>1. IsFiniteSet(1 .. k) /\ Cardinality(1 .. k) = k
    BY FS_Interval
  <2>2. ExistsBijection(1 .. k, S)
    BY <1>9 DEF ExistsBijection
  <2> QED
    BY <2>1, <2>2, FS_Bijection
<1> QED
  BY <1>1, <1>2, <1>7, <1>10

Chosen == [name : TableName, score : Nat, via : {"hybrid", "fk-expansion"}]

(* The best are the m first of the ranking: those that score enough, up to *)
(* TopK, or the single best guess.                                         *)
AreBest(best, m, ranked, scores) ==
    /\ best \in Seq(Chosen) /\ Len(best) = m /\ m \in 0 .. Len(ranked)
    /\ \A i \in 1 .. m : best[i] = Retrieved(ranked[i], scores[ranked[i]], "hybrid")
    /\ Len(ranked) > 0 =>
          LET k == Cardinality(Strong(scores))
          IN  m = IF k = 0 THEN 1 ELSE IF TopK <= k THEN TopK ELSE k

(* Best yields just them. *)
LEMMA BestIs ==
    ASSUME NEW D \in SUBSET TableName, NEW scores \in [D -> Nat], NEW ranked \in Rankings(scores)
    PROVE  \E m \in Nat : AreBest(Best(ranked, scores), m, ranked, scores)
<1>1. PICK n \in Nat : n = Len(ranked) /\ ranked \in Seq(D)
  <2>1. ranked \in Seq(D) /\ Len(ranked) \in Nat
    BY RankingIs
  <2> QED
    BY <2>1
<1>2. PICK k \in Nat : k = Cardinality(Strong(scores))
  <2>1. Cardinality(Strong(scores)) \in 0 .. n
    BY <1>1, StrongFirst
  <2> QED
    BY <2>1
<1>3. k <= n /\ \A i \in 1 .. n : ranked[i] \in Strong(scores) <=> i <= k
  BY <1>1, <1>2, StrongFirst
<1>4. PICK top \in Nat \ {0} : top = TopK
  BY Settings
<1>5. PICK first \in Seq(D), l \in Nat :
         /\ first = AtMost(ranked, top) /\ l = Len(first) /\ l = IF top <= n THEN top ELSE n
         /\ \A i \in 1 .. l : first[i] = ranked[i]
  <2>1. /\ AtMost(ranked, top) \in Seq(D)
        /\ Len(AtMost(ranked, top)) = IF top <= n THEN top ELSE n
        /\ \A i \in 1 .. Len(AtMost(ranked, top)) : AtMost(ranked, top)[i] = ranked[i]
    BY <1>1, AtMostIs
  <2> QED
    BY <2>1
<1>6. PICK j \in 0 .. l : j = IF k <= l THEN k ELSE l
  BY <1>2, <1>5
<1>7. \A i \in 1 .. l : first[i] \in Strong(scores) <=> i <= j
  BY <1>3, <1>5, <1>6
<1>8. PICK good \in Seq(D) : /\ good = Among(AtMost(ranked, TopK), Strong(scores))
                             /\ good = SubSeq(first, 1, j) /\ Len(good) = j
                             /\ \A i \in 1 .. j : good[i] = ranked[i]
  <2>1. Among(first, Strong(scores)) = SubSeq(first, 1, j)
    BY <1>5, <1>6, <1>7, AmongFirst
  <2>2. \A i \in 1 .. j : first[i] \in D /\ first[i] = ranked[i]
    <3>1. \A i \in 1 .. l : first[i] \in D
      BY <1>5, ElementsOf
    <3> QED
      BY <1>5, <1>6, <3>1
  <2>3. /\ SubSeq(first, 1, j) \in Seq(D)
        /\ Len(SubSeq(first, 1, j)) = IF 1 <= j THEN j - 1 + 1 ELSE 0
        /\ \A i \in 1 .. j - 1 + 1 : SubSeq(first, 1, j)[i] = first[1 + i - 1]
    BY <2>2, SubSeqProperties
  <2>4. j \in Nat /\ j - 1 + 1 = j /\ (~(1 <= j) => j = 0) /\ \A i \in 1 .. j : 1 + i - 1 = i
    BY <1>6
  <2>5. SubSeq(first, 1, j) \in Seq(D) /\ Len(SubSeq(first, 1, j)) = j
    BY <2>3, <2>4
  <2>6. \A i \in 1 .. j : SubSeq(first, 1, j)[i] = ranked[i]
    BY <2>2, <2>3, <2>4
  <2>7. Among(AtMost(ranked, TopK), Strong(scores)) = SubSeq(first, 1, j)
    BY <1>4, <1>5, <2>1
  <2> QED
    BY <2>5, <2>6, <2>7
<1>9. PICK one \in Seq(D) : /\ one = AtMost(ranked, 1) /\ Len(one) = IF 1 <= n THEN 1 ELSE 0
                            /\ \A i \in 1 .. Len(one) : one[i] = ranked[i]
  <2>1. /\ AtMost(ranked, 1) \in Seq(D)
        /\ Len(AtMost(ranked, 1)) = IF 1 <= n THEN 1 ELSE 0
        /\ \A i \in 1 .. Len(AtMost(ranked, 1)) : AtMost(ranked, 1)[i] = ranked[i]
    <3>1. PICK u \in Nat : u = 1
      OBVIOUS
    <3>2. /\ AtMost(ranked, u) \in Seq(D)
          /\ Len(AtMost(ranked, u)) = IF u <= n THEN u ELSE n
          /\ \A i \in 1 .. Len(AtMost(ranked, u)) : AtMost(ranked, u)[i] = ranked[i]
      BY <1>1, AtMostIs
    <3> QED
      BY <3>1, <3>2
  <2> QED
    BY <2>1
<1>10. PICK chosen \in Seq(D), m \in Nat :
          /\ chosen = IF good = <<>> THEN one ELSE good
          /\ m = Len(chosen) /\ \A i \in 1 .. m : chosen[i] = ranked[i]
          /\ m = IF j = 0 THEN (IF 1 <= n THEN 1 ELSE 0) ELSE j
  <2>1. good = <<>> <=> j = 0
    <3>1. good \in Seq(D) /\ Len(good) = j
      BY <1>8
    <3> QED
      BY <3>1
  <2>2. CASE j = 0
    BY <1>9, <2>1, <2>2
  <2>3. CASE j # 0
    BY <1>6, <1>8, <2>1, <2>3
  <2> QED
    BY <2>2, <2>3
<1>11. m <= n /\ (n > 0 => m = IF k = 0 THEN 1 ELSE IF top <= k THEN top ELSE k)
  BY <1>3, <1>4, <1>5, <1>6, <1>10
<1>12. PICK best : best = [i \in 1 .. m |-> Retrieved(ranked[i], scores[ranked[i]], "hybrid")]
  OBVIOUS
<1>13. Best(ranked, scores) = best
  <2>1. DOMAIN chosen = 1 .. m
    BY <1>10
  <2>2. [i \in DOMAIN chosen |-> Retrieved(chosen[i], scores[chosen[i]], "hybrid")] = best
    BY <1>10, <1>12, <2>1
  <2> QED
    BY <1>8, <1>9, <1>10, <2>2 DEF Best, Strong
<1>14. best \in Seq(Chosen) /\ Len(best) = m
  <2>1. ASSUME NEW i \in 1 .. m PROVE best[i] \in Chosen
    <3>1. ranked[i] \in D
      BY <1>1, <1>11
    <3>2. ranked[i] \in TableName /\ scores[ranked[i]] \in Nat
      BY <3>1
    <3> QED
      BY <1>12, <3>2 DEF Retrieved, Chosen
  <2>2. best \in [1 .. m -> Chosen]
    BY <1>12, <2>1
  <2> QED
    BY <2>2
<1>15. \A i \in 1 .. m : best[i] = Retrieved(ranked[i], scores[ranked[i]], "hybrid")
  BY <1>12
<1>16. AreBest(best, m, ranked, scores)
  BY <1>1, <1>2, <1>4, <1>11, <1>14, <1>15 DEF AreBest
<1> QED
  BY <1>13, <1>16

Distinct(selection) ==
    \A i, j \in 1 .. Len(selection) : selection[i].name = selection[j].name => i = j

(* What following foreign keys makes of the best. *)
Extends(selection, best) ==
    /\ selection \in Seq(Chosen) /\ Distinct(selection)
    /\ Len(best) <= Len(selection) /\ \A i \in 1 .. Len(best) : selection[i] = best[i]
    /\ \A i \in 1 .. Len(selection) : i > Len(best) => selection[i].via = "fk-expansion"
    /\ Len(selection) <= MaxTables \/ Len(selection) = Len(best)

Served(selection, p, scores) ==
    \A u \in Neighbours(p.name) :
        Useful(p.name, u, scores) => u \in NamesOf(selection) \/ Len(selection) >= MaxTables

(* One table brings its useful neighbours, none that has been chosen, and  *)
(* no more than there is room for.                                         *)
LEMMA JoinedIs ==
    ASSUME snapshot \subseteq TableName, NEW best \in Seq(Chosen), NEW scores,
           NEW sofar, Extends(sofar, best), NEW p \in Chosen
    PROVE  /\ Extends(Joined(sofar, p, scores), best)
           /\ Served(Joined(sofar, p, scores), p, scores)
           /\ \A q : Served(sofar, q, scores) => Served(Joined(sofar, p, scores), q, scores)
<1>1. PICK n \in Nat, b \in Nat, max \in Nat :
         n = Len(sofar) /\ b = Len(best) /\ max = MaxTables /\ sofar \in Seq(Chosen) /\ b <= n
  BY Settings DEF Extends
<1>2. PICK U \in SUBSET TableName :
         U = {u \in Neighbours(p.name) \ NamesOf(sofar) : Useful(p.name, u, scores)}
  <2>1. {u \in Neighbours(p.name) \ NamesOf(sofar) : Useful(p.name, u, scores)}
           \in SUBSET TableName
    BY DEF Neighbours
  <2> QED
    BY <2>1
<1>3. ByName \in Seq(TableName) /\ ToSet(ByName) = TableName
  BY SelectionAssumption
<1>4. PICK new, f : /\ new \in Seq(TableName) /\ new = Among(ByName, U)
                    /\ PlacesOf(f, new, ByName, U, Len(ByName))
  BY <1>3, AmongPlaces
<1>5. PICK l \in Nat : l = Len(new)
  BY <1>4
<1>6. /\ \A i \in 1 .. l : new[i] \in U
      /\ \A i, j \in 1 .. l : new[i] = new[j] => i = j
      /\ \A u \in U : \E i \in 1 .. l : new[i] = u
  <2>1. PICK w \in Nat : w = Len(ByName)
    BY <1>3
  <2>2. /\ f \in [1 .. l -> 1 .. w]
        /\ \A i \in 1 .. l : new[i] = ByName[f[i]] /\ ByName[f[i]] \in U
        /\ \A i, j \in 1 .. l : i < j => f[i] < f[j]
        /\ \A k \in 1 .. w : ByName[k] \in U => \E i \in 1 .. l : f[i] = k
    BY <1>4, <1>5, <2>1 DEF PlacesOf
  <2>3. ASSUME NEW i \in 1 .. l, NEW j \in 1 .. l, new[i] = new[j] PROVE i = j
    <3>1. f[i] = f[j]
      BY <2>1, <2>2, <2>3, Settings
    <3> QED
      BY <2>2, <3>1, IncreasingTellsApart
  <2>4. ASSUME NEW u \in U PROVE \E i \in 1 .. l : new[i] = u
    <3>1. PICK k \in 1 .. w : ByName[k] = u
      BY <1>3, <2>1 DEF ToSet
    <3> QED
      BY <2>2, <3>1
  <2> QED
    BY <2>2, <2>3, <2>4
<1>7. PICK room \in Nat : /\ room = Max({0, MaxTables - Len(sofar)})
                          /\ room = IF n <= max THEN max - n ELSE 0
  <2>1. Max({0, max - n}) = IF 0 >= max - n THEN 0 ELSE max - n
    <3>1. 0 \in Int /\ max - n \in Int
      OBVIOUS
    <3> QED
      BY <3>1, OfTwo
  <2> QED
    BY <1>1, <2>1
<1>8. PICK more \in Seq(TableName), m \in Nat :
         /\ more = AtMost(new, room) /\ m = Len(more) /\ m = IF room <= l THEN room ELSE l
         /\ \A i \in 1 .. m : more[i] = new[i]
  <2>1. /\ AtMost(new, room) \in Seq(TableName)
        /\ Len(AtMost(new, room)) = IF room <= l THEN room ELSE l
        /\ \A i \in 1 .. Len(AtMost(new, room)) : AtMost(new, room)[i] = new[i]
    BY <1>4, <1>5, AtMostIs
  <2> QED
    BY <1>5, <2>1
<1>9. PICK brought : brought = [i \in 1 .. m |-> Retrieved(new[i], p.score \div 2, "fk-expansion")]
  OBVIOUS
<1>10. brought = Brought(p, new, sofar)
  <2>1. DOMAIN more = 1 .. m
    BY <1>8, ElementsOf
  <2>2. [i \in DOMAIN more |-> Retrieved(more[i], p.score \div 2, "fk-expansion")] = brought
    BY <1>8, <1>9, <2>1
  <2> QED
    BY <1>7, <1>8, <2>2 DEF Brought
<1>11. \A i \in 1 .. m : /\ brought[i] \in Chosen /\ brought[i].name = new[i]
                         /\ brought[i].via = "fk-expansion" /\ i \in 1 .. l
  <2>1. p.score \in Nat /\ p.score \div 2 \in Nat
    BY DEF Chosen
  <2>2. PICK half \in Nat : half = p.score \div 2
    BY <2>1
  <2>3. ASSUME NEW i \in 1 .. m
        PROVE  /\ brought[i] \in Chosen /\ brought[i].name = new[i]
               /\ brought[i].via = "fk-expansion" /\ i \in 1 .. l
    <3>1. i \in 1 .. l
      BY <1>8
    <3>2. new[i] \in TableName
      BY <1>6, <3>1
    <3>3. brought[i] = [name |-> new[i], score |-> half, via |-> "fk-expansion"]
      BY <1>9, <2>2 DEF Retrieved
    <3> QED
      BY <3>1, <3>2, <3>3 DEF Chosen
  <2> QED
    BY <2>3
<1>12. brought \in Seq(Chosen) /\ Len(brought) = m
  <2>1. brought \in [1 .. m -> Chosen]
    BY <1>9, <1>11
  <2> QED
    BY <2>1
<1>13. PICK j \in Seq(Chosen) : j = Joined(sofar, p, scores) /\ j = sofar \o brought
  <2>1. sofar \o brought \in Seq(Chosen)
    BY <1>1, <1>12
  <2>2. Joined(sofar, p, scores) = sofar \o brought
    BY <1>2, <1>4, <1>10 DEF Joined
  <2> QED
    BY <2>1, <2>2
<1>14. /\ Len(j) = n + m /\ \A i \in 1 .. n : j[i] = sofar[i]
       /\ \A i \in 1 .. m : j[n + i] = brought[i]
  <2>1. sofar \in Seq(Chosen) /\ brought \in Seq(Chosen) /\ n = Len(sofar) /\ m = Len(brought)
    BY <1>1, <1>12
  <2> QED
    BY <1>13, <2>1, ConcatParts
<1>15. \A i \in 1 .. n + m : i \in 1 .. n \/ (i - n \in 1 .. m /\ i = n + (i - n))
  OBVIOUS
<1>16. NamesOf(sofar) = {sofar[i].name : i \in 1 .. n} /\ NamesOf(j) = {j[i].name : i \in 1 .. n + m}
  <2>1. DOMAIN sofar = 1 .. n /\ DOMAIN j = 1 .. n + m
    BY <1>1, <1>13, <1>14, ElementsOf
  <2> QED
    BY <2>1 DEF NamesOf
<1>17. Extends(j, best)
  <2>1. Distinct(j)
    <3>1. ASSUME NEW i \in 1 .. n + m, NEW k \in 1 .. n + m, j[i].name = j[k].name, i < k
          PROVE  FALSE
      <4>1. CASE k \in 1 .. n
        <5>1. i \in 1 .. n /\ sofar[i].name = sofar[k].name
          BY <1>14, <3>1, <4>1
        <5>2. i = k
          BY <1>1, <4>1, <5>1 DEF Extends, Distinct
        <5> QED
          BY <3>1, <5>2
      <4>2. CASE ~(k \in 1 .. n)
        <5>1. PICK kk \in 1 .. m : k = n + kk
          BY <1>15, <4>2
        <5>2. j[k].name = new[kk] /\ new[kk] \in U /\ kk \in 1 .. l
          BY <1>6, <1>11, <1>14, <5>1
        <5>3. CASE i \in 1 .. n
          <6>1. j[i].name \in NamesOf(sofar)
            BY <1>14, <1>16, <5>3
          <6> QED
            BY <1>2, <3>1, <5>2, <6>1
        <5>4. CASE ~(i \in 1 .. n)
          <6>1. PICK ii \in 1 .. m : i = n + ii
            BY <1>15, <5>4
          <6>2. j[i].name = new[ii] /\ ii \in 1 .. l
            BY <1>11, <1>14, <6>1
          <6>3. ii = kk
            BY <1>6, <3>1, <5>2, <6>2
          <6> QED
            BY <3>1, <5>1, <6>1, <6>3
        <5> QED
          BY <5>3, <5>4
      <4> QED
        BY <4>1, <4>2
    <3>2. ASSUME NEW i \in 1 .. n + m, NEW k \in 1 .. n + m, j[i].name = j[k].name PROVE i = k
      <4>1. ~(i < k) /\ ~(k < i)
        BY <3>1, <3>2
      <4> QED
        BY <4>1
    <3> QED
      BY <1>14, <3>2 DEF Distinct
  <2>2. b <= n + m /\ \A i \in 1 .. b : j[i] = best[i]
    <3>1. \A i \in 1 .. b : i \in 1 .. n /\ sofar[i] = best[i]
      BY <1>1 DEF Extends
    <3> QED
      BY <1>1, <1>14, <3>1
  <2>3. \A i \in 1 .. n + m : i > b => j[i].via = "fk-expansion"
    <3>1. \A i \in 1 .. n : i > b => sofar[i].via = "fk-expansion"
      BY <1>1 DEF Extends
    <3>2. \A i \in 1 .. m : j[n + i].via = "fk-expansion"
      BY <1>11, <1>14
    <3> QED
      BY <1>14, <1>15, <3>1, <3>2
  <2>4. n + m <= max \/ n + m = b
    <3>1. n <= max \/ n = b
      BY <1>1 DEF Extends
    <3> QED
      BY <1>7, <1>8, <3>1
  <2> QED
    BY <1>1, <1>13, <1>14, <2>1, <2>2, <2>3, <2>4 DEF Extends
<1>18. NamesOf(sofar) \subseteq NamesOf(j)
  BY <1>14, <1>16
<1>19. Served(j, p, scores)
  <2>1. ASSUME NEW u \in U PROVE u \in NamesOf(j) \/ n + m >= max
    <3>1. PICK i \in 1 .. l : new[i] = u
      BY <1>6
    <3>2. CASE i \in 1 .. m
      <4>1. j[n + i].name = u
        BY <1>11, <1>14, <3>1, <3>2
      <4>2. n + i \in 1 .. n + m
        BY <3>2
      <4> QED
        BY <1>16, <4>1, <4>2
    <3>3. CASE ~(i \in 1 .. m)
      BY <1>7, <1>8, <3>3
    <3> QED
      BY <3>2, <3>3
  <2>2. Len(j) = n + m
    BY <1>14
  <2> QED
    BY <1>1, <1>2, <1>18, <2>1, <2>2 DEF Served
<1>20. ASSUME NEW q, Served(sofar, q, scores) PROVE Served(j, q, scores)
  <2>1. n >= max => n + m >= max
    OBVIOUS
  <2>2. Len(j) = n + m
    BY <1>14
  <2> QED
    BY <1>1, <1>18, <1>20, <2>1, <2>2 DEF Served
<1> QED
  BY <1>13, <1>17, <1>19, <1>20

(* What Expand has after each table that it follows. *)
Expands(h, best, scores, V) ==
    LET path == Known(best)
    IN  /\ h \in [0 .. Len(path) -> V]
        /\ h[0] = best
        /\ \A i \in 1 .. Len(path) : h[i] = Joined(h[i - 1], path[i], scores)
        /\ Expand(best, scores) = h[Len(path)]

(* They are the steps of the fold that defines it. *)
LEMMA ExpandSteps ==
    ASSUME NEW best, NEW scores, NEW V, best \in V, Known(best) \in Seq(Chosen),
           \A v \in V, p \in Chosen : Joined(v, p, scores) \in V
    PROVE  \E h : Expands(h, best, scores, V)
<1> DEFINE path == Known(best)
           n == Len(path)
           step == [p \in (1 .. n) \X V |-> Joined(p[2], path[p[1]], scores)]
           Is(g) == g = [S \in SUBSET (DOMAIN path) |->
                           IF S = {} THEN best
                           ELSE Joined(g[S \ {Max(S)}], path[Max(S)], scores)]
           fold == CHOOSE g : Is(g)
<1>1. Expand(best, scores) = fold[DOMAIN path]
  BY DEF Expand, FoldLeft, MapThenFoldSet
<1>2. /\ n \in Nat /\ DOMAIN path = 1 .. n
      /\ \A i \in 1 .. n : path[i] \in Chosen
  <2> HIDE DEF path
  <2>1. path \in Seq(Chosen)
    BY DEF path
  <2> QED
    BY <2>1, ElementsOf
<1> HIDE DEF path, n
<1>3. /\ step \in [(1 .. n) \X V -> V]
      /\ \A i \in 1 .. n, v \in V : step[<<i, v>>] = Joined(v, path[i], scores)
  <2>1. \A i \in 1 .. n, v \in V : Joined(v, path[i], scores) \in V
    BY <1>2
  <2> QED
    BY <2>1
<1> HIDE DEF step
<1>4. PICK g \in [SUBSET (1 .. n) -> V] : Solves(g, best, step, n)
  BY <1>2, <1>3, FoldSolution
<1>5. \A S \in SUBSET (1 .. n) : S # {} => Max(S) \in 1 .. n
  BY <1>2, LargestUpTo
<1>6. Is(g)
  <2>1. ASSUME NEW S \in SUBSET (1 .. n), S # {}
        PROVE  g[S] = Joined(g[S \ {Max(S)}], path[Max(S)], scores)
    <3>1. Max(S) \in 1 .. n /\ g[S \ {Max(S)}] \in V
      BY <1>5, <2>1
    <3>2. g[S] = step[<<Max(S), g[S \ {Max(S)}]>>]
      BY <1>4, <2>1 DEF Solves
    <3> QED
      BY <1>3, <3>1, <3>2
  <2>2. g[{}] = best
    BY <1>4 DEF Solves
  <2> QED
    BY <1>2, <2>1, <2>2
<1>7. Is(fold)
  <2> HIDE DEF Is
  <2> QED
    BY <1>6
<1> HIDE DEF fold
<1>8. SolvesIn(V, fold, best, step, n)
  <2>1. \A S \in SUBSET (1 .. n) :
           fold[S] = IF S = {} THEN best ELSE Joined(fold[S \ {Max(S)}], path[Max(S)], scores)
    BY <1>2, <1>7
  <2>2. fold = [S \in SUBSET (1 .. n) |-> fold[S]]
    BY <1>2, <1>7
  <2> QED
    BY <1>3, <1>5, <2>1, <2>2 DEF SolvesIn
<1>9. PICK h \in [0 .. n -> V] : Reaches(h, fold, best, step, n)
  BY <1>2, <1>3, <1>8, FoldSteps
<1>10. \A i \in 1 .. n : h[i] = Joined(h[i - 1], path[i], scores)
  <2>1. \A i \in 1 .. n : h[i - 1] \in V /\ h[i] = step[<<i, h[i - 1]>>]
    <3>1. \A i \in 1 .. n : i - 1 \in 0 .. n
      BY <1>2
    <3>2. \A i \in 1 .. n : h[i] = step[<<i, h[i - 1]>>]
      BY <1>9 DEF Follows, Reaches
    <3> QED
      BY <1>9, <3>1, <3>2
  <2> QED
    BY <1>3, <2>1
<1> QED
  BY <1>1, <1>2, <1>9, <1>10 DEF path, n, Follows, Reaches, Expands

(* The tables of a selection that the snapshot knows, in their order and   *)
(* all of them.                                                            *)
LEMMA KnownIs ==
    ASSUME NEW selection \in Seq(Chosen), Distinct(selection)
    PROVE  /\ Known(selection) \in Seq(Chosen) /\ Distinct(Known(selection))
           /\ NamesOf(Known(selection)) = NamesOf(selection) \cap snapshot
           /\ \A p \in ToSet(selection) : p.name \in snapshot =>
                 \E i \in 1 .. Len(Known(selection)) : Known(selection)[i] = p
<1>1. PICK W : W = {p \in ToSet(selection) : p.name \in snapshot}
  OBVIOUS
<1>2. PICK known, f : /\ known \in Seq(Chosen) /\ known = Known(selection)
                      /\ PlacesOf(f, known, selection, W, Len(selection))
  BY <1>1, AmongPlaces DEF Known
<1>3. PICK n \in Nat, l \in Nat : n = Len(selection) /\ l = Len(known)
  BY <1>2
<1>4. DOMAIN selection = 1 .. n /\ DOMAIN known = 1 .. l
  BY <1>2, <1>3, ElementsOf
<1>5. /\ f \in [1 .. l -> 1 .. n]
      /\ \A i \in 1 .. l : known[i] = selection[f[i]] /\ selection[f[i]] \in W
      /\ \A i, j \in 1 .. l : i < j => f[i] < f[j]
      /\ \A k \in 1 .. n : selection[k] \in W => \E i \in 1 .. l : f[i] = k
  BY <1>2, <1>3 DEF PlacesOf
<1>6. \A i, j \in 1 .. l : known[i].name = known[j].name => i = j
  <2>1. ASSUME NEW i \in 1 .. l, NEW j \in 1 .. l, known[i].name = known[j].name PROVE i = j
    <3>1. f[i] \in 1 .. n /\ f[j] \in 1 .. n
      BY <1>5
    <3>2. f[i] = f[j]
      BY <1>3, <1>5, <2>1, <3>1 DEF Distinct
    <3> QED
      BY <1>5, <3>2, IncreasingTellsApart
  <2> QED
    BY <2>1
<1>7. \A k \in 1 .. n : selection[k] \in W <=> selection[k].name \in snapshot
  BY <1>1, <1>4 DEF ToSet
<1>8. \A p \in ToSet(selection) : p.name \in snapshot => \E i \in 1 .. l : known[i] = p
  <2>1. ASSUME NEW p \in ToSet(selection), p.name \in snapshot
        PROVE  \E i \in 1 .. l : known[i] = p
    <3>1. PICK k \in 1 .. n : selection[k] = p
      BY <1>4 DEF ToSet
    <3>2. PICK i \in 1 .. l : f[i] = k
      BY <1>5, <1>7, <2>1, <3>1
    <3> QED
      BY <1>5, <3>1, <3>2
  <2> QED
    BY <2>1
<1>9. NamesOf(known) = NamesOf(selection) \cap snapshot
  <2>1. NamesOf(known) = {known[i].name : i \in 1 .. l}
    BY <1>4 DEF NamesOf
  <2>2. NamesOf(selection) = {selection[i].name : i \in 1 .. n}
    BY <1>4 DEF NamesOf
  <2>3. ASSUME NEW i \in 1 .. l PROVE known[i].name \in NamesOf(selection) \cap snapshot
    <3>1. f[i] \in 1 .. n /\ known[i] = selection[f[i]] /\ selection[f[i]] \in W
      BY <1>5
    <3> QED
      BY <1>7, <2>2, <3>1
  <2>4. ASSUME NEW k \in 1 .. n, selection[k].name \in snapshot
        PROVE  selection[k].name \in NamesOf(known)
    <3>1. PICK i \in 1 .. l : f[i] = k
      BY <1>5, <1>7, <2>4
    <3>2. known[i] = selection[k]
      BY <1>5, <3>1
    <3> QED
      BY <2>1, <3>2
  <2> QED
    BY <2>1, <2>2, <2>3, <2>4
<1> QED
  BY <1>2, <1>3, <1>6, <1>8, <1>9 DEF Distinct

(* Following foreign keys keeps the best in front and chooses no table     *)
(* twice, and every match that the snapshot knows is served.               *)
LEMMA ExpandIs ==
    ASSUME snapshot \subseteq TableName, NEW best \in Seq(Chosen), Distinct(best), NEW scores
    PROVE  /\ Extends(Expand(best, scores), best)
           /\ \A p \in ToSet(best) :
                 p.name \in snapshot => Served(Expand(best, scores), p, scores)
<1>1. PICK V : V = {selection \in Seq(Chosen) : Extends(selection, best)}
  OBVIOUS
<1>2. PICK path \in Seq(Chosen), n \in Nat : path = Known(best) /\ n = Len(path)
  BY KnownIs
<1>3. best \in V
  BY <1>1 DEF Extends
<1>4. \A v \in V, p \in Chosen : Joined(v, p, scores) \in V
  <2>1. ASSUME NEW v \in V, NEW p \in Chosen PROVE Joined(v, p, scores) \in V
    <3>1. Extends(Joined(v, p, scores), best)
      BY <1>1, JoinedIs
    <3> QED
      BY <1>1, <3>1 DEF Extends
  <2> QED
    BY <2>1
<1>5. PICK h : Expands(h, best, scores, V)
  BY <1>2, <1>3, <1>4, ExpandSteps
<1>6. /\ h \in [0 .. n -> V]
      /\ \A i \in 1 .. n : h[i] = Joined(h[i - 1], path[i], scores)
      /\ Expand(best, scores) = h[n]
  BY <1>2, <1>5 DEF Expands
<1>7. \A i \in 1 .. n : path[i] \in Chosen
  BY <1>2, ElementsOf
<1> DEFINE Good == {k \in 0 .. n : \A i \in 1 .. k : Served(h[k], path[i], scores)}
<1>8. 0 \in Good
  OBVIOUS
<1>9. ASSUME NEW k \in 0 .. n, k < n, k \in Good PROVE k + 1 \in Good
  <2>1. PICK m \in 1 .. n : m = k + 1 /\ m - 1 = k
    BY <1>9
  <2>2. PICK v \in V, p \in Chosen : v = h[k] /\ p = path[m]
    BY <1>6, <1>7
  <2>3. h[m] = Joined(v, p, scores)
    BY <1>6, <2>1, <2>2
  <2>4. Extends(v, best)
    BY <1>1
  <2>5. /\ Served(Joined(v, p, scores), p, scores)
        /\ \A q : Served(v, q, scores) => Served(Joined(v, p, scores), q, scores)
    BY <2>4, JoinedIs
  <2>6. ASSUME NEW i \in 1 .. m PROVE Served(h[m], path[i], scores)
    <3>1. i = m \/ i \in 1 .. k
      BY <2>1
    <3> QED
      BY <1>9, <2>2, <2>3, <2>5, <3>1
  <2> QED
    BY <2>1, <2>6
<1>10. n \in Good
  <2> HIDE DEF Good
  <2>1. \A k \in 0 .. n : k \in Good
    BY <1>8, <1>9, UpTo
  <2> QED
    BY <2>1
<1>11. Extends(h[n], best)
  BY <1>1, <1>6
<1>12. ASSUME NEW p \in ToSet(best), p.name \in snapshot PROVE Served(h[n], p, scores)
  <2>1. PICK i \in 1 .. n : path[i] = p
    BY <1>2, <1>12, KnownIs
  <2> QED
    BY <1>10, <2>1
<1> QED
  BY <1>6, <1>11, <1>12

(* The names of a selection that repeats none are as many as its tables. *)
LEMMA NamesCount ==
    ASSUME NEW selection \in Seq(Chosen), NEW n, n = Len(selection), Distinct(selection)
    PROVE  /\ NamesOf(selection) \subseteq TableName
           /\ Cardinality(NamesOf(selection)) = n /\ n <= Cardinality(TableName)
<1>1. n \in Nat /\ DOMAIN selection = 1 .. n /\ \A i \in 1 .. n : selection[i] \in Chosen
  BY ElementsOf
<1>2. PICK names : names = [i \in 1 .. n |-> selection[i].name]
  OBVIOUS
<1>3. names \in [1 .. n -> TableName]
  BY <1>1, <1>2 DEF Chosen
<1>4. names \in Seq(TableName) /\ Len(names) = n /\ DOMAIN names = 1 .. n
  BY <1>1, <1>3
<1>5. ToSet(names) = NamesOf(selection)
  BY <1>1, <1>2, <1>4 DEF ToSet, NamesOf
<1>6. \A i, j \in 1 .. n : names[i] = names[j] => i = j
  BY <1>2 DEF Distinct
<1>7. Cardinality(NamesOf(selection)) = n
  BY <1>4, <1>5, <1>6, SequenceCount
<1>8. NamesOf(selection) \subseteq TableName
  BY <1>3, <1>4, <1>5 DEF ToSet
<1>9. Cardinality(NamesOf(selection)) <= Cardinality(TableName)
  BY <1>8, Settings, FS_Subset
<1> QED
  BY <1>7, <1>8, <1>9

Words == Alias \cup {<<Initials[t], n>> : t \in TableName, n \in Nat}

(* There always is an alias, and it is nobody else's: of Cardinality(taken) *)
(* + 1 numbers one is free.                                                 *)
LEMMA SafeAliasIs ==
    ASSUME NEW t \in TableName, NEW taken, IsFiniteSet(taken)
    PROVE  /\ SafeAlias(t, taken) \in Words /\ SafeAlias(t, taken) \notin taken
           /\ Cardinality(taken) < Cardinality(TableName) => SafeAlias(t, taken) \notin Reserved
<1>1. PICK c \in Nat : c = Cardinality(taken)
  BY FS_CardinalityType
<1>2. PICK grown \in Seq(Alias), l \in Nat : grown = Growth[t] /\ l = Len(grown)
  BY SelectionAssumption
<1>3. DOMAIN grown = 1 .. l /\ \A i \in 1 .. l : grown[i] \in Alias
  BY <1>2, ElementsOf
<1>4. PICK free \in SUBSET Nat :
         /\ free = {i \in DOMAIN Growth[t] : Growth[t][i] \notin Reserved \cup taken}
         /\ \A i \in free : Growth[t][i] \in Alias /\ Growth[t][i] \notin Reserved \cup taken
  <2>1. {i \in DOMAIN Growth[t] : Growth[t][i] \notin Reserved \cup taken} \in SUBSET Nat
    BY <1>2, <1>3
  <2> QED
    BY <1>2, <1>3, <2>1
<1>5. PICK numbers \in SUBSET Nat :
         /\ numbers = {n \in 2 .. Cardinality(taken) + 2 : <<Initials[t], n>> \notin taken}
         /\ \A n \in numbers : n \in 2 .. c + 2 /\ <<Initials[t], n>> \notin taken
  <2>1. {n \in 2 .. c + 2 : <<Initials[t], n>> \notin taken} \in SUBSET Nat
    OBVIOUS
  <2> QED
    BY <1>1, <2>1
<1>6. numbers # {}
  <2>1. SUFFICES ASSUME \A n \in 2 .. c + 2 : <<Initials[t], n>> \in taken PROVE FALSE
    BY <1>1, <1>5
  <2>2. PICK f : f = [n \in 2 .. c + 2 |-> <<Initials[t], n>>]
    OBVIOUS
  <2>3. f \in Injection(2 .. c + 2, taken)
    BY <2>1, <2>2 DEF Injection, IsInjective
  <2>4. Cardinality(2 .. c + 2) <= c
    BY <1>1, <2>3, FS_Injection
  <2>5. Cardinality(2 .. c + 2) = c + 1
    <3>1. 2 \in Int /\ c + 2 \in Int /\ ~(2 > c + 2) /\ (c + 2) - 2 + 1 = c + 1
      OBVIOUS
    <3> QED
      BY <3>1, FS_Interval
  <2> QED
    BY <2>4, <2>5
<1>7. \A S \in SUBSET Nat : S # {} => Min(S) \in S
  BY LeastOf DEF Min
<1>8. SafeAlias(t, taken) = IF free # {} THEN Growth[t][Min(free)] ELSE <<Initials[t], Min(numbers)>>
  BY <1>4, <1>5 DEF SafeAlias
<1>9. CASE free # {}
  <2>1. PICK i \in free : i = Min(free)
    BY <1>7, <1>9
  <2>2. SafeAlias(t, taken) \in Alias /\ SafeAlias(t, taken) \notin Reserved \cup taken
    BY <1>4, <1>8, <1>9, <2>1
  <2> QED
    BY <2>2 DEF Words
<1>10. CASE free = {}
  <2>1. PICK n \in numbers : n = Min(numbers)
    BY <1>6, <1>7
  <2>2. /\ n \in 2 .. c + 2 /\ <<Initials[t], n>> \notin taken
        /\ SafeAlias(t, taken) = <<Initials[t], n>>
    BY <1>5, <1>8, <1>10, <2>1
  <2>3. ASSUME c < Cardinality(TableName) PROVE <<Initials[t], n>> \notin Reserved
    <3>1. n \in 2 .. Cardinality(TableName) + 1
      BY <2>2, <2>3, Settings
    <3> QED
      BY <3>1, SelectionAssumption
  <2>4. <<Initials[t], n>> \in Words
    BY <2>2 DEF Words
  <2> QED
    BY <1>1, <2>2, <2>3, <2>4
<1> QED
  BY <1>9, <1>10

(* What Aliases has after each table. *)
Names(h, selection, V) ==
    LET path == Known(selection)
    IN  /\ h \in [0 .. Len(path) -> V]
        /\ h[0] = <<>>
        /\ \A i \in 1 .. Len(path) :
              h[i] = Append(h[i - 1], SafeAlias(path[i].name, ToSet(h[i - 1])))
        /\ Aliases(selection) = h[Len(path)]

(* They are the steps of the fold that defines it. *)
LEMMA AliasSteps ==
    ASSUME NEW selection, Known(selection) \in Seq(Chosen)
    PROVE  \E h : Names(h, selection, Seq(Words))
<1> DEFINE path == Known(selection)
           n == Len(path)
           V == Seq(Words)
           Next(v, i) == Append(v, SafeAlias(path[i].name, ToSet(v)))
           step == [p \in (1 .. n) \X V |-> Next(p[2], p[1])]
           Is(g) == g = [S \in SUBSET (DOMAIN path) |->
                           IF S = {} THEN <<>> ELSE Next(g[S \ {Max(S)}], Max(S))]
           fold == CHOOSE g : Is(g)
<1>1. Aliases(selection) = fold[DOMAIN path]
  BY DEF Aliases, FoldLeft, MapThenFoldSet
<1>2. /\ n \in Nat /\ DOMAIN path = 1 .. n
      /\ \A i \in 1 .. n : path[i].name \in TableName
  <2> HIDE DEF path
  <2>1. path \in Seq(Chosen)
    BY DEF path
  <2>2. n \in Nat /\ DOMAIN path = 1 .. n /\ \A i \in 1 .. n : path[i] \in Chosen
    BY <2>1, ElementsOf
  <2> QED
    BY <2>2 DEF Chosen
<1> HIDE DEF path, n
<1>3. /\ step \in [(1 .. n) \X V -> V] /\ <<>> \in V
      /\ \A i \in 1 .. n, v \in V : step[<<i, v>>] = Next(v, i)
  <2>1. \A i \in 1 .. n, v \in V : Next(v, i) \in V
    <3>1. ASSUME NEW i \in 1 .. n, NEW v \in V PROVE Next(v, i) \in V
      <4>1. PICK l : l = Len(v)
        OBVIOUS
      <4>2. IsFiniteSet(ToSet(v))
        BY <4>1, SequenceCount
      <4>3. SafeAlias(path[i].name, ToSet(v)) \in Words
        BY <1>2, <4>2, SafeAliasIs
      <4> QED
        BY <4>3
    <3> QED
      BY <3>1
  <2> HIDE DEF Next
  <2>2. <<>> \in V
    OBVIOUS
  <2> HIDE DEF V
  <2> QED
    BY <2>1, <2>2
<1> HIDE DEF step, Next, V
<1>4. PICK g \in [SUBSET (1 .. n) -> V] : Solves(g, <<>>, step, n)
  BY <1>2, <1>3, FoldSolution
<1>5. \A S \in SUBSET (1 .. n) : S # {} => Max(S) \in 1 .. n
  BY <1>2, LargestUpTo
<1>6. Is(g)
  <2>1. ASSUME NEW S \in SUBSET (1 .. n), S # {} PROVE g[S] = Next(g[S \ {Max(S)}], Max(S))
    <3>1. Max(S) \in 1 .. n /\ g[S \ {Max(S)}] \in V
      BY <1>5, <2>1
    <3>2. g[S] = step[<<Max(S), g[S \ {Max(S)}]>>]
      BY <1>4, <2>1 DEF Solves
    <3> QED
      BY <1>3, <3>1, <3>2
  <2>2. g[{}] = <<>>
    BY <1>4 DEF Solves
  <2> QED
    BY <1>2, <2>1, <2>2
<1>7. Is(fold)
  <2> HIDE DEF Is
  <2> QED
    BY <1>6
<1> HIDE DEF fold
<1>8. SolvesIn(V, fold, <<>>, step, n)
  <2>1. \A S \in SUBSET (1 .. n) :
           fold[S] = IF S = {} THEN <<>> ELSE Next(fold[S \ {Max(S)}], Max(S))
    BY <1>2, <1>7
  <2>2. fold = [S \in SUBSET (1 .. n) |-> fold[S]]
    BY <1>2, <1>7
  <2> QED
    BY <1>3, <1>5, <2>1, <2>2 DEF SolvesIn
<1>9. PICK h \in [0 .. n -> V] : Reaches(h, fold, <<>>, step, n)
  BY <1>2, <1>3, <1>8, FoldSteps
<1>10. \A i \in 1 .. n : h[i] = Next(h[i - 1], i)
  <2>1. \A i \in 1 .. n : h[i - 1] \in V /\ h[i] = step[<<i, h[i - 1]>>]
    <3>1. \A i \in 1 .. n : i - 1 \in 0 .. n
      BY <1>2
    <3>2. \A i \in 1 .. n : h[i] = step[<<i, h[i - 1]>>]
      BY <1>9 DEF Follows, Reaches
    <3> QED
      BY <1>9, <3>1, <3>2
  <2> QED
    BY <1>3, <2>1
<1> QED
  BY <1>1, <1>2, <1>9, <1>10 DEF path, n, V, Next, Follows, Reaches, Names

(* Every known table gets an alias, no two the same, and none reserved. *)
LEMMA AliasesAre ==
    ASSUME NEW selection \in Seq(Chosen), Distinct(selection)
    PROVE  /\ Len(Aliases(selection)) = Cardinality(NamesOf(selection) \cap snapshot)
           /\ Cardinality(ToSet(Aliases(selection))) = Len(Aliases(selection))
           /\ ToSet(Aliases(selection)) \cap Reserved = {}
<1>1. PICK path \in Seq(Chosen), n \in Nat :
         /\ path = Known(selection) /\ n = Len(path) /\ Distinct(path)
         /\ NamesOf(path) = NamesOf(selection) \cap snapshot
  BY KnownIs
<1>2. PICK h : Names(h, selection, Seq(Words))
  BY <1>1, AliasSteps
<1>3. /\ h \in [0 .. n -> Seq(Words)] /\ h[0] = <<>>
      /\ \A i \in 1 .. n : h[i] = Append(h[i - 1], SafeAlias(path[i].name, ToSet(h[i - 1])))
      /\ Aliases(selection) = h[n]
  BY <1>1, <1>2 DEF Names
<1>4. Cardinality(NamesOf(path)) = n /\ n <= Cardinality(TableName)
  BY <1>1, NamesCount
<1>5. \A i \in 1 .. n : path[i].name \in TableName
  <2>1. \A i \in 1 .. n : path[i] \in Chosen
    BY <1>1, ElementsOf
  <2> QED
    BY <2>1 DEF Chosen
<1> DEFINE Usable(v, k) == /\ Len(v) = k
                           /\ \A i, j \in 1 .. k : v[i] = v[j] => i = j
                           /\ \A i \in 1 .. k : v[i] \notin Reserved
           Good == {k \in 0 .. n : Usable(h[k], k)}
<1>6. 0 \in Good
  BY <1>3
<1>7. ASSUME NEW k \in 0 .. n, k < n, k \in Good PROVE k + 1 \in Good
  <2>1. PICK m \in 1 .. n : m = k + 1 /\ m - 1 = k
    BY <1>7
  <2>2. PICK v \in Seq(Words) : v = h[k] /\ Len(v) = k /\ Usable(v, k)
    BY <1>3, <1>7
  <2>3. IsFiniteSet(ToSet(v)) /\ Cardinality(ToSet(v)) \in 0 .. k
    BY <2>2, SequenceCount
  <2>4. Cardinality(ToSet(v)) < Cardinality(TableName)
    BY <1>4, <1>7, <2>3, Settings
  <2>5. PICK x \in Words : /\ x = SafeAlias(path[m].name, ToSet(v))
                           /\ x \notin ToSet(v) /\ x \notin Reserved
    BY <1>5, <2>3, <2>4, SafeAliasIs
  <2>6. h[m] = Append(v, x)
    BY <1>3, <2>1, <2>2, <2>5
  <2>7. PICK w \in Seq(Words) : w = h[m]
    <3>1. m \in 0 .. n
      OBVIOUS
    <3> QED
      BY <1>3, <3>1
  <2>8. Len(w) = k + 1 /\ w[k + 1] = x /\ \A i \in 1 .. k : w[i] = v[i]
    BY <2>2, <2>5, <2>6, <2>7, AppendProperties
  <2>9. \A i \in 1 .. k : v[i] \in ToSet(v)
    BY <2>2, ElementsOf DEF ToSet
  <2>10. \A i \in 1 .. k + 1 : i \in 1 .. k \/ i = k + 1
    OBVIOUS
  <2>11. \A i, j \in 1 .. k + 1 : w[i] = w[j] => i = j
    BY <2>2, <2>5, <2>8, <2>9, <2>10
  <2>12. \A i \in 1 .. k + 1 : w[i] \notin Reserved
    BY <2>2, <2>5, <2>8, <2>10
  <2> QED
    BY <2>1, <2>7, <2>8, <2>11, <2>12
<1>8. n \in Good
  <2> HIDE DEF Good
  <2>1. \A k \in 0 .. n : k \in Good
    BY <1>6, <1>7, UpTo
  <2> QED
    BY <2>1
<1>9. PICK v \in Seq(Words) : v = Aliases(selection) /\ Len(v) = n /\ Usable(v, n)
  BY <1>3, <1>8
<1>10. Cardinality(ToSet(v)) = n
  BY <1>9, SequenceCount
<1>11. ToSet(v) \cap Reserved = {}
  <2>1. DOMAIN v = 1 .. n
    BY <1>9, ElementsOf
  <2> QED
    BY <1>9, <2>1 DEF ToSet
<1> QED
  BY <1>1, <1>4, <1>9, <1>10, <1>11

(* The greatest of some percentages is one of them. *)
LEMMA GreatestPercent ==
    ASSUME NEW P \in SUBSET (0 .. 100), P # {}
    PROVE  Max(P) \in P /\ \A x \in P : Max(P) >= x
<1>1. PICK rest \in SUBSET Nat : rest = {100 - x : x \in P}
  <2>1. {100 - x : x \in P} \in SUBSET Nat
    OBVIOUS
  <2> QED
    BY <2>1
<1>2. PICK least \in rest : \A y \in rest : least <= y
  <2>1. rest # {}
    BY <1>1
  <2> QED
    BY <2>1, LeastOf
<1>3. PICK x \in P : least = 100 - x
  BY <1>1, <1>2
<1>4. \A y \in P : x >= y
  <2>1. ASSUME NEW y \in P PROVE x >= y
    <3>1. least <= 100 - y /\ x \in 0 .. 100 /\ y \in 0 .. 100
      BY <1>1, <1>2
    <3> QED
      BY <1>3, <3>1
  <2> QED
    BY <2>1
<1> QED
  BY <1>4 DEF Max

(* The share of a natural number is one. *)
LEMMA ShareIs ==
    ASSUME NEW a \in Nat, NEW b \in Nat, b > 0
    PROVE  (100 * a) \div b \in Nat
OBVIOUS

(* Hybrid scores are of tables that index or snapshot know, and never      *)
(* negative.                                                               *)
LEMMA ScoresAre ==
    ASSUME indexed \subseteq TableName, snapshot \subseteq TableName,
           NEW found \in SUBSET indexed,
           NEW similarity \in [TableName -> Similarities], NEW match \in [TableName -> Matches]
    PROVE  \E D \in SUBSET (indexed \cup snapshot) :
              HybridScores(found, similarity, match) \in [D -> Nat]
<1>1. PICK positive : positive = [t \in TableName |-> Max({similarity[t], 0})]
  OBVIOUS
<1>2. \A t \in TableName : positive[t] \in 0 .. 100
  <2>1. ASSUME NEW t \in TableName PROVE positive[t] \in 0 .. 100
    <3>1. PICK s \in -100 .. 100 : s = similarity[t]
      BY SelectionAssumption
    <3>2. s \in Int /\ 0 \in Int
      OBVIOUS
    <3>3. Max({s, 0}) = IF s >= 0 THEN s ELSE 0
      BY <3>2, OfTwo
    <3> QED
      BY <1>1, <3>1, <3>3
  <2> QED
    BY <2>1
<1>3. PICK P \in SUBSET (0 .. 100) : P = {positive[t] : t \in found} \cup {0}
  <2>1. {positive[t] : t \in found} \cup {0} \in SUBSET (0 .. 100)
    BY <1>2
  <2> QED
    BY <2>1
<1>4. PICK best \in Nat : best = Max(P)
  <2>1. PICK x \in P : x = Max(P)
    BY <1>3, GreatestPercent
  <2>2. x \in 0 .. 100
    OBVIOUS
  <2> QED
    BY <2>1, <2>2
<1>5. PICK words : words = LexicalScores(match)
  OBVIOUS
<1>6. DOMAIN words \subseteq snapshot /\ \A t \in DOMAIN words : words[t] \in Nat
  <2>1. \A t \in TableName : match[t] \in 0 .. 100
    BY SelectionAssumption
  <2>2. \A t \in snapshot : match[t] \in Nat
    BY <2>1
  <2>3. /\ DOMAIN words = {u \in snapshot : match[u] > 0}
        /\ \A t \in DOMAIN words : words[t] = match[t]
    BY <1>5 DEF LexicalScores
  <2> QED
    BY <2>2, <2>3
<1>7. PICK D \in SUBSET (indexed \cup snapshot) : D = found \cup DOMAIN words
  <2>1. found \cup DOMAIN words \in SUBSET (indexed \cup snapshot)
    BY <1>6
  <2> QED
    BY <2>1
<1> DEFINE vector(t) == IF t \in found /\ best > 0 THEN (100 * positive[t]) \div best ELSE 0
           lexical(t) == IF t \in DOMAIN words THEN words[t] ELSE 0
<1>8. HybridScores(found, similarity, match) = [t \in D |-> vector(t) + lexical(t)]
  <2>1. \A t \in found : Max({similarity[t], 0}) = positive[t]
    BY <1>1
  <2>2. {Max({similarity[t], 0}) : t \in found} \cup {0} = P
    BY <1>3, <2>1
  <2>3. HybridScores(found, similarity, match)
           = [t \in D |->
                (IF t \in found /\ best > 0 THEN (100 * Max({similarity[t], 0})) \div best ELSE 0)
                  + lexical(t)]
    BY <1>4, <1>5, <1>7, <2>2 DEF HybridScores
  <2>4. \A t \in D :
          (IF t \in found /\ best > 0 THEN (100 * Max({similarity[t], 0})) \div best ELSE 0)
             = vector(t)
    BY <2>1
  <2> QED
    BY <2>3, <2>4
<1>9. \A t \in D : vector(t) + lexical(t) \in Nat
  <2>1. ASSUME NEW t \in D PROVE vector(t) + lexical(t) \in Nat
    <3>1. lexical(t) \in Nat
      BY <1>6
    <3>2. vector(t) \in Nat
      <4>1. CASE t \in found /\ best > 0
        <5>1. PICK a \in Nat : a = positive[t]
          BY <1>2, <4>1
        <5>2. (100 * a) \div best \in Nat
          BY <4>1, ShareIs
        <5> QED
          BY <4>1, <5>1, <5>2
      <4>2. CASE ~(t \in found /\ best > 0)
        BY <4>2
      <4> QED
        BY <4>1, <4>2
    <3> HIDE DEF vector, lexical
    <3> QED
      BY <3>1, <3>2
  <2> QED
    BY <2>1
<1> HIDE DEF vector, lexical
<1> QED
  BY <1>8, <1>9

(* What the question gets, h of them matches: the first of the ranking.    *)
Selected(selection, h, b, ranked, scores) ==
    /\ selection \in Seq(Chosen) /\ Distinct(selection) /\ Len(selection) <= MaxTables
    /\ h \in 0 .. Len(selection) /\ h = IF b <= MaxTables THEN b ELSE MaxTables
    /\ Hits(selection) = SubSeq(selection, 1, h)
    /\ \A i \in 1 .. h :
          /\ Hits(selection)[i] = selection[i]
          /\ selection[i] = Retrieved(ranked[i], scores[ranked[i]], "hybrid")
    /\ FkExpansion =>
          \A p \in ToSet(Hits(selection)) : p.name \in snapshot => Served(selection, p, scores)

(* Cut to MaxTables, with or without what foreign keys add, the selection  *)
(* is like that.                                                           *)
LEMMA SelectionIs ==
    ASSUME snapshot \subseteq TableName,
           NEW D \in SUBSET TableName, NEW scores \in [D -> Nat], NEW ranked \in Rankings(scores),
           NEW b \in Nat, NEW best, AreBest(best, b, ranked, scores)
    PROVE  LET expanded == IF FkExpansion THEN Expand(best, scores) ELSE best
           IN  \E h \in Nat : Selected(AtMost(expanded, MaxTables), h, b, ranked, scores)
<1>1. PICK expanded : expanded = IF FkExpansion THEN Expand(best, scores) ELSE best
  OBVIOUS
<1>2. /\ best \in Seq(Chosen) /\ Len(best) = b /\ b \in 0 .. Len(ranked)
      /\ \A i \in 1 .. b : best[i] = Retrieved(ranked[i], scores[ranked[i]], "hybrid")
  BY DEF AreBest
<1>3. Distinct(best)
  <2>1. ASSUME NEW i \in 1 .. b, NEW j \in 1 .. b, best[i].name = best[j].name PROVE i = j
    <3>1. i \in 1 .. Len(ranked) /\ j \in 1 .. Len(ranked)
      BY <1>2, RankingIs
    <3>2. ranked[i] = ranked[j]
      BY <1>2, <2>1 DEF Retrieved
    <3> QED
      BY <3>1, <3>2, RankingIs
  <2> QED
    BY <1>2, <2>1 DEF Distinct
<1>4. /\ Extends(expanded, best)
      /\ FkExpansion => \A p \in ToSet(best) :
                           p.name \in snapshot => Served(expanded, p, scores)
  <2>1. CASE FkExpansion
    BY <1>1, <1>2, <1>3, <2>1, ExpandIs
  <2>2. CASE ~FkExpansion
    BY <1>1, <1>2, <1>3, <2>2 DEF Extends
  <2> QED
    BY <2>1, <2>2
<1>5. PICK n \in Nat, max \in Nat :
         /\ n = Len(expanded) /\ max = MaxTables /\ expanded \in Seq(Chosen) /\ b <= n
         /\ \A i \in 1 .. b : expanded[i] = best[i]
         /\ \A i \in 1 .. n : i > b => expanded[i].via = "fk-expansion"
  BY <1>2, <1>4, Settings DEF Extends
<1>6. PICK selection \in Seq(Chosen), l \in Nat :
         /\ selection = AtMost(expanded, MaxTables) /\ l = Len(selection)
         /\ l = IF max <= n THEN max ELSE n
         /\ \A i \in 1 .. l : selection[i] = expanded[i]
  <2>1. /\ AtMost(expanded, max) \in Seq(Chosen)
        /\ Len(AtMost(expanded, max)) = IF max <= n THEN max ELSE n
        /\ \A i \in 1 .. Len(AtMost(expanded, max)) : AtMost(expanded, max)[i] = expanded[i]
    BY <1>5, AtMostIs
  <2> QED
    BY <1>5, <2>1
<1>7. PICK h \in Nat : h = (IF b <= max THEN b ELSE max) /\ h <= l /\ h <= b
  BY <1>5, <1>6
<1>8. DOMAIN selection = 1 .. l /\ \A i \in 1 .. l : i \in 1 .. n
  <2>1. DOMAIN selection = 1 .. l
    BY <1>6, ElementsOf
  <2> QED
    BY <1>6, <2>1
<1>9. \A i \in 1 .. h : selection[i] = best[i] /\ i \in 1 .. l /\ i \in 1 .. b
  BY <1>5, <1>6, <1>7
<1>10. PICK W : W = {p \in ToSet(selection) : p.via = "hybrid"}
  OBVIOUS
<1>11. \A i \in 1 .. l : selection[i] \in W <=> i <= h
  <2>1. ASSUME NEW i \in 1 .. l PROVE selection[i] \in W <=> i <= h
    <3>1. selection[i] \in W <=> selection[i].via = "hybrid"
      BY <1>8, <1>10 DEF ToSet
    <3>2. CASE i <= h
      <4>1. i \in 1 .. h
        BY <3>2
      <4> QED
        BY <1>2, <1>9, <3>1, <3>2, <4>1 DEF Retrieved
    <3>3. CASE ~(i <= h)
      <4>1. i > b /\ i \in 1 .. n
        BY <1>6, <1>7, <1>8, <3>3
      <4> QED
        BY <1>5, <1>6, <3>1, <3>3, <4>1
    <3> QED
      BY <3>2, <3>3
  <2> QED
    BY <2>1
<1>12. PICK hits \in Seq(Chosen) : /\ hits = Hits(selection) /\ hits = SubSeq(selection, 1, h)
                                   /\ Len(hits) = h /\ \A i \in 1 .. h : hits[i] = selection[i]
  <2>1. Among(selection, W) = SubSeq(selection, 1, h)
    <3>1. h \in 0 .. Len(selection) /\ \A i \in 1 .. Len(selection) : selection[i] \in W <=> i <= h
      BY <1>6, <1>7, <1>11
    <3> QED
      BY <3>1, AmongFirst
  <2>2. \A i \in 1 .. h : selection[i] \in Chosen
    <3>1. \A i \in 1 .. l : selection[i] \in Chosen
      BY <1>6, ElementsOf
    <3> QED
      BY <1>9, <3>1
  <2>3. /\ SubSeq(selection, 1, h) \in Seq(Chosen)
        /\ Len(SubSeq(selection, 1, h)) = IF 1 <= h THEN h - 1 + 1 ELSE 0
        /\ \A i \in 1 .. h - 1 + 1 : SubSeq(selection, 1, h)[i] = selection[1 + i - 1]
    BY <2>2, SubSeqProperties
  <2>4. h - 1 + 1 = h /\ (~(1 <= h) => h = 0) /\ \A i \in 1 .. h : 1 + i - 1 = i
    OBVIOUS
  <2>5. /\ Len(SubSeq(selection, 1, h)) = h
        /\ \A i \in 1 .. h : SubSeq(selection, 1, h)[i] = selection[i]
    BY <2>3, <2>4
  <2> QED
    BY <1>10, <2>1, <2>3, <2>5 DEF Hits
<1>13. Distinct(selection)
  <2>1. ASSUME NEW i \in 1 .. l, NEW j \in 1 .. l, selection[i].name = selection[j].name
        PROVE  i = j
    <3>1. expanded[i].name = expanded[j].name /\ i \in 1 .. n /\ j \in 1 .. n
      BY <1>6, <1>8, <2>1
    <3> QED
      BY <1>4, <1>5, <3>1 DEF Extends, Distinct
  <2> QED
    BY <1>6, <2>1 DEF Distinct
<1>14. ASSUME FkExpansion, NEW p \in ToSet(hits), p.name \in snapshot
       PROVE  Served(selection, p, scores)
  <2>1. p \in ToSet(best)
    <3>1. DOMAIN hits = 1 .. h /\ DOMAIN best = 1 .. b
      BY <1>2, <1>12, ElementsOf
    <3>2. PICK i \in 1 .. h : p = hits[i]
      BY <1>14, <3>1 DEF ToSet
    <3>3. p = best[i] /\ i \in 1 .. b
      BY <1>9, <1>12, <3>2
    <3> QED
      BY <3>1, <3>3 DEF ToSet
  <2>2. Served(expanded, p, scores)
    BY <1>4, <1>14, <2>1
  <2>3. CASE n >= max
    <3>1. l = max /\ l >= max
      BY <1>6, <2>3
    <3> QED
      BY <1>5, <1>6, <3>1 DEF Served
  <2>4. CASE ~(n >= max)
    <3>1. l = n /\ DOMAIN expanded = 1 .. n
      BY <1>5, <1>6, <2>4, ElementsOf
    <3>2. NamesOf(expanded) = NamesOf(selection)
      <4>1. NamesOf(expanded) = {expanded[i].name : i \in 1 .. n}
        BY <3>1 DEF NamesOf
      <4>2. NamesOf(selection) = {selection[i].name : i \in 1 .. n}
        BY <1>8, <3>1 DEF NamesOf
      <4> QED
        BY <1>6, <3>1, <4>1, <4>2
    <3> QED
      BY <1>5, <1>6, <2>2, <3>1, <3>2 DEF Served
  <2> QED
    BY <2>3, <2>4
<1>15. Len(selection) <= MaxTables
  BY <1>5, <1>6
<1>16. Selected(selection, h, b, ranked, scores)
  <2>1. h \in 0 .. Len(selection) /\ h = IF b <= MaxTables THEN b ELSE MaxTables
    BY <1>5, <1>6, <1>7
  <2>2. \A i \in 1 .. h : /\ Hits(selection)[i] = selection[i]
                          /\ selection[i] = Retrieved(ranked[i], scores[ranked[i]], "hybrid")
    BY <1>2, <1>9, <1>12
  <2> QED
    BY <1>6, <1>12, <1>13, <1>14, <1>15, <2>1, <2>2 DEF Selected
<1> QED
  BY <1>1, <1>6, <1>16

(* Nothing is among nothing. *)
LEMMA AmongNothing ==
    ASSUME NEW wanted
    PROVE  Among(<<>>, wanted) = <<>>
<1>1. PICK s \in Seq(Chosen) : s = <<>> /\ Len(s) = 0
  <2>1. <<>> \in Seq(Chosen) /\ Len(<<>>) = 0
    OBVIOUS
  <2> QED
    BY <2>1
<1>2. PICK h : Keeps(h, s, wanted, Chosen)
  BY AmongSteps
<1> QED
  BY <1>1, <1>2 DEF Keeps

(* The invariant: it says all there is to say of one question. *)
SelectionInv ==
    /\ SelectionTypeOK
    /\ BestMatchesKept
    /\ JoinsPossible
    /\ AliasesUsable

(* There is nothing wrong with no answer. *)
LEMMA SelectionStarts == SelectionInit => SelectionInv
<1>1. SUFFICES ASSUME SelectionInit PROVE SelectionInv
  OBVIOUS
<1>2. /\ result.scores = <<>> /\ result.selection = <<>> /\ result.aliases = <<>>
      /\ indexed \subseteq TableName /\ snapshot \subseteq TableName
  BY <1>1 DEF SelectionInit, NoResult
<1>3. /\ DOMAIN result.scores = {} /\ NamesOf(result.selection) = {}
      /\ ToSet(<<>>) = {} /\ Len(<<>>) = 0
  BY <1>2 DEF NamesOf, ToSet
<1>4. Hits(result.selection) = <<>>
  BY <1>2, AmongNothing DEF Hits
<1>5. Cardinality({}) = 0
  BY FS_EmptySet
<1>6. SelectionTypeOK
  <2>1. 0 <= MaxTables
    BY Settings
  <2>2. <<>> \in Seq([name : TableName, score : Nat, via : {"hybrid", "fk-expansion"}])
    OBVIOUS
  <2> QED
    BY <1>2, <1>3, <1>5, <2>1, <2>2 DEF SelectionTypeOK
<1>7. BestMatchesKept
  BY <1>3 DEF BestMatchesKept
<1>8. JoinsPossible
  BY <1>3, <1>4 DEF JoinsPossible
<1>9. AliasesUsable
  <2>1. {} \cap snapshot = {}
    OBVIOUS
  <2> QED
    BY <1>2, <1>3, <1>5, <2>1 DEF AliasesUsable
<1> QED
  BY <1>6, <1>7, <1>8, <1>9 DEF SelectionInv

(* The promise of BestMatchesKept, of one question. *)
MatchesKept(selection, scores) ==
    LET hits   == Hits(selection)
        strong == {t \in DOMAIN scores : scores[t] >= MinScore}
    IN  /\ hits # <<>>
        /\ AtMost(selection, Len(hits)) = hits
        /\ \A t \in DOMAIN scores : hits[1].score >= scores[t]
        /\ Len(hits) = Max({1, Min({TopK, MaxTables, Cardinality(strong)})})
        /\ \A t \in strong \ NamesOf(hits) :
              \A i \in DOMAIN hits : hits[i].score >= scores[t]

(* The matches of a question, against its ranking. *)
LEMMA MatchesAre ==
    ASSUME NEW D \in SUBSET TableName, NEW scores \in [D -> Nat], NEW ranked \in Rankings(scores),
           NEW b \in Nat, NEW best, AreBest(best, b, ranked, scores),
           NEW h \in Nat, NEW selection, Selected(selection, h, b, ranked, scores), D # {}
    PROVE  MatchesKept(selection, scores)
<1>1. PICK n \in Nat :
         /\ n = Len(ranked) /\ ranked \in Seq(D)
         /\ \A t \in D : \E i \in 1 .. n : ranked[i] = t
         /\ \A i, j \in 1 .. n : i <= j => scores[ranked[i]] >= scores[ranked[j]]
  <2>1. /\ ranked \in Seq(D) /\ Len(ranked) \in Nat
        /\ \A t \in D : \E i \in 1 .. Len(ranked) : ranked[i] = t
        /\ \A i, j \in 1 .. Len(ranked) : i <= j => scores[ranked[i]] >= scores[ranked[j]]
    <3>1. D \in SUBSET TableName /\ scores \in [D -> Nat] /\ ranked \in Rankings(scores)
      OBVIOUS
    <3>2. ranked \in Seq(D) /\ Len(ranked) = Cardinality(D) /\ Cardinality(D) \in Nat
      BY ONLY <3>1, RankingIs
    <3>3. \A t \in D : \E i \in 1 .. Len(ranked) : ranked[i] = t
      BY ONLY <3>1, RankingIs
    <3>4. \A i, j \in 1 .. Len(ranked) : i <= j => scores[ranked[i]] >= scores[ranked[j]]
      BY ONLY <3>1, RankingIs
    <3> QED
      BY <3>2, <3>3, <3>4
  <2>2. PICK n \in Nat : n = Len(ranked)
    BY <2>1
  <2> QED
    BY <2>1, <2>2
<1>2. n > 0
  BY <1>1
<1>3. PICK top \in Nat \ {0}, max \in Nat \ {0}, k \in Nat :
         top = TopK /\ max = MaxTables /\ k = Cardinality(Strong(scores))
  <2>1. PICK k \in 0 .. n : k = Cardinality(Strong(scores))
    BY <1>1, StrongFirst, Zenon
  <2>2. TopK \in Nat \ {0} /\ MaxTables \in Nat \ {0} /\ k \in Nat
    BY Settings
  <2> QED
    BY <2>1, <2>2
<1>4. b \in 0 .. n /\ b = IF k = 0 THEN 1 ELSE IF top <= k THEN top ELSE k
  BY <1>1, <1>2, <1>3 DEF AreBest
<1>5. PICK hits, l :
         /\ l \in Nat /\ hits = Hits(selection) /\ selection \in Seq(Chosen) /\ l = Len(selection) /\ h <= l
         /\ h = (IF b <= max THEN b ELSE max) /\ hits = SubSeq(selection, 1, h)
         /\ \A i \in 1 .. h : hits[i] = Retrieved(ranked[i], scores[ranked[i]], "hybrid")
  <2>1. /\ selection \in Seq(Chosen) /\ h \in 0 .. Len(selection)
        /\ h = IF b <= max THEN b ELSE max
        /\ \A i \in 1 .. h : /\ Hits(selection)[i] = selection[i]
                             /\ selection[i] = Retrieved(ranked[i], scores[ranked[i]], "hybrid")
        /\ Hits(selection) = SubSeq(selection, 1, h)
    BY <1>3 DEF Selected
  <2>2. PICK l \in Nat : l = Len(selection)
    BY <2>1
  <2>3. h <= l
    BY <2>1, <2>2
  <2>4. \A i \in 1 .. h : Hits(selection)[i] = Retrieved(ranked[i], scores[ranked[i]], "hybrid")
    BY <2>1
  <2> QED
    BY <2>1, <2>2, <2>3, <2>4
<1>6. AtMost(selection, h) = hits /\ Len(hits) = h /\ hits \in Seq(Chosen)
  <2>1. Min({h, l}) = h
    BY <1>5, OfTwo
  <2>2. AtMost(selection, h) = hits
    BY <1>5, <2>1 DEF AtMost
  <2>3. AtMost(selection, h) \in Seq(Chosen) /\ Len(AtMost(selection, h)) = h
    BY <1>5, AtMostIs
  <2> QED
    BY <2>2, <2>3
<1>7. h > 0 /\ h <= n
  BY <1>3, <1>4, <1>5
<1>8. DOMAIN hits = 1 .. h /\ 1 \in 1 .. h
  <2>1. DOMAIN hits = 1 .. h
    BY <1>6, ElementsOf
  <2> QED
    BY <1>7, <2>1
<1>9. \A i \in 1 .. h : /\ hits[i].score = scores[ranked[i]] /\ hits[i].name = ranked[i]
                        /\ i \in 1 .. n
  <2>1. ASSUME NEW i \in 1 .. h
        PROVE  /\ hits[i].score = scores[ranked[i]] /\ hits[i].name = ranked[i]
               /\ i \in 1 .. n
    <3>1. hits[i] = [name |-> ranked[i], score |-> scores[ranked[i]], via |-> "hybrid"]
      BY <1>5 DEF Retrieved
    <3>2. i \in 1 .. n
      BY <1>7
    <3> QED
      BY <3>1, <3>2
  <2> QED
    BY <2>1
<1>10. \A t \in D : hits[1].score >= scores[t]
  <2>1. ASSUME NEW t \in D PROVE hits[1].score >= scores[t]
    <3>1. PICK i \in 1 .. n : ranked[i] = t
      BY <1>1
    <3>2. 1 \in 1 .. n /\ 1 <= i
      BY <1>2
    <3> QED
      BY <1>1, <1>8, <1>9, <3>1, <3>2
  <2> QED
    BY <2>1
<1>11. h = Max({1, Min({TopK, MaxTables, Cardinality(Strong(scores))})})
  <2>1. PICK low \in Int : low = Min({top, max, k}) /\ low = LET lower == IF max <= k THEN max ELSE k
                                                             IN  IF top <= lower THEN top ELSE lower
    <3>1. top \in Int /\ max \in Int /\ k \in Int
      OBVIOUS
    <3>2. Min({top, max, k}) = LET lower == IF max <= k THEN max ELSE k
                               IN  IF top <= lower THEN top ELSE lower
      BY <3>1, OfThree
    <3> QED
      BY <3>1, <3>2
  <2>2. PICK one \in Int : one = 1
    OBVIOUS
  <2>3. Max({one, low}) = IF one >= low THEN one ELSE low
    BY OfTwo
  <2>4. h = IF 1 >= low THEN 1 ELSE low
    BY <1>3, <1>4, <1>5, <2>1
  <2> QED
    BY <1>3, <2>1, <2>2, <2>3, <2>4
<1>12. \A t \in Strong(scores) \ NamesOf(hits) : \A i \in 1 .. h : hits[i].score >= scores[t]
  <2>1. ASSUME NEW t \in Strong(scores) \ NamesOf(hits), NEW i \in 1 .. h
        PROVE  hits[i].score >= scores[t]
    <3>1. PICK j \in 1 .. n : ranked[j] = t
      BY <1>1 DEF Strong
    <3>2. ~(j \in 1 .. h)
      BY <1>8, <1>9, <2>1, <3>1 DEF NamesOf
    <3>3. i \in 1 .. n /\ i <= j
      BY <1>7, <3>2
    <3> QED
      BY <1>1, <1>9, <3>1, <3>3
  <2> QED
    BY <2>1
<1>13. DOMAIN scores = D /\ hits # <<>>
  BY <1>8
<1> QED
  BY <1>5, <1>6, <1>8, <1>10, <1>11, <1>12, <1>13 DEF Strong, MatchesKept

(* The whole of retrieve: of any similarity and match, whatever rows tie.  *)
LEMMA RetrieveSelects ==
    ASSUME SelectionInv,
           NEW similarity \in [TableName -> Similarities], NEW match \in [TableName -> Matches],
           Retrieve(similarity, match)
    PROVE  SelectionInv'
<1>1. indexed \subseteq TableName /\ snapshot \subseteq TableName
  BY DEF SelectionInv, SelectionTypeOK
<1>2. PICK found \in SUBSET indexed :
         LET scores == HybridScores(found, similarity, match)
         IN  \E ranked \in Rankings(scores) :
                LET best     == Best(ranked, scores)
                    expanded == IF FkExpansion THEN Expand(best, scores) ELSE best
                IN  result' = Answer(scores, AtMost(expanded, MaxTables))
  BY DEF Retrieve, Candidates
<1>3. PICK D, scores :
         /\ D \in SUBSET TableName /\ scores = HybridScores(found, similarity, match) /\ scores \in [D -> Nat]
         /\ D \subseteq indexed \cup snapshot
  <2>1. PICK D \in SUBSET (indexed \cup snapshot) :
            HybridScores(found, similarity, match) \in [D -> Nat]
    BY <1>1, ScoresAre
  <2>2. D \in SUBSET TableName
    BY <1>1
  <2> QED
    BY <2>1, <2>2
<1>4. PICK ranked \in Rankings(scores) :
         LET best     == Best(ranked, scores)
             expanded == IF FkExpansion THEN Expand(best, scores) ELSE best
         IN  result' = Answer(scores, AtMost(expanded, MaxTables))
  BY <1>2, <1>3
<1>5. PICK best, b : b \in Nat /\ best = Best(ranked, scores) /\ AreBest(best, b, ranked, scores)
  BY <1>3, BestIs
<1>6. PICK selection, h :
         /\ selection = AtMost(IF FkExpansion THEN Expand(best, scores) ELSE best, MaxTables)
         /\ h \in Nat /\ Selected(selection, h, b, ranked, scores)
  BY <1>1, <1>3, <1>5, SelectionIs
<1>7. PICK aliases : aliases = Aliases(selection)
  OBVIOUS
<1>8. /\ result'.scores = scores /\ result'.selection = selection /\ result'.aliases = aliases
      /\ indexed' = indexed /\ snapshot' = snapshot
  BY <1>4, <1>5, <1>6, <1>7 DEF Answer, Retrieve
<1>9. PICK n \in Nat : /\ selection \in Seq(Chosen) /\ Distinct(selection)
                       /\ n = Len(selection) /\ n <= MaxTables
  BY <1>6 DEF Selected
<1>10. SelectionTypeOK'
  <2>1. Cardinality(NamesOf(selection)) = n
    BY <1>9, NamesCount
  <2>2. DOMAIN scores = D
    BY <1>3
  <2> QED
    BY <1>1, <1>3, <1>8, <1>9, <2>1, <2>2 DEF SelectionTypeOK, Chosen
<1>11. BestMatchesKept'
  <2>1. CASE D = {}
    BY <1>3, <1>8, <2>1 DEF BestMatchesKept
  <2>2. CASE D # {}
    <3>1. MatchesKept(selection, scores)
      BY <1>3, <1>5, <1>6, <2>2, MatchesAre, Zenon
    <3> QED
      BY <1>8, <3>1, Zenon DEF BestMatchesKept, MatchesKept
  <2> QED
    BY <2>1, <2>2
<1>12. JoinsPossible'
  <2>1. ASSUME NEW p \in ToSet(Hits(selection)), NEW u \in snapshot \ Lookup, FkExpansion,
               p.name \in snapshot, <<p.name, u>> \in Akin,
               <<p.name, u>> \in References \/ <<u, p.name>> \in References
        PROVE  u \in NamesOf(selection) \/ n = MaxTables
    <3>1. Served(selection, p, scores)
      BY <1>6, <2>1 DEF Selected
    <3>2. u \in Neighbours(p.name) /\ Useful(p.name, u, scores)
      BY <1>1, <2>1 DEF Neighbours, Useful
    <3>3. u \in NamesOf(selection) \/ n >= MaxTables
      BY <1>9, <3>1, <3>2 DEF Served
    <3> QED
      BY <1>9, <3>3, Settings
  <2>2. \A p \in ToSet(Hits(selection)), u \in snapshot \ Lookup :
           /\ FkExpansion
           /\ p.name \in snapshot
           /\ <<p.name, u>> \in Akin
           /\ <<p.name, u>> \in References \/ <<u, p.name>> \in References
           => u \in NamesOf(selection) \/ n = MaxTables
    BY <2>1
  <2> QED
    BY <1>8, <1>9, <2>2 DEF JoinsPossible
<1>13. AliasesUsable'
  <2>1. /\ Len(aliases) = Cardinality(NamesOf(selection) \cap snapshot)
        /\ Cardinality(ToSet(aliases)) = Len(aliases)
        /\ ToSet(aliases) \cap Reserved = {}
    BY <1>7, <1>9, AliasesAre
  <2> QED
    BY <1>8, <2>1 DEF AliasesUsable
<1> QED
  BY <1>10, <1>11, <1>12, <1>13 DEF SelectionInv

(* An answer stays what it is. *)
LEMMA SelectionStays ==
    ASSUME SelectionInv, UNCHANGED selectionVars
    PROVE  SelectionInv'
<1>1. indexed' = indexed /\ snapshot' = snapshot /\ result' = result
  BY DEF selectionVars
<1>2. SelectionTypeOK'
  BY <1>1 DEF SelectionInv, SelectionTypeOK
<1>3. BestMatchesKept'
  BY <1>1 DEF SelectionInv, BestMatchesKept
<1>4. JoinsPossible'
  BY <1>1 DEF SelectionInv, JoinsPossible
<1>5. AliasesUsable'
  BY <1>1 DEF SelectionInv, AliasesUsable
<1> QED
  BY <1>2, <1>3, <1>4, <1>5 DEF SelectionInv

(* Whatever index and snapshot have missed, and however scores and ties    *)
(* fall, every question is answered by SelectionInv.                       *)
THEOREM SelectionIsRight == SelectionSpec => []SelectionInv
<1>1. SelectionInv /\ [SelectionNext]_selectionVars => SelectionInv'
  BY RetrieveSelects, SelectionStays DEF SelectionNext
<1> QED
  BY <1>1, SelectionStarts, PTL DEF SelectionSpec

(* However scores, ties and the lag between index and snapshot fall: never *)
(* more than MaxTables tables reach the prompt, and none of them twice.    *)
THEOREM SelectionIsTyped == SelectionSpec => []SelectionTypeOK
<1>1. SelectionInv => SelectionTypeOK
  BY DEF SelectionInv
<1> QED
  BY <1>1, SelectionIsRight, PTL

(* If anything matches, the best matches come first and foreign keys       *)
(* displace none of them.                                                  *)
THEOREM SelectionKeepsMatches == SelectionSpec => []BestMatchesKept
<1>1. SelectionInv => BestMatchesKept
  BY DEF SelectionInv
<1> QED
  BY <1>1, SelectionIsRight, PTL

(* A table that belongs to a match, and that a foreign key joins it with,  *)
(* comes along unless the prompt is full.                                  *)
THEOREM SelectionJoins == SelectionSpec => []JoinsPossible
<1>1. SelectionInv => JoinsPossible
  BY DEF SelectionInv
<1> QED
  BY <1>1, SelectionIsRight, PTL

(* Every table of the prompt that the snapshot knows has an alias of its   *)
(* own that is no reserved word, even when the letters run out.            *)
THEOREM SelectionAliases == SelectionSpec => []AliasesUsable
<1>1. SelectionInv => AliasesUsable
  BY DEF SelectionInv
<1> QED
  BY <1>1, SelectionIsRight, PTL
=============================================================================
