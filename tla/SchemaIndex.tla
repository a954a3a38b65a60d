---------------------------- MODULE SchemaIndex ----------------------------
(***************************************************************************)
(* The index of table descriptions: index_schema (app/retrieval/           *)
(* indexer.py), the vector stores (store.py) and the singletons that serve *)
(* from it, the array store's cache and the retriever's schema snapshot    *)
(* (retriever.py).  The ERP schema changes on its own account.             *)
(*                                                                         *)
(* A run of index_schema is several transactions, so runs of different     *)
(* processes interleave, with each other and with schema changes.  Within  *)
(* a service process the reindex endpoint never awaits: while it runs the  *)
(* process answers nothing else.                                           *)
(*                                                                         *)
(* A table's description and shape, which its checksum identifies, are a   *)
(* model value.  So is an embedding model with its signature; vectors are  *)
(* known by the row's checksum and model.                                  *)
(***************************************************************************)
EXTENDS Naturals, FiniteSets

CONSTANTS
    Table,
    Version,        \* descriptions a table can have
    Model,          \* embedding providers
    Dim,            \* the dimension of each
    Service,        \* processes of the chat service
    Script,         \* processes that run scripts/index_schema.py
    Null,
    MaxRuns,        \* bounds: calls of index_schema,
    MaxAlters,      \* schema changes,
    MaxRestarts     \* and processes started anew

ASSUME IndexAssumption ==
    /\ Null \notin Version \cup [Table -> Version \cup {Null}]
    /\ Null \notin [checksum : Version, signature : Model]
    /\ Null \notin Model
    /\ Dim \in [Model -> Nat]
    /\ MaxRuns \in Nat /\ MaxAlters \in Nat /\ MaxRestarts \in Nat

Process == Service \cup Script

VARIABLES
    backend,        \* what pgvector_available found
    live,           \* the ERP schema: the version of each table, Null where there is none
    index,          \* table_embeddings
    width,          \* dimension of its embedding column, Null before it is created
    run,            \* the local variables of index_schema in each process
    proc,           \* the singletons of each process
    left,           \* what the bounds still allow
    disturbed,      \* history: a write based on another schema or model came in between
    missed,         \* history: tables created since the run read the schema
    settled,        \* history: the model of a completed, undisturbed run, else Null
    fresh           \* history: services whose refresh came after every later change

indexVars == <<backend, live, index, width, run, proc, left,
               disturbed, missed, settled, fresh>>

Schema == [Table -> Version \cup {Null}]
Row == [checksum : Version, signature : Model]
RowFor(v, m) == [checksum |-> v, signature |-> m]
Stored == [Table -> Row \cup {Null}]
TablesIn(schema) == {t \in Table : schema[t] # Null}

Run == [at : {"idle", "ensure", "compare", "upsert", "prune", "refresh"},
        tables : Schema, pending : SUBSET Table]
Singletons == [model : Model, cache : Stored \cup {Null}, snapshot : Schema \cup {Null}]

NoRun == [at |-> "idle", tables |-> [t \in Table |-> Null], pending |-> {}]
Started(m) == [model |-> m, cache |-> Null, snapshot |-> Null]

IndexInit ==
    /\ backend \in {"pgvector", "array"}
    /\ live \in Schema
    /\ index = [t \in Table |-> Null]
    /\ width = Null
    /\ run = [p \in Process |-> NoRun]
    /\ proc \in [Process -> {Started(m) : m \in Model}]
    /\ left = [runs |-> MaxRuns, alters |-> MaxAlters, restarts |-> MaxRestarts]
    /\ disturbed = [p \in Process |-> FALSE]
    /\ missed = [p \in Process |-> {}]
    /\ settled = Null
    /\ fresh = {}

(* What a write of p does to the history: it disturbs the runs that use    *)
(* another model, and every run if p knows an older schema.                *)
WriteNoted(p) ==
    /\ disturbed' = [q \in Process |->
            \/ disturbed[q]
            \/ q # p /\ (run[p].tables # live \/ proc[p].model # proc[q].model)]
    /\ fresh' = IF index' = index THEN fresh ELSE fresh \cap {p}
-----------------------------------------------------------------------------
(* index_schema reads the schema.  Its catalogue queries are one step: the *)
(* table names come from a single statement, and a description that mixes  *)
(* two versions of a table would be of a run that is disturbed anyway.     *)
Introspect(p) ==
    /\ run[p].at = "idle"
    /\ left.runs > 0
    /\ left' = [left EXCEPT !.runs = @ - 1]
    /\ run' = [run EXCEPT ![p] = [at |-> "ensure", tables |-> live, pending |-> {}]]
    /\ disturbed' = [disturbed EXCEPT ![p] = FALSE]
    /\ missed' = [missed EXCEPT ![p] = {}]
    /\ UNCHANGED <<backend, live, index, width, proc, settled, fresh>>

(* ensure_schema: IF NOT EXISTS, so a pgvector column keeps its dimension. *)
EnsureSchema(p) ==
    /\ run[p].at = "ensure"
    /\ width' = IF backend = "pgvector" /\ width = Null THEN Dim[proc[p].model] ELSE width
    /\ run' = [run EXCEPT ![p].at = "compare"]
    /\ UNCHANGED <<backend, live, index, proc, left, disturbed, missed, settled, fresh>>

(* Mutant: rows are compared by checksum, whatever model embedded them. *)
UnchangedChecksum(p, t) ==
    /\ index[t] # Null
    /\ index[t].checksum = run[p].tables[t]

(* existing_checksums joins checksum and signature. *)
Unchanged(p, t) == index[t] = RowFor(run[p].tables[t], proc[p].model)

(* Mutant: rows whose table is gone are embedded again. *)
CompareStored(p, force) ==
    /\ run[p].at = "compare"
    /\ run' = [run EXCEPT ![p].at = "upsert",
            ![p].pending = {t \in Table : (index[t] # Null \/ run[p].tables[t] # Null)
                                          /\ (force \/ ~Unchanged(p, t))}]
    /\ UNCHANGED <<backend, live, index, width, proc, left, disturbed, missed, settled, fresh>>

(* Read the stored checksums, or none with force, and keep what differs.   *)
Compare(p, force) ==
    /\ run[p].at = "compare"
    /\ run' = [run EXCEPT ![p].at = "upsert",
            ![p].pending = {t \in TablesIn(run[p].tables) : force \/ ~Unchanged(p, t)}]
    /\ UNCHANGED <<backend, live, index, width, proc, left, disturbed, missed, settled, fresh>>

(* Embed and upsert in one transaction, and drop the cache; a vector of    *)
(* another dimension than the column's is refused.                         *)
Upsert(p) ==
    /\ run[p].at = "upsert"
    /\ IF run[p].pending = {} THEN UNCHANGED <<index, proc, disturbed, settled, fresh>>
       ELSE /\ backend = "pgvector" => width = Dim[proc[p].model]
            /\ index' = [t \in Table |->
                    IF t \in run[p].pending
                    THEN RowFor(run[p].tables[t], proc[p].model) ELSE index[t]]
            /\ proc' = [proc EXCEPT ![p].cache = Null]
            /\ settled' = IF run[p].tables = live /\ proc[p].model = settled
                          THEN settled ELSE Null
            /\ WriteNoted(p)
    /\ run' = [run EXCEPT ![p].at = "prune"]
    /\ UNCHANGED <<backend, live, width, left, missed>>

(* Mutant: only what this run has embedded is kept. *)
KeepPending(p) == run[p].pending

(* What prune keeps: the introspected tables, or all rows if there are none. *)
Keep(p) == TablesIn(run[p].tables)

Pruned(p) == [t \in Table |-> IF Keep(p) = {} \/ t \in Keep(p) THEN index[t] ELSE Null]

(* The script ends here; the endpoint goes on to refresh its retriever. *)
AfterPrune(p) == IF p \in Service THEN [run[p] EXCEPT !.at = "refresh"] ELSE NoRun

(* Mutant: the deletion leaves the cache alone. *)
PruneKeepsCache(p) ==
    /\ run[p].at = "prune"
    /\ index' = Pruned(p)
    /\ run' = [run EXCEPT ![p] = AfterPrune(p)]
    /\ settled' = IF ~disturbed[p] THEN proc[p].model
                  ELSE IF index' = index THEN settled ELSE Null
    /\ WriteNoted(p)
    /\ UNCHANGED <<backend, live, width, proc, left, missed>>

Prune(p) ==
    /\ run[p].at = "prune"
    /\ index' = Pruned(p)
    /\ proc' = [proc EXCEPT ![p].cache = Null]
    /\ run' = [run EXCEPT ![p] = AfterPrune(p)]
    /\ settled' = IF ~disturbed[p] THEN proc[p].model
                  ELSE IF index' = index THEN settled ELSE Null
    /\ WriteNoted(p)
    /\ UNCHANGED <<backend, live, width, left, missed>>

Refresh(p) ==
    /\ run[p].at = "refresh"
    /\ proc' = [proc EXCEPT ![p].snapshot = live]
    /\ run' = [run EXCEPT ![p] = NoRun]
    /\ fresh' = fresh \cup {p}
    /\ UNCHANGED <<backend, live, index, width, left, disturbed, missed, settled>>

(* An exception anywhere in a run; an open transaction is rolled back. *)
FailRun(p) ==
    /\ run[p].at # "idle"
    /\ run' = [run EXCEPT ![p] = NoRun]
    /\ UNCHANGED <<backend, live, index, width, proc, left, disturbed, missed, settled, fresh>>
-----------------------------------------------------------------------------
(* The first get_retriever of a service, at boot or on a request. *)
LoadRetriever(p) ==
    /\ run[p].at = "idle"
    /\ proc[p].snapshot = Null
    /\ proc' = [proc EXCEPT ![p].snapshot = live]
    /\ UNCHANGED <<backend, live, index, width, run, left, disturbed, missed, settled, fresh>>

(* search in the array store: the first one loads every row.  Rows of      *)
(* several dimensions do not form a matrix, and nothing is cached.         *)
Search(p) ==
    /\ run[p].at = "idle"
    /\ proc[p].snapshot # Null
    /\ backend = "array"
    /\ proc[p].cache = Null
    /\ Cardinality({Dim[index[t].signature] : t \in {u \in Table : index[u] # Null}}) <= 1
    /\ proc' = [proc EXCEPT ![p].cache = index]
    /\ UNCHANGED <<backend, live, index, width, run, left, disturbed, missed, settled, fresh>>

(* A process dies, in the middle of a run or not, and starts again, with   *)
(* the embedding provider its settings then name.                          *)
Restart(p, m) ==
    /\ left.restarts > 0
    /\ left' = [left EXCEPT !.restarts = @ - 1]
    /\ run' = [run EXCEPT ![p] = NoRun]
    /\ proc' = [proc EXCEPT ![p] = Started(m)]
    /\ fresh' = fresh \ {p}
    /\ UNCHANGED <<backend, live, index, width, disturbed, missed, settled>>

(* A migration creates, changes or drops a table. *)
Alter(t, v) ==
    /\ left.alters > 0
    /\ v # live[t]
    /\ left' = [left EXCEPT !.alters = @ - 1]
    /\ live' = [live EXCEPT ![t] = v]
    /\ disturbed' = [p \in Process |-> TRUE]
    /\ missed' = [p \in Process |-> IF live[t] = Null THEN missed[p] \cup {t} ELSE missed[p]]
    /\ settled' = Null
    /\ fresh' = {}
    /\ UNCHANGED <<backend, index, width, run, proc>>

RunStep(p) ==
    \/ Introspect(p)
    \/ EnsureSchema(p)
    \/ \E force \in BOOLEAN : Compare(p, force)
    \/ Upsert(p)
    \/ Prune(p)
    \/ Refresh(p)
    \/ FailRun(p)

IndexNext ==
    \/ \E p \in Process : RunStep(p)
    \/ \E p \in Service : LoadRetriever(p) \/ Search(p)
    \/ \E p \in Process, m \in Model : Restart(p, m)
    \/ \E t \in Table, v \in Version \cup {Null} : Alter(t, v)

IndexSpec == IndexInit /\ [][IndexNext]_indexVars
-----------------------------------------------------------------------------
IndexTypeOK ==
    /\ backend \in {"pgvector", "array"}
    /\ live \in Schema
    /\ index \in Stored
    /\ width \in {Dim[m] : m \in Model} \cup {Null}
    /\ run \in [Process -> Run]
    /\ \A p \in Process : run[p].pending \subseteq TablesIn(run[p].tables)
    /\ proc \in [Process -> Singletons]
    /\ disturbed \in [Process -> BOOLEAN]
    /\ missed \in [Process -> SUBSET Table]
    /\ settled \in Model \cup {Null}
    /\ fresh \subseteq Service

(* A completed run leaves the index with exactly one row per table of the  *)
(* schema, described as it is now and embedded with the run's model: what  *)
(* it skipped as unchanged is right, whatever earlier runs left behind by  *)
(* failing half-way, and whoever else indexed the same schema with the     *)
(* same model meanwhile.  A schema without any table prunes nothing.       *)
IndexIsExact ==
    settled # Null /\ TablesIn(live) # {} =>
        \A t \in Table : index[t] = IF live[t] = Null THEN Null
                                    ELSE RowFor(live[t], settled)

(* A service that has reindexed answers from the schema and the index as   *)
(* they are, not from what it held in memory before, until another process *)
(* or a migration changes them.                                            *)
OwnReindexIsSeen ==
    \A p \in fresh :
        /\ proc[p].snapshot = live
        /\ proc[p].cache \in {Null, index}

(* Indexing never takes a table away from the service that exists: a row   *)
(* of a live table disappears only when a run removes it that read the     *)
(* schema before the table was created.                                    *)
LiveTablesStay ==
    [][\A t \in Table :
          index[t] # Null /\ index'[t] = Null /\ live[t] # Null =>
              \E p \in Process : run[p].at = "prune" /\ t \in missed[p]]_indexVars
=============================================================================
