--------------------------- MODULE Introspection ---------------------------
(***************************************************************************)
(* introspect_schema (app/db/introspect.py) and the rows that index_schema *)
(* derives from what it read (build_description and description_checksum   *)
(* in app/retrieval/descriptions.py).                                      *)
(*                                                                         *)
(* The schema is read by one connection in one transaction at READ         *)
(* COMMITTED: four catalogue queries, then a query or two per column worth *)
(* sampling, each with a snapshot of its own.  Migrations and other        *)
(* transactions commit between any two of them.  A statement that fails    *)
(* aborts the transaction in the database, although the code catches the   *)
(* error and goes on: no later statement succeeds.                         *)
(*                                                                         *)
(* Tables and columns of a kind are sampled in no particular order: names  *)
(* are model values.  The checksum is a record, as a hash that never       *)
(* collides would be.                                                      *)
(***************************************************************************)
EXTENDS Naturals, FiniteSets, Sequences, SequencesExt

CONSTANTS
    Table, Name,            \* tables and names of columns
    Excluded,               \* DEFAULT_EXCLUDED_TABLES
    Curated,                \* tables with a TABLE_GLOSSARY entry
    Noise, Enumish,         \* names in _NOISE_COLUMNS; with an enum-like suffix
    Comment, Type, Null,    \* comments, the names of data types
    Catalogues,             \* what a migration can make of each table
    LookupTarget,           \* entity_values.id
    Value, Cut,             \* what columns hold, and its first 40 characters
    Reference, CodeOf,      \* references into entity_values, and their groups
    KeyLimit,               \* 12 columns in a description
    EnumFetch, EnumKeep,    \* LIMIT 12, and at most 10 are kept
    SampleRows, CodeFetch,  \* LIMIT 500 references, LIMIT 3 groups
    ListedCodes,            \* 8 of the values of a group are listed
    MaxReadings, MaxMigrations

Target == [table : Table, column : Name]
ForeignKey == [constraint : STRING, columns : SUBSET Name, table : Table,
               refs : (SUBSET Name) \ {{}}]
ReferenceRow == [table : Table, column : Name, target : Target]
RawColumn == [name : Name, type : Type, udt : Type]
Catalogue == [comment : Comment \cup {Null}, columns : Seq(RawColumn),
              pkey : STRING, keys : SUBSET Name, foreign : SUBSET ForeignKey]

ASSUME IntrospectAssumption ==
    /\ Catalogues \in [Table -> SUBSET Catalogue]
    /\ Null \notin Comment \cup Target
    /\ \A t \in Table : Null \notin Catalogues[t]
    /\ {"varchar", "timestamp", "timestamptz"} \subseteq Type
    /\ LookupTarget \in Target
    /\ Cut \in [Value -> Value]
    /\ \A r \in Reference : CodeOf[r] # Null
    /\ \A S \in (SUBSET Value) \cup (SUBSET Reference) : S # Null
    /\ IsFiniteSet(Value) /\ IsFiniteSet(Reference)
    /\ EnumFetch \in Nat /\ EnumKeep \in Nat /\ EnumKeep < EnumFetch
    /\ SampleRows \in Nat \ {0} /\ CodeFetch \in Nat /\ CodeFetch >= 2
    /\ KeyLimit \in Nat /\ ListedCodes \in Nat
    /\ MaxReadings \in Nat /\ MaxMigrations \in Nat

VARIABLES
    live,           \* the ERP schema: the catalogue of each table, Null where there is none
    at,             \* the statement that introspect_schema comes to next
    tables,         \* what _TABLES_SQL returned
    keys,           \* pks, as pairs of table and column
    references,     \* fks, the column that each column refers to
    info,           \* the TableInfo columns of the tables that were listed
    hint,           \* sample_values and lookup_code of each column
    todo,           \* the columns that the current sampling loop has not come to
    lookup,         \* the column whose group is known and whose values are asked for
    aborted,        \* has a statement of the transaction failed?
    left,           \* what the bounds still allow
    held,           \* history: what an enum-like column held when it was sampled
    referred,       \* history: what a reference column held when it was sampled
    calm,           \* history: no migration has committed since the reading began
    readings        \* history: what index_schema made of the completed readings

readVars == <<at, tables, keys, references, info, hint, todo, lookup, aborted>>
found == <<held, referred>>
introspectVars == <<live, readVars, left, found, calm, readings>>

Slot == Table \X Name
TablesOf(schema) == {t \in Table : schema[t] # Null}

(* ColumnInfo: the shape, and what sampling adds to it. *)
Column == [name : Name, type : Type, key : BOOLEAN, ref : Target \cup {Null}]
Code == {CodeOf[r] : r \in Reference}
Hint == [code : Code \cup {Null}, values : SUBSET Value]
NoHint == [code |-> Null, values |-> {}]
Unsampled == [p \in Slot |-> NoHint]
Unheld == [p \in Slot |-> Null]
NothingRead == [names |-> {}, comment |-> [t \in Table |-> Null], counted |-> {}]
NoInfo == [t \in {} |-> <<>>]

(* AtMost(n, S): what LIMIT n may return of S, in no stated order. *)
AtMost(n, S) == {part \in SUBSET S :
    Cardinality(part) = IF Cardinality(S) <= n THEN Cardinality(S) ELSE n}

IntrospectInit ==
    /\ live \in [Table -> (UNION {Catalogues[t] : t \in Table}) \cup {Null}]
    /\ \A t \in TablesOf(live) : live[t] \in Catalogues[t]
    /\ at = "idle"
    /\ tables = NothingRead
    /\ keys = {} /\ references = {} /\ info = NoInfo
    /\ hint = Unsampled /\ todo = {} /\ lookup = Null
    /\ aborted = FALSE
    /\ left = [readings |-> MaxReadings, migrations |-> MaxMigrations]
    /\ held = Unheld /\ referred = Unheld
    /\ calm = TRUE
    /\ readings = {}
-----------------------------------------------------------------------------
(* _TABLES_SQL.  reltuples is an estimate, and counts as 0 as long as the  *)
(* table was never analyzed, whatever it holds.                            *)
ReadTables ==
    /\ at = "idle"
    /\ left.readings > 0
    /\ left' = [left EXCEPT !.readings = @ - 1]
    /\ \E counted \in SUBSET TablesOf(live) :
          tables' = [names |-> TablesOf(live) \ Excluded,
                     comment |-> [t \in Table |->
                         IF live[t] = Null THEN Null ELSE live[t].comment],
                     counted |-> counted]
    /\ at' = "keys"
    /\ calm' = TRUE
    /\ UNCHANGED <<live, keys, references, info, hint, todo, lookup, aborted, found,
                   readings>>

(* The primary key, which information_schema has refer to itself, and the  *)
(* foreign keys; unique and check constraints are left out.                *)
PrimaryKey(t) == [constraint |-> live[t].pkey, columns |-> live[t].keys, table |-> t,
                  refs |-> live[t].keys]
ConstraintsOf(t) ==
    live[t].foreign \cup (IF live[t].keys = {} THEN {} ELSE {PrimaryKey(t)})
Constraints == UNION {ConstraintsOf(t) : t \in TablesOf(live)}

(* _PK_SQL.  Its join compares the name of a constraint and its schema;    *)
(* constraints that share a name, which Postgres forbids within a table    *)
(* only, are mixed up.                                                     *)
KeyRows ==
    {p \in Slot : p[1] \in TablesOf(live) /\ live[p[1]].keys # {} /\
        \E k \in Constraints : k.constraint = live[p[1]].pkey /\ p[2] \in k.columns}

ReadKeys ==
    /\ at = "keys"
    /\ keys' = KeyRows
    /\ at' = "references"
    /\ UNCHANGED <<live, tables, references, info, hint, todo, lookup, aborted, left, found,
                   calm, readings>>

(* Mutant: the second join does not compare the names of the constraints. *)
ReferenceRowsUnjoined ==
    {r \in ReferenceRow : r.table \in TablesOf(live) /\
        \E k \in live[r.table].foreign : \E local, foreign \in Constraints :
            /\ local.constraint = k.constraint
            /\ r.column \in local.columns
            /\ r.target.table = foreign.table /\ r.target.column \in foreign.refs}

(* _FK_SQL.  Its joins compare the name and the schema as well, so a key   *)
(* of several columns gives every pair of them.                            *)
ReferenceRows ==
    {r \in ReferenceRow : r.table \in TablesOf(live) /\
        \E k \in live[r.table].foreign : \E local, foreign \in Constraints :
            /\ local.constraint = k.constraint /\ foreign.constraint = k.constraint
            /\ r.column \in local.columns
            /\ r.target.table = foreign.table /\ r.target.column \in foreign.refs}

SameColumn(r, s) == r.table = s.table /\ r.column = s.column

(* The dictionary keeps the last row of each column. *)
ReadReferences ==
    /\ at = "references"
    /\ \E kept \in SUBSET ReferenceRows :
          /\ \A r \in ReferenceRows : \E k \in kept : SameColumn(k, r)
          /\ \A k, l \in kept : SameColumn(k, l) => k = l
          /\ references' = kept
    /\ at' = "columns"
    /\ UNCHANGED <<live, tables, keys, info, hint, todo, lookup, aborted, left, found, calm,
                   readings>>

(* How data_type is written. *)
ShortType(c) ==
    IF c.type = "USER-DEFINED" THEN c.udt
    ELSE IF c.type = "character varying" THEN "varchar"
    ELSE IF c.type = "timestamp without time zone" THEN "timestamp"
    ELSE IF c.type = "timestamp with time zone" THEN "timestamptz"
    ELSE c.type

RefOf(t, c) ==
    LET rows == {r \in references : r.table = t /\ r.column = c}
    IN  IF rows = {} THEN Null ELSE (CHOOSE r \in rows : TRUE).target

ColumnOf(t, c) == [name |-> c.name, type |-> ShortType(c),
                   key |-> <<t, c.name>> \in keys, ref |-> RefOf(t, c.name)]

(* The loops over the columns to sample leave out tables estimated empty. *)
EnumSlots(columns) ==
    {p \in Slot : p[1] \in tables.names \cap tables.counted /\ p[2] \in Enumish
        /\ \E c \in ToSet(columns[p[1]]) :
              c.name = p[2] /\ c.type \in {"varchar", "text", "character"}}
LookupSlots ==
    {p \in Slot : p[1] \in tables.names \cap tables.counted
        /\ \E c \in ToSet(info[p[1]]) : c.name = p[2] /\ c.ref = LookupTarget}

(* Mutant: tables that were not listed, the excluded ones too, come along. *)
ReadColumnsOfAll ==
    /\ at = "columns"
    /\ info' = [t \in TablesOf(live) |->
          [i \in DOMAIN live[t].columns |-> ColumnOf(t, live[t].columns[i])]]
    /\ todo' = {}
    /\ at' = "enums"
    /\ UNCHANGED <<live, tables, keys, references, hint, lookup, aborted, left, found, calm,
                   readings>>

(* _COLUMNS_SQL, for the tables that were listed. *)
ReadColumns ==
    /\ at = "columns"
    /\ info' = [t \in tables.names |->
          IF live[t] = Null THEN <<>>
          ELSE [i \in DOMAIN live[t].columns |-> ColumnOf(t, live[t].columns[i])]]
    /\ todo' = EnumSlots(info')
    /\ at' = "enums"
    /\ UNCHANGED <<live, tables, keys, references, hint, lookup, aborted, left, found, calm,
                   readings>>
-----------------------------------------------------------------------------
Exists(p) ==
    /\ live[p[1]] # Null
    /\ \E c \in ToSet(live[p[1]].columns) : c.name = p[2]

(* Mutant: every list that was fetched is kept. *)
EnumHintAlways(fetched) ==
    IF fetched # {} THEN [code |-> Null, values |-> {Cut[v] : v \in fetched}] ELSE NoHint

EnumHint(fetched) ==
    IF fetched # {} /\ Cardinality(fetched) <= EnumKeep
    THEN [code |-> Null, values |-> {Cut[v] : v \in fetched}] ELSE NoHint

(* _attach_enum_samples: SELECT DISTINCT of one column, which other        *)
(* transactions have filled with anything.                                 *)
SampleEnum(p) ==
    /\ at = "enums" /\ p \in todo
    /\ ~aborted /\ Exists(p)
    /\ \E distinct \in SUBSET Value : \E fetched \in AtMost(EnumFetch, distinct) :
          /\ hint' = [hint EXCEPT ![p] = EnumHint(fetched)]
          /\ held' = [held EXCEPT ![p] = distinct]
    /\ todo' = todo \ {p}
    /\ UNCHANGED <<live, at, tables, keys, references, info, lookup, aborted, left,
                   referred, calm, readings>>

ToLookups ==
    /\ at = "enums" /\ todo = {}
    /\ at' = "lookups"
    /\ todo' = LookupSlots
    /\ UNCHANGED <<live, tables, keys, references, info, hint, lookup, aborted, left, found,
                   calm, readings>>

(* Mutant: the first of the groups found. *)
GroupOfFirst(codes) == IF codes = {} THEN Null ELSE CHOOSE k \in codes : TRUE

(* Only a column that maps to exactly one group is worth a hint. *)
GroupOf(codes) ==
    IF Cardinality(codes) = 1 THEN CHOOSE k \in codes : TRUE ELSE Null

(* _attach_lookup_codes: the groups that a sample of the references is of. *)
SampleLookup(p) ==
    /\ at = "lookups" /\ p \in todo /\ lookup = Null
    /\ ~aborted /\ Exists(p)
    /\ \E rows \in SUBSET Reference : \E sample \in AtMost(SampleRows, rows) :
       \E codes \in AtMost(CodeFetch, {CodeOf[r] : r \in sample}) :
          /\ referred' = [referred EXCEPT ![p] = rows]
          /\ lookup' = IF GroupOf(codes) = Null THEN Null
                       ELSE [slot |-> p, code |-> GroupOf(codes)]
    /\ todo' = todo \ {p}
    /\ UNCHANGED <<live, at, tables, keys, references, info, hint, aborted, left, held,
                   calm, readings>>

(* The values of the group; the column becomes known either way. *)
ListCodes(p) ==
    /\ lookup # Null /\ p = lookup.slot
    /\ \/ /\ ~aborted
          /\ \E permitted \in SUBSET Value : \E shown \in AtMost(ListedCodes, permitted) :
                hint' = [hint EXCEPT ![p] = [code |-> lookup.code, values |-> shown]]
          /\ UNCHANGED aborted
       \/ /\ hint' = [hint EXCEPT ![p] = [code |-> lookup.code, values |-> {}]]
          /\ aborted' = TRUE
    /\ lookup' = Null
    /\ UNCHANGED <<live, at, tables, keys, references, info, todo, left, found, calm,
                   readings>>

(* A sampling statement fails: a timeout, a lock, a privilege, a column    *)
(* that a migration has dropped, or a statement that has failed before.    *)
SampleFails(p) ==
    /\ at \in {"enums", "lookups"} /\ p \in todo /\ lookup = Null
    /\ aborted' = TRUE
    /\ todo' = todo \ {p}
    /\ UNCHANGED <<live, at, tables, keys, references, info, hint, lookup, left, found,
                   calm, readings>>
-----------------------------------------------------------------------------
Shape(t) == [i \in DOMAIN info[t] |->
                [name |-> info[t][i].name, type |-> info[t][i].type, ref |-> info[t][i].ref]]

(* build_description: the columns by which a table is described.           *)
KeyColumns(shape) ==
    LET named == SelectSeq(shape, LAMBDA c : c.name \notin Noise)
        kept == IF Len(named) <= KeyLimit THEN Len(named) ELSE KeyLimit
    IN  [i \in 1 .. kept |-> named[i].name]

RelatedTables(shape) == {c.ref.table : c \in {d \in ToSet(shape) : d.ref # Null}}

(* A curated purpose wins over the comment, which wins over a phrase. *)
Purpose(t, comment) ==
    IF t \in Curated THEN "glossary" ELSE IF comment # Null THEN comment ELSE "phrase"

Description(purpose, shape) == [purpose |-> purpose, columns |-> KeyColumns(shape),
                                related |-> RelatedTables(shape)]

(* Mutant: the columns as the prompt shows them, with what was sampled. *)
ChecksumOfHints(t) ==
    [description |-> Description(Purpose(t, tables.comment[t]), Shape(t)), shape |-> Shape(t),
     hints |-> [i \in DOMAIN info[t] |-> hint[<<t, info[t][i].name>>]]]

Checksum(t) ==
    [description |-> Description(Purpose(t, tables.comment[t]), Shape(t)), shape |-> Shape(t)]

(* The constraints of Postgres: names are unique within a table only, and  *)
(* here across the schema too, as the catalogue queries take for granted.  *)
NamesUnshared ==
    \A t, u \in TablesOf(live) : \A k \in ConstraintsOf(t), l \in ConstraintsOf(u) :
        k.constraint = l.constraint => t = u /\ k = l

(* The row that index_schema would store for t; from is history: what t    *)
(* was when it was read, if no migration came in between.                  *)
RowOf(t) == [table |-> t, checksum |-> Checksum(t),
             from |-> IF calm /\ NamesUnshared THEN live[t] ELSE Null]

Idle ==
    /\ at' = "idle"
    /\ tables' = NothingRead
    /\ keys' = {} /\ references' = {} /\ info' = NoInfo
    /\ hint' = Unsampled /\ todo' = {} /\ lookup' = Null
    /\ aborted' = FALSE
    /\ held' = Unheld /\ referred' = Unheld

(* The connection is given back; the transaction rolled back. *)
Finish ==
    /\ at = "lookups" /\ todo = {} /\ lookup = Null
    /\ readings' = readings \cup {RowOf(t) : t \in tables.names}
    /\ Idle
    /\ UNCHANGED <<live, left, calm>>

(* A catalogue query fails, and nothing catches it. *)
Raise ==
    /\ at \in {"keys", "references", "columns"}
    /\ Idle
    /\ UNCHANGED <<live, left, calm, readings>>

(* A table that was sampled stays share-locked until the transaction ends  *)
(* or fails.  The lookup tables, locked as well, are left to migrate.      *)
Locked(t) == ~aborted /\ \E n \in Name : held[<<t, n>>] # Null \/ referred[<<t, n>>] # Null

(* A migration creates, changes or drops a table. *)
Migrate(t, c) ==
    /\ left.migrations > 0
    /\ c # live[t] /\ ~Locked(t)
    /\ left' = [left EXCEPT !.migrations = @ - 1]
    /\ live' = [live EXCEPT ![t] = c]
    /\ calm' = FALSE
    /\ UNCHANGED <<readVars, found, readings>>

SampleStep(p) == SampleEnum(p) \/ SampleLookup(p) \/ ListCodes(p) \/ SampleFails(p)

IntrospectNext ==
    \/ ReadTables \/ ReadKeys \/ ReadReferences \/ ReadColumns
    \/ \E p \in Slot : SampleStep(p)
    \/ ToLookups \/ Finish \/ Raise
    \/ \E t \in Table : \E c \in Catalogues[t] \cup {Null} : Migrate(t, c)

IntrospectSpec == IntrospectInit /\ [][IntrospectNext]_introspectVars
-----------------------------------------------------------------------------
Shaped == at \in {"enums", "lookups"}

IntrospectTypeOK ==
    /\ at \in {"idle", "keys", "references", "columns", "enums", "lookups"}
    /\ tables.names \subseteq Table \ Excluded
    /\ keys \subseteq Slot
    /\ references \subseteq ReferenceRow
    /\ DOMAIN info = IF Shaped THEN tables.names ELSE {}
    /\ \A t \in DOMAIN info : info[t] \in Seq(Column)
    /\ hint \in [Slot -> Hint]
    /\ todo \subseteq {p \in Slot : p[1] \in DOMAIN info}
    /\ lookup # Null => lookup \in [slot : Slot, code : Code]
    /\ aborted \in BOOLEAN
    /\ held \in [Slot -> {Null} \cup SUBSET Value]
    /\ referred \in [Slot -> {Null} \cup SUBSET Reference]

(* What the foreign keys of a column refer to, in a catalogue.             *)
Targets(c, n) == UNION {[table : {k.table}, column : k.refs] :
                           k \in {f \in c.foreign : n \in f.columns}}

(* A reading that no migration has interrupted is the schema: columns in   *)
(* order, primary keys and references.  A column refers to the table that  *)
(* one of its foreign keys refers to, and to the very column when that key *)
(* has just one, so that the relations a table is described and expanded   *)
(* by are right for keys of several columns too.                           *)
CatalogueExact ==
    Shaped /\ calm =>
        /\ tables.names = TablesOf(live) \ Excluded
        /\ \A t \in tables.names :
              /\ Len(info[t]) = Len(live[t].columns)
              /\ \A i \in DOMAIN info[t] :
                    /\ info[t][i].name = live[t].columns[i].name
                    /\ NamesUnshared =>
                          LET targets == Targets(live[t], info[t][i].name)
                              ref == info[t][i].ref
                          IN  /\ info[t][i].key <=> info[t][i].name \in live[t].keys
                              /\ IF targets = {} THEN ref = Null ELSE ref \in targets

(* The values listed for an enum-like column are all it had, so that the   *)
(* model may take the list for the whole domain: never a part of a longer  *)
(* list, at the limits of the query and of the list too.                   *)
EnumHintsComplete ==
    \A p \in Slot : hint[p].code = Null /\ hint[p].values # {} =>
        hint[p].values = {Cut[v] : v \in held[p]}

(* The lookup group stated for a column is one its references belong to,   *)
(* and the only one unless there are more of them than are sampled.        *)
LookupHintsTrue ==
    \A p \in Slot : hint[p].code # Null =>
        /\ \E r \in referred[p] : CodeOf[r] = hint[p].code
        /\ Cardinality(referred[p]) <= SampleRows =>
              \A r \in referred[p] : CodeOf[r] = hint[p].code

(* Whether the catalogues c and d of a table differ in nothing that it is  *)
(* embedded and looked up by: purpose, columns in order, types, relations. *)
Alike(t, c, d) ==
    /\ Purpose(t, c.comment) = Purpose(t, d.comment)
    /\ DOMAIN c.columns = DOMAIN d.columns
    /\ \A i \in DOMAIN c.columns :
          /\ c.columns[i].name = d.columns[i].name
          /\ ShortType(c.columns[i]) = ShortType(d.columns[i])
          /\ LET n == c.columns[i].name
             IN  \/ Targets(c, n) = {} /\ Targets(d, n) = {}
                 \/ Targets(c, n) \cap Targets(d, n) # {}

Definite(c) == \A n \in Name : \A p, q \in Targets(c, n) : p = q

(* index_schema skips the tables whose checksum it has stored: "a re-run   *)
(* only re-embeds tables whose schema or glossary entry actually changed"  *)
(* (indexer.py).  Of two readings that no migration interrupted, with any  *)
(* migrations between them, the second skips a table only if it is what it *)
(* was; and if it is, and no column refers to more than one, it does skip  *)
(* it, whatever was sampled or failed to be in either.                     *)
ReembedsOnDrift ==
    at = "lookups" /\ calm /\ NamesUnshared =>
        \A t \in tables.names, r \in readings : r.table = t /\ r.from # Null =>
            /\ r.checksum = Checksum(t) => Alike(t, r.from, live[t])
            /\ Alike(t, r.from, live[t]) /\ Definite(r.from) /\ Definite(live[t])
                  => r.checksum = Checksum(t)
=============================================================================
