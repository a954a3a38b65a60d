------------------------ MODULE IntrospectionProofs ------------------------
(***************************************************************************)
(* Theorems about Introspection: type correctness, EnumHintsComplete,      *)
(* LookupHintsTrue, CatalogueExact and ReembedsOnDrift for any schema,     *)
(* contents of the tables, migrations and failures, and any limits that    *)
(* the assumption allows.                                                  *)
(***************************************************************************)
EXTENDS Introspection, FiniteSetTheorems, TLAPS

LiveOK ==
    /\ live \in [Table -> (UNION {Catalogues[t] : t \in Table}) \cup {Null}]
    /\ \A t \in TablesOf(live) : live[t] \in Catalogues[t]

TypeInv == LiveOK /\ IntrospectTypeOK

(* What has been read so far without a migration in between. *)
LastRows(kept) ==
    /\ kept \subseteq ReferenceRows
    /\ \A r \in ReferenceRows : \E k \in kept : SameColumn(k, r)
ColumnsOf(t) == [i \in DOMAIN live[t].columns |-> ColumnOf(t, live[t].columns[i])]

CatalogueRead ==
    calm =>
        /\ at # "idle" => /\ tables.names = TablesOf(live) \ Excluded
                          /\ \A t \in TablesOf(live) : tables.comment[t] = live[t].comment
        /\ at \in {"references", "columns", "enums", "lookups"} => keys = KeyRows
        /\ at \in {"columns", "enums", "lookups"} => LastRows(references)
        /\ Shaped => \A t \in tables.names : info[t] = ColumnsOf(t)

(* That a column refers to the group of that code. *)
RefersTo(p, code) ==
    /\ \E r \in referred[p] : CodeOf[r] = code
    /\ Cardinality(referred[p]) <= SampleRows => \A r \in referred[p] : CodeOf[r] = code

HintInv ==
    /\ \A p \in Slot : hint[p].code = Null /\ hint[p].values # {} =>
           hint[p].values = {Cut[v] : v \in held[p]}
    /\ \A p \in Slot : hint[p].code # Null => RefersTo(p, hint[p].code)
    /\ lookup # Null => RefersTo(lookup.slot, lookup.code) /\ lookup.slot \notin todo
    /\ lookup # Null => at = "lookups"
    /\ at # "lookups" => \A p \in Slot : hint[p].code = Null
    /\ \A p \in todo : hint[p].code = Null

(* What may be read of a table whose catalogue is c, with names unshared.  *)
ShapeReads(shape, c) ==
    /\ shape = [i \in DOMAIN c.columns |->
                   [name |-> c.columns[i].name, type |-> ShortType(c.columns[i]),
                    ref |-> shape[i].ref]]
    /\ \A i \in DOMAIN c.columns :
          LET targets == Targets(c, c.columns[i].name)
          IN  IF targets = {} THEN shape[i].ref = Null ELSE shape[i].ref \in targets
Sum(t, comment, shape) ==
    [description |-> Description(Purpose(t, comment), shape), shape |-> shape]

(* The checksum stored of a reading that was not interrupted is that of    *)
(* the catalogue it was a reading of.                                      *)
RowsRead ==
    \A r \in readings : r.from # Null =>
        /\ r.from \in Catalogue
        /\ \E shape : ShapeReads(shape, r.from) /\ r.checksum = Sum(r.table, r.from.comment, shape)
-----------------------------------------------------------------------------
(* AtMost(n, S): a part that stays under the limit is the whole. *)
LEMMA UnderLimit ==
  ASSUME NEW S, IsFiniteSet(S), NEW n \in Nat, NEW part \in AtMost(n, S),
         Cardinality(part) < n
  PROVE  part = S
<1>1. part \subseteq S /\ Cardinality(S) \in Nat
  BY FS_CardinalityType DEF AtMost
<1>2. Cardinality(part) = Cardinality(S)
  BY <1>1 DEF AtMost
<1> QED
  BY <1>1, <1>2, FS_Subset

LEMMA WithinLimit ==
  ASSUME NEW S, IsFiniteSet(S), NEW n \in Nat, NEW part \in AtMost(n, S),
         Cardinality(S) <= n
  PROVE  part = S
<1>1. part \subseteq S /\ Cardinality(part) = Cardinality(S)
  BY DEF AtMost
<1> QED
  BY <1>1, FS_Subset

LEMMA CodesFinite ==
  ASSUME NEW sample \in SUBSET Reference
  PROVE  IsFiniteSet({CodeOf[r] : r \in sample})
<1> DEFINE C == {CodeOf[r] : r \in sample}
           f == [r \in sample |-> CodeOf[r]]
<1>1. IsFiniteSet(sample)
  BY FS_Subset, IntrospectAssumption
<1>2. f \in Surjection(sample, C)
  BY DEF Surjection
<1> HIDE DEF C, f
<1>3. IsFiniteSet(C)
  BY <1>1, <1>2, FS_Surjection
<1> QED
  BY <1>3 DEF C

(* A group is told when all groups that were fetched are one. *)
LEMMA GroupTold ==
  ASSUME NEW sample \in SUBSET Reference,
         NEW codes \in AtMost(CodeFetch, {CodeOf[r] : r \in sample}),
         GroupOf(codes) # Null
  PROVE  /\ GroupOf(codes) \in Code
         /\ sample # {}
         /\ \A r \in sample : CodeOf[r] = GroupOf(codes)
<1> DEFINE C == {CodeOf[r] : r \in sample}
<1>1. IsFiniteSet(C)
  BY CodesFinite
<1>2. codes \subseteq C /\ IsFiniteSet(codes)
  BY <1>1, FS_Subset DEF AtMost
<1>3. Cardinality(codes) = 1
  BY DEF GroupOf
<1>4. PICK k : codes = {k}
  BY <1>2, <1>3, FS_Singleton
<1>5. GroupOf(codes) = k
  BY <1>3, <1>4 DEF GroupOf
<1>6. codes = C
  <2> HIDE DEF C
  <2>1. codes \in AtMost(CodeFetch, C)
    BY DEF C
  <2>2. CodeFetch \in Nat /\ Cardinality(codes) < CodeFetch
    BY <1>3, IntrospectAssumption
  <2> QED
    BY <1>1, <2>1, <2>2, UnderLimit
<1> QED
  BY <1>4, <1>5, <1>6 DEF Code

(* A list that may be kept is all that there is. *)
LEMMA ListComplete ==
  ASSUME NEW distinct \in SUBSET Value, NEW fetched \in AtMost(EnumFetch, distinct),
         EnumHint(fetched).values # {}
  PROVE  EnumHint(fetched).values = {Cut[v] : v \in distinct}
<1>1. fetched # {} /\ Cardinality(fetched) <= EnumKeep
      /\ EnumHint(fetched).values = {Cut[v] : v \in fetched}
  BY DEF EnumHint, NoHint
<1>2. IsFiniteSet(distinct)
  BY FS_Subset, IntrospectAssumption
<1>3. Cardinality(fetched) < EnumFetch /\ EnumFetch \in Nat
  <2>1. IsFiniteSet(fetched) /\ Cardinality(fetched) \in Nat
    BY <1>2, FS_Subset, FS_CardinalityType DEF AtMost
  <2> QED
    BY <1>1, <2>1, IntrospectAssumption
<1>4. fetched = distinct
  BY <1>2, <1>3, UnderLimit
<1> QED
  BY <1>1, <1>4

LEMMA EnumHintType ==
  ASSUME NEW distinct \in SUBSET Value, NEW fetched \in AtMost(EnumFetch, distinct)
  PROVE  EnumHint(fetched) \in Hint /\ EnumHint(fetched).code = Null
<1>1. fetched \subseteq Value
  BY DEF AtMost
<1>2. {Cut[v] : v \in fetched} \subseteq Value
  BY <1>1, IntrospectAssumption
<1> QED
  BY <1>2 DEF EnumHint, NoHint, Hint
-----------------------------------------------------------------------------
LEMMA ElementType ==
  ASSUME NEW S, NEW s \in Seq(S), NEW i \in DOMAIN s
  PROVE  s[i] \in S
OBVIOUS

LEMMA ListedType ==
  ASSUME TypeInv, NEW t \in TablesOf(live)
  PROVE  /\ t \in Table /\ live[t] \in Catalogue
         /\ live[t].columns \in Seq(RawColumn) /\ live[t].keys \subseteq Name
         /\ live[t].foreign \subseteq ForeignKey
BY IntrospectAssumption DEF TypeInv, LiveOK, TablesOf, Catalogue

LEMMA ColumnTyped ==
  ASSUME TypeInv, NEW t \in Table, NEW c \in RawColumn
  PROVE  ColumnOf(t, c) \in Column
<1>1. c.name \in Name /\ c.type \in Type /\ c.udt \in Type
  BY DEF RawColumn
<1>2. ShortType(c) \in Type
  <2>1. ShortType(c) \in {c.udt, "varchar", "timestamp", "timestamptz", c.type}
    BY Zenon DEF ShortType
  <2>2. "varchar" \in Type /\ "timestamp" \in Type /\ "timestamptz" \in Type
    BY IntrospectAssumption
  <2> QED
    BY <1>1, <2>1, <2>2
<1>3. RefOf(t, c.name) \in Target \cup {Null}
  <2> DEFINE rows == {r \in references : r.table = t /\ r.column = c.name}
  <2>1. CASE rows = {}
    BY <2>1 DEF RefOf
  <2>2. CASE rows # {}
    <3>1. (CHOOSE r \in rows : TRUE) \in references
      BY <2>2
    <3>2. (CHOOSE r \in rows : TRUE).target \in Target
      BY <3>1 DEF TypeInv, IntrospectTypeOK, ReferenceRow
    <3> QED
      BY <2>2, <3>2 DEF RefOf
  <2> QED
    BY <2>1, <2>2
<1> QED
  BY <1>1, <1>2, <1>3 DEF ColumnOf, Column

LEMMA InitiallyTyped == IntrospectInit => TypeInv
<1> SUFFICES ASSUME IntrospectInit PROVE TypeInv
  OBVIOUS
<1>1. LiveOK
  BY DEF IntrospectInit, LiveOK
<1>2. Unsampled \in [Slot -> Hint]
  BY DEF Unsampled, NoHint, Hint
<1>3. Unheld \in [Slot -> {Null} \cup SUBSET Value] /\ Unheld \in [Slot -> {Null} \cup SUBSET Reference]
  BY DEF Unheld
<1>4. NothingRead.names = {} /\ DOMAIN NoInfo = {}
  BY DEF NothingRead, NoInfo
<1> QED
  BY <1>1, <1>2, <1>3, <1>4 DEF IntrospectInit, TypeInv, IntrospectTypeOK, Shaped

LEMMA IdleTyped ==
  ASSUME TypeInv, Idle, live' = live
  PROVE  TypeInv'
<1>1. LiveOK'
  BY DEF TypeInv, LiveOK, TablesOf
<1>2. Unsampled \in [Slot -> Hint]
  BY DEF Unsampled, NoHint, Hint
<1>3. Unheld \in [Slot -> {Null} \cup SUBSET Value] /\ Unheld \in [Slot -> {Null} \cup SUBSET Reference]
  BY DEF Unheld
<1>4. NothingRead.names = {} /\ DOMAIN NoInfo = {}
  BY DEF NothingRead, NoInfo
<1> QED
  BY <1>1, <1>2, <1>3, <1>4 DEF Idle, TypeInv, IntrospectTypeOK, Shaped

LEMMA ReadColumnsTyped ==
  ASSUME TypeInv, ReadColumns
  PROVE  TypeInv'
<1>1. LiveOK'
  BY DEF ReadColumns, TypeInv, LiveOK, TablesOf
<1>2. DOMAIN info' = tables.names /\ tables' = tables /\ at' = "enums"
  BY DEF ReadColumns
<1>3. ASSUME NEW t \in tables.names
      PROVE  info'[t] \in Seq(Column)
  <2>1. CASE live[t] = Null
    BY <2>1 DEF ReadColumns
  <2>2. CASE live[t] # Null
    <3>1. t \in TablesOf(live)
      BY <2>2 DEF TypeInv, IntrospectTypeOK, TablesOf
    <3>2. live[t].columns \in Seq(RawColumn) /\ t \in Table
      BY <3>1, ListedType
    <3> DEFINE s == live[t].columns
               c(i) == ColumnOf(t, s[i])
    <3>3. DOMAIN s = 1 .. Len(s) /\ Len(s) \in Nat /\ \A i \in DOMAIN s : s[i] \in RawColumn
      BY <3>2
    <3>4. \A i \in 1 .. Len(s) : c(i) \in Column
      BY <3>2, <3>3, ColumnTyped
    <3>5. info'[t] = [i \in 1 .. Len(s) |-> c(i)]
      BY <2>2, <3>3 DEF ReadColumns
    <3> HIDE DEF s, c
    <3> QED
      BY <3>3, <3>4, <3>5
  <2> QED
    BY <2>1, <2>2
<1>4. todo' \subseteq {p \in Slot : p[1] \in DOMAIN info'}
  BY <1>2 DEF ReadColumns, EnumSlots
<1> QED
  <2>1. (DOMAIN info = IF Shaped THEN tables.names ELSE {})' /\ (\A t \in DOMAIN info : info[t] \in Seq(Column))'
    BY <1>2, <1>3 DEF Shaped
  <2> QED
    BY <1>1, <1>2, <1>4, <2>1 DEF ReadColumns, TypeInv, IntrospectTypeOK, found

LEMMA ListCodesTyped ==
  ASSUME TypeInv, NEW p \in Slot, ListCodes(p)
  PROVE  TypeInv'
<1>1. LiveOK'
  BY DEF ListCodes, TypeInv, LiveOK, TablesOf
<1>2. lookup.code \in Code
  BY DEF ListCodes, TypeInv, IntrospectTypeOK
<1>3. hint' \in [Slot -> Hint] /\ aborted' \in BOOLEAN
  <2>1. CASE ~aborted /\ \E permitted \in SUBSET Value : \E shown \in AtMost(ListedCodes, permitted) :
                hint' = [hint EXCEPT ![p] = [code |-> lookup.code, values |-> shown]]
    <3>1. PICK shown \in SUBSET Value : hint' = [hint EXCEPT ![p] = [code |-> lookup.code, values |-> shown]]
      BY <2>1 DEF AtMost
    <3>2. [code |-> lookup.code, values |-> shown] \in Hint
      BY <1>2 DEF Hint
    <3> QED
      BY <3>1, <3>2 DEF ListCodes, TypeInv, IntrospectTypeOK
  <2>2. CASE /\ hint' = [hint EXCEPT ![p] = [code |-> lookup.code, values |-> {}]]
             /\ aborted' = TRUE
    <3>1. [code |-> lookup.code, values |-> {}] \in Hint
      BY <1>2 DEF Hint
    <3> QED
      BY <2>2, <3>1 DEF TypeInv, IntrospectTypeOK
  <2> QED
    BY <2>1, <2>2 DEF ListCodes, TypeInv, IntrospectTypeOK
<1>4. lookup' = Null /\ UNCHANGED <<at, tables, keys, references, info, todo, held, referred>>
  BY DEF ListCodes, found
<1> QED
  BY <1>1, <1>3, <1>4 DEF TypeInv, IntrospectTypeOK, Shaped

LEMMA SampleEnumTyped ==
  ASSUME TypeInv, NEW p \in Slot, SampleEnum(p)
  PROVE  TypeInv'
<1>1. LiveOK'
  BY DEF SampleEnum, TypeInv, LiveOK, TablesOf
<1>2. PICK distinct \in SUBSET Value : \E fetched \in AtMost(EnumFetch, distinct) :
          /\ hint' = [hint EXCEPT ![p] = EnumHint(fetched)]
          /\ held' = [held EXCEPT ![p] = distinct]
  BY DEF SampleEnum
<1>3. PICK fetched \in AtMost(EnumFetch, distinct) :
          /\ hint' = [hint EXCEPT ![p] = EnumHint(fetched)]
          /\ held' = [held EXCEPT ![p] = distinct]
  BY <1>2
<1>4. EnumHint(fetched) \in Hint
  BY EnumHintType
<1>5. hint' \in [Slot -> Hint] /\ held' \in [Slot -> {Null} \cup SUBSET Value]
  BY <1>3, <1>4 DEF TypeInv, IntrospectTypeOK
<1> QED
  BY <1>1, <1>5 DEF SampleEnum, TypeInv, IntrospectTypeOK, Shaped

(* What a lookup found, and the values its bound variables had. *)
Sampled(p, rows, sample, codes) ==
    /\ sample \in AtMost(SampleRows, rows)
    /\ codes \in AtMost(CodeFetch, {CodeOf[r] : r \in sample})
    /\ referred' = [referred EXCEPT ![p] = rows]
    /\ lookup' = IF GroupOf(codes) = Null THEN Null
                 ELSE [slot |-> p, code |-> GroupOf(codes)]

LEMMA SampleTaken ==
  ASSUME NEW p \in Slot, SampleLookup(p)
  PROVE  \E rows \in SUBSET Reference, sample \in SUBSET Reference :
             \E codes : Sampled(p, rows, sample, codes)
<1>1. PICK rows \in SUBSET Reference :
          \E sample \in AtMost(SampleRows, rows) :
          \E codes \in AtMost(CodeFetch, {CodeOf[r] : r \in sample}) :
              Sampled(p, rows, sample, codes)
  BY DEF SampleLookup, Sampled
<1>2. \A sample \in AtMost(SampleRows, rows) : sample \in SUBSET Reference
  BY DEF AtMost
<1> QED
  BY <1>1, <1>2

LEMMA SampleLookupTyped ==
  ASSUME TypeInv, NEW p \in Slot, SampleLookup(p)
  PROVE  TypeInv'
<1>1. LiveOK'
  BY DEF SampleLookup, TypeInv, LiveOK, TablesOf
<1>2. PICK rows \in SUBSET Reference, sample \in SUBSET Reference : \E codes :
          Sampled(p, rows, sample, codes)
  BY SampleTaken
<1>3. PICK codes : Sampled(p, rows, sample, codes)
  BY <1>2
<1>4. lookup' # Null => lookup' \in [slot : Slot, code : Code]
  BY <1>3, GroupTold DEF Sampled
<1>5. referred' \in [Slot -> {Null} \cup SUBSET Reference]
  BY <1>3 DEF Sampled, TypeInv, IntrospectTypeOK
<1> QED
  BY <1>1, <1>4, <1>5 DEF SampleLookup, TypeInv, IntrospectTypeOK, Shaped

LEMMA TypeInvStep ==
  ASSUME TypeInv, [IntrospectNext]_introspectVars
  PROVE  TypeInv'
<1> USE DEF TypeInv, LiveOK, TablesOf, IntrospectTypeOK, Shaped
<1>1. CASE UNCHANGED introspectVars
  BY <1>1 DEF introspectVars, readVars, found
<1>2. CASE ReadTables
  <2>1. tables'.names \subseteq Table \ Excluded
    BY <1>2 DEF ReadTables
  <2>2. todo' = {} /\ DOMAIN info' = {} /\ at' = "keys"
    BY <1>2 DEF ReadTables
  <2> QED
    BY <1>2, <2>1, <2>2 DEF ReadTables, found
<1>3. CASE ReadKeys
  BY <1>3 DEF ReadKeys, KeyRows, found
<1>4. CASE ReadReferences
  <2>1. references' \subseteq ReferenceRow
    BY <1>4 DEF ReadReferences, ReferenceRows
  <2> QED
    BY <1>4, <2>1 DEF ReadReferences, found
<1>5. CASE ReadColumns
  BY <1>5, ReadColumnsTyped
<1>6. ASSUME NEW p \in Slot, SampleStep(p)
      PROVE  TypeInv'
  <2>1. CASE SampleEnum(p)
    BY <2>1, SampleEnumTyped
  <2>2. CASE SampleLookup(p)
    BY <2>2, SampleLookupTyped
  <2>3. CASE ListCodes(p)
    BY <2>3, ListCodesTyped
  <2>4. CASE SampleFails(p)
    BY <2>4 DEF SampleFails, found
  <2> QED
    BY <1>6, <2>1, <2>2, <2>3, <2>4 DEF SampleStep
<1>7. CASE ToLookups
  <2>1. todo' \subseteq {p \in Slot : p[1] \in DOMAIN info}
    BY <1>7 DEF ToLookups, LookupSlots
  <2> QED
    BY <1>7, <2>1 DEF ToLookups, found
<1>8. CASE Finish \/ Raise
  BY <1>8, IdleTyped DEF Finish, Raise
<1>9. ASSUME NEW t \in Table, NEW c \in Catalogues[t] \cup {Null}, Migrate(t, c)
      PROVE  TypeInv'
  <2>1. live' = [live EXCEPT ![t] = c]
    BY <1>9 DEF Migrate
  <2>2. LiveOK'
    <3> DEFINE U == (UNION {Catalogues[u] : u \in Table}) \cup {Null}
    <3>1. live' \in [Table -> U]
      <4>1. Catalogues[t] \in {Catalogues[u] : u \in Table}
        OBVIOUS
      <4>2. live \in [Table -> U]
        OBVIOUS
      <4>3. c \in U
        <5>1. CASE c = Null
          BY <5>1
        <5>2. CASE c \in Catalogues[t]
          <6>1. c \in UNION {Catalogues[u] : u \in Table}
            BY <5>2, <4>1
          <6> QED
            BY <6>1
        <5> QED
          BY <5>1, <5>2
      <4> HIDE DEF U
      <4> QED
        BY <2>1, <4>2, <4>3
    <3>2. \A u \in Table : live'[u] = Null \/ live'[u] \in Catalogues[u]
      BY <2>1
    <3> QED
      BY <3>1, <3>2
  <2>3. UNCHANGED <<readVars, held, referred>>
    BY <1>9 DEF Migrate, found
  <2> QED
    BY <2>2, <2>3 DEF readVars
<1> QED
  BY <1>1, <1>2, <1>3, <1>4, <1>5, <1>6, <1>7, <1>8, <1>9 DEF IntrospectNext

(* Type correctness of a reading, whatever the schema and the data are:    *)
(* introspect_schema keeps to the tables that it has listed.               *)
THEOREM IntrospectTypes == IntrospectSpec => []IntrospectTypeOK
<1>1. IntrospectInit => TypeInv
  BY InitiallyTyped
<1>2. TypeInv /\ [IntrospectNext]_introspectVars => TypeInv'
  BY TypeInvStep
<1>3. TypeInv => IntrospectTypeOK
  BY DEF TypeInv
<1> QED
  BY <1>1, <1>2, <1>3, PTL DEF IntrospectSpec
-----------------------------------------------------------------------------
(* A part of what a column refers to names its group. *)
LEMMA SampledRefers ==
  ASSUME TypeInv, NEW p \in Slot, NEW rows \in SUBSET Reference,
         NEW sample \in SUBSET Reference, NEW codes, Sampled(p, rows, sample, codes),
         lookup' # Null
  PROVE  RefersTo(p, lookup.code)' /\ lookup'.slot = p
<1>1. /\ sample \in AtMost(SampleRows, rows)
      /\ codes \in AtMost(CodeFetch, {CodeOf[r] : r \in sample})
      /\ referred'[p] = rows
      /\ GroupOf(codes) # Null
      /\ lookup' = [slot |-> p, code |-> GroupOf(codes)]
  BY DEF Sampled, TypeInv, IntrospectTypeOK
<1>2. sample # {} /\ \A r \in sample : CodeOf[r] = GroupOf(codes)
  BY <1>1, GroupTold
<1>3. sample \subseteq rows
  BY <1>1 DEF AtMost
<1>4. IsFiniteSet(rows)
  BY FS_Subset, IntrospectAssumption
<1>5. Cardinality(rows) <= SampleRows => sample = rows
  BY <1>1, <1>4, WithinLimit, IntrospectAssumption
<1> QED
  BY <1>1, <1>2, <1>3, <1>5 DEF RefersTo

LEMMA InitiallyHinted == IntrospectInit => HintInv
BY DEF IntrospectInit, HintInv, Unsampled, NoHint, Unheld

LEMMA IdleHinted ==
  ASSUME Idle
  PROVE  HintInv'
BY DEF Idle, HintInv, Unsampled, NoHint

LEMMA SampleEnumHinted ==
  ASSUME TypeInv, HintInv, NEW p \in Slot, SampleEnum(p)
  PROVE  HintInv'
<1>1. PICK distinct \in SUBSET Value : \E fetched \in AtMost(EnumFetch, distinct) :
          /\ hint' = [hint EXCEPT ![p] = EnumHint(fetched)]
          /\ held' = [held EXCEPT ![p] = distinct]
  BY DEF SampleEnum
<1>2. PICK fetched \in AtMost(EnumFetch, distinct) :
          /\ hint' = [hint EXCEPT ![p] = EnumHint(fetched)]
          /\ held' = [held EXCEPT ![p] = distinct]
  BY <1>1
<1> DEFINE new == EnumHint(fetched)
<1>3. new.code = Null /\ (new.values # {} => new.values = {Cut[v] : v \in distinct})
  BY EnumHintType, ListComplete
<1> HIDE DEF new
<1>4. \A q \in Slot : /\ hint'[q] = IF q = p THEN new ELSE hint[q]
                      /\ held'[q] = IF q = p THEN distinct ELSE held[q]
  BY <1>2 DEF new, TypeInv, IntrospectTypeOK
<1>5. at = "enums" /\ todo' \subseteq todo
      /\ UNCHANGED <<at, lookup, referred>>
  BY DEF SampleEnum
<1>6. todo \subseteq Slot
  BY DEF TypeInv, IntrospectTypeOK
<1> QED
  BY <1>3, <1>4, <1>5, <1>6 DEF HintInv, RefersTo

LEMMA SampleLookupHinted ==
  ASSUME TypeInv, HintInv, NEW p \in Slot, SampleLookup(p)
  PROVE  HintInv'
<1>1. PICK rows \in SUBSET Reference, sample \in SUBSET Reference :
          \E codes : Sampled(p, rows, sample, codes)
  BY SampleTaken
<1>2. PICK codes : Sampled(p, rows, sample, codes)
  BY <1>1
<1>3. lookup' # Null => RefersTo(p, lookup.code)' /\ lookup'.slot = p
  BY <1>2, SampledRefers
<1>4. \A q \in Slot : q # p => referred'[q] = referred[q]
  BY <1>2 DEF Sampled, TypeInv, IntrospectTypeOK
<1>5. /\ at = "lookups" /\ p \in todo /\ todo' = todo \ {p}
      /\ UNCHANGED <<at, hint, held>>
  BY DEF SampleLookup
<1>6. hint[p].code = Null
  BY <1>5 DEF HintInv
<1> QED
  BY <1>3, <1>4, <1>5, <1>6 DEF HintInv, RefersTo

LEMMA ListCodesHinted ==
  ASSUME TypeInv, HintInv, NEW p \in Slot, ListCodes(p)
  PROVE  HintInv'
<1>1. PICK shown : hint' = [hint EXCEPT ![p] = [code |-> lookup.code, values |-> shown]]
  BY DEF ListCodes
<1>2. \A q \in Slot : hint'[q] = IF q = p THEN [code |-> lookup.code, values |-> shown] ELSE hint[q]
  BY <1>1 DEF TypeInv, IntrospectTypeOK
<1>3. /\ lookup # Null /\ p = lookup.slot /\ lookup' = Null
      /\ UNCHANGED <<at, todo, held, referred>>
  BY DEF ListCodes, found
<1>4. lookup.code # Null
  BY <1>3, IntrospectAssumption DEF TypeInv, IntrospectTypeOK, Code
<1>5. RefersTo(p, lookup.code) /\ p \notin todo /\ at = "lookups"
  BY <1>3 DEF HintInv
<1>6. todo \subseteq Slot
  BY DEF TypeInv, IntrospectTypeOK
<1> QED
  BY <1>2, <1>3, <1>4, <1>5, <1>6 DEF HintInv, RefersTo

LEMMA HintInvStep ==
  ASSUME TypeInv, HintInv, [IntrospectNext]_introspectVars
  PROVE  HintInv'
<1>1. CASE UNCHANGED introspectVars
  BY <1>1 DEF introspectVars, readVars, found, HintInv, RefersTo
<1>2. CASE ReadTables \/ ReadKeys \/ ReadReferences
  <2>1. /\ UNCHANGED <<hint, todo, lookup, held, referred>>
        /\ at # "lookups" /\ at' # "lookups"
    BY <1>2 DEF ReadTables, ReadKeys, ReadReferences, found
  <2> QED
    BY <2>1 DEF HintInv, RefersTo
<1>3. CASE ReadColumns
  <2>1. /\ UNCHANGED <<hint, lookup, held, referred>>
        /\ at # "lookups" /\ at' = "enums"
    BY <1>3 DEF ReadColumns, found
  <2>2. todo' \subseteq Slot /\ lookup = Null
    BY <1>3, <2>1 DEF ReadColumns, EnumSlots, HintInv
  <2> QED
    BY <2>1, <2>2 DEF HintInv, RefersTo
<1>4. ASSUME NEW p \in Slot, SampleStep(p)
      PROVE  HintInv'
  <2>1. CASE SampleEnum(p)
    BY <2>1, SampleEnumHinted
  <2>2. CASE SampleLookup(p)
    BY <2>2, SampleLookupHinted
  <2>3. CASE ListCodes(p)
    BY <2>3, ListCodesHinted
  <2>4. CASE SampleFails(p)
    BY <2>4 DEF SampleFails, found, HintInv, RefersTo
  <2> QED
    BY <1>4, <2>1, <2>2, <2>3, <2>4 DEF SampleStep
<1>5. CASE ToLookups
  <2>1. /\ UNCHANGED <<hint, lookup, held, referred>>
        /\ at = "enums" /\ at' = "lookups" /\ todo' \subseteq Slot
    BY <1>5 DEF ToLookups, LookupSlots, found
  <2> QED
    BY <2>1 DEF HintInv, RefersTo
<1>6. CASE Finish \/ Raise
  BY <1>6, IdleHinted DEF Finish, Raise
<1>7. ASSUME NEW t \in Table, NEW c \in Catalogues[t] \cup {Null}, Migrate(t, c)
      PROVE  HintInv'
  BY <1>7 DEF Migrate, readVars, found, HintInv, RefersTo
<1> QED
  BY <1>1, <1>2, <1>3, <1>4, <1>5, <1>6, <1>7 DEF IntrospectNext

LEMMA HintsHold == IntrospectSpec => [](TypeInv /\ HintInv)
<1>1. IntrospectInit => TypeInv /\ HintInv
  BY InitiallyTyped, InitiallyHinted
<1>2. TypeInv /\ HintInv /\ [IntrospectNext]_introspectVars => TypeInv' /\ HintInv'
  BY TypeInvStep, HintInvStep
<1> QED
  BY <1>1, <1>2, PTL DEF IntrospectSpec

(* EnumHintsComplete: whatever a column holds and whatever part of it the  *)
(* query returns, a list of values that is shown is the whole list, since  *)
(* more are fetched than are ever kept.                                    *)
THEOREM IntrospectEnumHints == IntrospectSpec => []EnumHintsComplete
<1>1. HintInv => EnumHintsComplete
  BY DEF HintInv, EnumHintsComplete
<1> QED
  BY <1>1, HintsHold, PTL

(* LookupHintsTrue: a group that is stated is one the column refers to,    *)
(* and its only one when the sample covered its references.                *)
THEOREM IntrospectLookupHints == IntrospectSpec => []LookupHintsTrue
<1>1. HintInv => LookupHintsTrue
  BY DEF HintInv, LookupHintsTrue, RefersTo
<1> QED
  BY <1>1, HintsHold, PTL
-----------------------------------------------------------------------------
LEMMA CatalogueReadStep ==
  ASSUME TypeInv, HintInv, CatalogueRead, [IntrospectNext]_introspectVars
  PROVE  CatalogueRead'
<1> USE DEF CatalogueRead, Shaped
<1>1. ASSUME UNCHANGED <<live, tables, keys, references, info, calm>>,
             at' = at \/ (at \in {"enums", "lookups"} /\ at' \in {"enums", "lookups"})
      PROVE  CatalogueRead'
  <2>1. KeyRows' = KeyRows /\ TablesOf(live)' = TablesOf(live)
    BY <1>1 DEF TablesOf, KeyRows, Constraints, ConstraintsOf, PrimaryKey
  <2>2. LastRows(references)' = LastRows(references)
    BY <1>1 DEF TablesOf, LastRows, ReferenceRows, Constraints, ConstraintsOf, PrimaryKey
  <2>3. \A t : ColumnsOf(t)' = ColumnsOf(t)
    BY <1>1 DEF ColumnsOf, ColumnOf, RefOf
  <2> QED
    BY <1>1, <2>1, <2>2, <2>3
<1>2. CASE ReadTables
  <2>1. live' = live /\ tables'.names = TablesOf(live) \ Excluded /\ at' = "keys"
    BY <1>2 DEF ReadTables
  <2>2. \A t \in TablesOf(live) : tables'.comment[t] = live[t].comment
    BY <1>2 DEF ReadTables, TablesOf
  <2> QED
    BY <2>1, <2>2 DEF TablesOf
<1>3. CASE ReadKeys
  BY <1>3 DEF ReadKeys, TablesOf, KeyRows, Constraints, ConstraintsOf, PrimaryKey
<1>4. CASE ReadReferences
  <2>1. LastRows(references')
    BY <1>4 DEF ReadReferences, LastRows
  <2>2. LastRows(references)'
    BY <1>4, <2>1 DEF ReadReferences, LastRows, ReferenceRows, Constraints,
       ConstraintsOf, PrimaryKey, TablesOf
  <2> QED
    BY <1>4, <2>2 DEF ReadReferences, TablesOf, KeyRows, Constraints, ConstraintsOf, PrimaryKey
<1>5. CASE ReadColumns
  <2>1. UNCHANGED <<live, tables, keys, references, calm>> /\ at = "columns"
    BY <1>5 DEF ReadColumns
  <2>2. ASSUME calm, NEW t \in tables.names
        PROVE  info'[t] = ColumnsOf(t)'
    <3>1. live[t] # Null
      BY <2>1, <2>2 DEF TablesOf
    <3>2. info'[t] = ColumnsOf(t)
      BY <1>5, <3>1 DEF ReadColumns, ColumnsOf
    <3> QED
      BY <2>1, <3>2 DEF ColumnsOf, ColumnOf, RefOf
  <2>3. (calm => LastRows(references))'
    BY <2>1 DEF LastRows, ReferenceRows, Constraints,
       ConstraintsOf, PrimaryKey, TablesOf
  <2> QED
    BY <2>1, <2>2, <2>3 DEF TablesOf, KeyRows, Constraints, ConstraintsOf, PrimaryKey
<1>6. CASE UNCHANGED introspectVars
  BY <1>1, <1>6 DEF introspectVars, readVars
<1>7. ASSUME NEW p \in Slot, SampleStep(p)
      PROVE  CatalogueRead'
  BY <1>1, <1>7 DEF SampleStep, SampleEnum, SampleLookup, ListCodes, SampleFails, HintInv
<1>8. CASE ToLookups
  BY <1>1, <1>8 DEF ToLookups
<1>9. CASE Finish \/ Raise
  BY <1>9 DEF Finish, Raise, Idle
<1>10. ASSUME NEW t \in Table, NEW c \in Catalogues[t] \cup {Null}, Migrate(t, c)
       PROVE  CatalogueRead'
  BY <1>10 DEF Migrate
<1> QED
  BY <1>2, <1>3, <1>4, <1>5, <1>6, <1>7, <1>8, <1>9, <1>10 DEF IntrospectNext

LEMMA CatalogueHolds == IntrospectSpec => [](TypeInv /\ CatalogueRead)
<1>1. IntrospectInit => CatalogueRead
  BY DEF IntrospectInit, CatalogueRead, Shaped
<1>2. TypeInv /\ HintInv /\ CatalogueRead /\ [IntrospectNext]_introspectVars => CatalogueRead'
  BY CatalogueReadStep
<1> QED
  BY <1>1, <1>2, HintsHold, PTL DEF IntrospectSpec

(* With names that are not shared, a constraint is found by its name.      *)
LEMMA NamedOnce ==
  ASSUME NamesUnshared, NEW t \in TablesOf(live), NEW k \in ConstraintsOf(t),
         NEW l \in Constraints, l.constraint = k.constraint
  PROVE  l = k
<1>1. PICK u \in TablesOf(live) : l \in ConstraintsOf(u)
  BY DEF Constraints
<1> QED
  BY <1>1 DEF NamesUnshared

LEMMA KeysOwn ==
  ASSUME TypeInv, NamesUnshared, NEW t \in TablesOf(live), NEW n \in Name
  PROVE  <<t, n>> \in KeyRows <=> n \in live[t].keys
<1>1. t \in Table /\ <<t, n>> \in Slot
  BY DEF TablesOf, Slot
<1>2. ASSUME live[t].keys # {}
      PROVE  PrimaryKey(t) \in ConstraintsOf(t) /\ PrimaryKey(t) \in Constraints
  BY <1>2 DEF ConstraintsOf, Constraints
<1>3. PrimaryKey(t).constraint = live[t].pkey /\ PrimaryKey(t).columns = live[t].keys
  BY DEF PrimaryKey
<1>4. ASSUME <<t, n>> \in KeyRows PROVE n \in live[t].keys
  <2>1. live[t].keys # {}
    BY <1>4 DEF KeyRows
  <2>2. PICK k \in Constraints : k.constraint = live[t].pkey /\ n \in k.columns
    BY <1>4 DEF KeyRows
  <2>3. k = PrimaryKey(t)
    BY <1>2, <1>3, <2>1, <2>2, NamedOnce
  <2> QED
    BY <1>3, <2>2, <2>3
<1>5. ASSUME n \in live[t].keys PROVE <<t, n>> \in KeyRows
  BY <1>1, <1>2, <1>3, <1>5 DEF KeyRows
<1> QED
  BY <1>4, <1>5

(* The rows of a column are then those of its own foreign keys.            *)
LEMMA RowsOwn ==
  ASSUME TypeInv, NamesUnshared, NEW r \in ReferenceRows
  PROVE  r.target \in Targets(live[r.table], r.column)
<1>1. r \in ReferenceRow /\ r.table \in TablesOf(live)
  BY DEF ReferenceRows
<1>2. PICK k \in live[r.table].foreign : \E local, foreign \in Constraints :
          /\ local.constraint = k.constraint /\ foreign.constraint = k.constraint
          /\ r.column \in local.columns
          /\ r.target.table = foreign.table /\ r.target.column \in foreign.refs
  BY DEF ReferenceRows
<1>3. PICK local \in Constraints, foreign \in Constraints :
          /\ local.constraint = k.constraint /\ foreign.constraint = k.constraint
          /\ r.column \in local.columns
          /\ r.target.table = foreign.table /\ r.target.column \in foreign.refs
  BY <1>2
<1>4. k \in ConstraintsOf(r.table)
  BY <1>2 DEF ConstraintsOf
<1>5. local = k /\ foreign = k
  BY <1>1, <1>3, <1>4, NamedOnce
<1>6. r.target \in [table : {k.table}, column : k.refs]
  BY <1>1, <1>3, <1>5 DEF ReferenceRow, Target
<1> QED
  BY <1>2, <1>3, <1>5, <1>6 DEF Targets

LEMMA OwnRows ==
  ASSUME TypeInv, NEW t \in TablesOf(live), NEW n \in Name, Targets(live[t], n) # {}
  PROVE  \E r \in ReferenceRows : r.table = t /\ r.column = n
<1>1. PICK k \in live[t].foreign : n \in k.columns
  BY DEF Targets
<1>2. k \in ForeignKey /\ k \in Constraints /\ t \in Table
  BY ListedType DEF ConstraintsOf, Constraints
<1>3. PICK d \in k.refs : TRUE
  BY <1>2 DEF ForeignKey
<1> DEFINE target == [table |-> k.table, column |-> d]
<1>4. target \in Target
  BY <1>2, <1>3 DEF ForeignKey, Target
<1>5. PICK r : r = [table |-> t, column |-> n, target |-> target]
  OBVIOUS
<1>6. r.table = t /\ r.column = n /\ r.target.table = k.table /\ r.target.column = d
  BY <1>5
<1>7. r \in ReferenceRow
  BY <1>2, <1>4, <1>5 DEF ReferenceRow
<1>8. r \in ReferenceRows
  BY <1>1, <1>2, <1>3, <1>6, <1>7 DEF ReferenceRows
<1> QED
  BY <1>6, <1>8

LEMMA RefRead ==
  ASSUME TypeInv, NamesUnshared, LastRows(references), NEW t \in TablesOf(live), NEW n \in Name
  PROVE  IF Targets(live[t], n) = {} THEN RefOf(t, n) = Null
         ELSE RefOf(t, n) \in Targets(live[t], n)
<1> DEFINE rows == {r \in references : r.table = t /\ r.column = n}
<1>1. \A r \in rows : r.target \in Targets(live[t], n)
  <2>1. \A r \in rows : r \in ReferenceRows /\ r.table = t /\ r.column = n
    BY DEF LastRows
  <2> QED
    BY <2>1, RowsOwn
<1>2. ASSUME Targets(live[t], n) # {} PROVE rows # {}
  <2>1. PICK r \in ReferenceRows : r.table = t /\ r.column = n
    BY <1>2, OwnRows
  <2>2. PICK s \in references : SameColumn(s, r)
    BY DEF LastRows
  <2> QED
    BY <2>1, <2>2 DEF SameColumn
<1>3. RefOf(t, n) = IF rows = {} THEN Null ELSE (CHOOSE r \in rows : TRUE).target
  BY DEF RefOf
<1>4. rows # {} => (CHOOSE r \in rows : TRUE) \in rows
  OBVIOUS
<1> HIDE DEF rows
<1> QED
  BY <1>1, <1>2, <1>3, <1>4

(* What an uninterrupted reading has of a table.                           *)
LEMMA TableRead ==
  ASSUME TypeInv, CatalogueRead, Shaped, calm, NEW t \in tables.names
  PROVE  /\ t \in TablesOf(live) /\ live[t] \in Catalogue
         /\ tables.comment[t] = live[t].comment
         /\ info[t] \in Seq(Column) /\ live[t].columns \in Seq(RawColumn)
         /\ DOMAIN info[t] = DOMAIN live[t].columns
         /\ \A i \in DOMAIN info[t] :
               /\ live[t].columns[i].name \in Name
               /\ info[t][i] = ColumnOf(t, live[t].columns[i])
<1>1. t \in TablesOf(live) /\ live[t] \in Catalogue
  BY ListedType DEF CatalogueRead, Shaped
<1>2. info[t] = ColumnsOf(t) /\ info[t] \in Seq(Column) /\ live[t].columns \in Seq(RawColumn)
  BY <1>1, ListedType DEF CatalogueRead, Shaped, TypeInv, IntrospectTypeOK
<1>3. \A i \in DOMAIN live[t].columns : live[t].columns[i].name \in Name
  <2>1. \A i \in DOMAIN live[t].columns : live[t].columns[i] \in RawColumn
    BY <1>2, ElementType
  <2> QED
    BY <2>1 DEF RawColumn
<1>4. tables.comment[t] = live[t].comment
  BY <1>1 DEF CatalogueRead, Shaped
<1> QED
  BY <1>1, <1>2, <1>3, <1>4 DEF ColumnsOf

(* CatalogueExact: what was read without a migration in between is the     *)
(* schema, references by keys of several columns included, as long as      *)
(* constraints have names of their own.                                    *)
THEOREM IntrospectCatalogue == IntrospectSpec => []CatalogueExact
<1>1. TypeInv /\ CatalogueRead => CatalogueExact
  <2> SUFFICES ASSUME TypeInv, CatalogueRead, Shaped, calm PROVE CatalogueExact
    BY DEF CatalogueExact
  <2>1. tables.names = TablesOf(live) \ Excluded /\ keys = KeyRows /\ LastRows(references)
    BY DEF CatalogueRead, Shaped
  <2>2. ASSUME NEW t \in tables.names
        PROVE  Len(info[t]) = Len(live[t].columns)
    BY <2>2, TableRead
  <2>3. ASSUME NEW t \in tables.names, NEW i \in DOMAIN info[t]
        PROVE  /\ info[t][i].name = live[t].columns[i].name
               /\ NamesUnshared =>
                     LET targets == Targets(live[t], info[t][i].name)
                         ref == info[t][i].ref
                     IN  /\ info[t][i].key <=> info[t][i].name \in live[t].keys
                         /\ IF targets = {} THEN ref = Null ELSE ref \in targets
    <3>1. t \in TablesOf(live) /\ info[t][i] = ColumnOf(t, live[t].columns[i])
          /\ live[t].columns[i].name \in Name
      BY <2>3, TableRead
    <3>2. /\ info[t][i].name = live[t].columns[i].name
          /\ info[t][i].key = (<<t, live[t].columns[i].name>> \in keys)
          /\ info[t][i].ref = RefOf(t, live[t].columns[i].name)
      BY <3>1 DEF ColumnOf
    <3> QED
      BY <2>1, <3>1, <3>2, KeysOwn, RefRead
  <2> QED
    BY <2>1, <2>2, <2>3, Zenon DEF CatalogueExact
<1> QED
  BY <1>1, CatalogueHolds, PTL
-----------------------------------------------------------------------------
LEMMA ShapeRead ==
  ASSUME TypeInv, CatalogueRead, Shaped, calm, NamesUnshared, NEW t \in tables.names
  PROVE  /\ ShapeReads(Shape(t), live[t])
         /\ Checksum(t) = Sum(t, live[t].comment, Shape(t))
         /\ live[t] \in Catalogue
<1>1. LastRows(references)
  BY DEF CatalogueRead, Shaped
<1>2. /\ t \in TablesOf(live) /\ live[t] \in Catalogue /\ tables.comment[t] = live[t].comment
      /\ DOMAIN info[t] = DOMAIN live[t].columns
  BY TableRead
<1>3. ASSUME NEW i \in DOMAIN live[t].columns
      PROVE  LET n == live[t].columns[i].name
             IN  /\ info[t][i].name = n
                 /\ info[t][i].type = ShortType(live[t].columns[i])
                 /\ info[t][i].ref = RefOf(t, n)
                 /\ IF Targets(live[t], n) = {} THEN RefOf(t, n) = Null
                    ELSE RefOf(t, n) \in Targets(live[t], n)
  <2>1. info[t][i] = ColumnOf(t, live[t].columns[i]) /\ live[t].columns[i].name \in Name
    BY <1>2, <1>3, TableRead
  <2> QED
    BY <1>1, <1>2, <2>1, RefRead DEF ColumnOf
<1>4. ShapeReads(Shape(t), live[t])
  BY <1>2, <1>3 DEF ShapeReads, Shape
<1>5. Checksum(t) = Sum(t, live[t].comment, Shape(t))
  BY <1>2 DEF Checksum, Sum
<1> QED
  BY <1>2, <1>4, <1>5

LEMMA RowsReadStep ==
  ASSUME TypeInv, CatalogueRead, RowsRead, [IntrospectNext]_introspectVars
  PROVE  RowsRead'
<1>1. CASE Finish
  <2>1. readings' = readings \cup {RowOf(t) : t \in tables.names} /\ Shaped
    BY <1>1 DEF Finish, Shaped
  <2>2. ASSUME NEW t \in tables.names, RowOf(t).from # Null
        PROVE  /\ RowOf(t).from \in Catalogue
               /\ \E shape : /\ ShapeReads(shape, RowOf(t).from)
                             /\ RowOf(t).checksum =
                                    Sum(RowOf(t).table, RowOf(t).from.comment, shape)
    <3>1. RowOf(t).table = t /\ RowOf(t).checksum = Checksum(t)
          /\ calm /\ NamesUnshared /\ RowOf(t).from = live[t]
      BY <2>2 DEF RowOf
    <3> QED
      BY <2>1, <3>1, ShapeRead
  <2> QED
    BY <2>1, <2>2, Zenon DEF RowsRead
<1>2. CASE readings' = readings
  BY <1>2 DEF RowsRead
<1> QED
  BY <1>1, <1>2 DEF IntrospectNext, introspectVars, ReadTables, ReadKeys, ReadReferences,
     ReadColumns, ToLookups, Raise, Migrate, SampleStep, SampleEnum, SampleLookup,
     ListCodes, SampleFails

LEMMA TargetsTyped ==
  ASSUME NEW c \in Catalogue, NEW n
  PROVE  Targets(c, n) \subseteq Target
<1>1. \A k \in c.foreign : k.table \in Table /\ k.refs \subseteq Name
  BY DEF Catalogue, ForeignKey
<1> QED
  BY <1>1 DEF Targets, Target

(* Two shapes that were read tell their catalogues apart, and only them.   *)
LEMMA SumsTell ==
  ASSUME NEW t, NEW c \in Catalogue, NEW d \in Catalogue, NEW p, NEW q,
         ShapeReads(p, c), ShapeReads(q, d), Sum(t, c.comment, p) = Sum(t, d.comment, q)
  PROVE  Alike(t, c, d)
<1>1. p = q /\ Purpose(t, c.comment) = Purpose(t, d.comment)
  BY DEF Sum, Description
<1>2. DOMAIN p = DOMAIN c.columns /\ DOMAIN q = DOMAIN d.columns
  BY DEF ShapeReads
<1>3. ASSUME NEW i \in DOMAIN c.columns
      PROVE  /\ c.columns[i].name = d.columns[i].name
             /\ ShortType(c.columns[i]) = ShortType(d.columns[i])
             /\ LET n == c.columns[i].name
                IN  \/ Targets(c, n) = {} /\ Targets(d, n) = {}
                    \/ Targets(c, n) \cap Targets(d, n) # {}
  <2>1. i \in DOMAIN d.columns
    BY <1>1, <1>2
  <2>2. p[i] = [name |-> c.columns[i].name, type |-> ShortType(c.columns[i]), ref |-> p[i].ref]
    BY DEF ShapeReads
  <2>3. q[i] = [name |-> d.columns[i].name, type |-> ShortType(d.columns[i]), ref |-> q[i].ref]
    BY <2>1 DEF ShapeReads
  <2>4. c.columns[i].name = d.columns[i].name /\ ShortType(c.columns[i]) = ShortType(d.columns[i])
    BY <1>1, <2>2, <2>3
  <2>5. IF Targets(c, c.columns[i].name) = {} THEN p[i].ref = Null
        ELSE p[i].ref \in Targets(c, c.columns[i].name)
    BY DEF ShapeReads
  <2>6. IF Targets(d, d.columns[i].name) = {} THEN p[i].ref = Null
        ELSE p[i].ref \in Targets(d, d.columns[i].name)
    BY <1>1, <2>1 DEF ShapeReads
  <2>7. Null \notin Targets(c, c.columns[i].name) /\ Null \notin Targets(d, d.columns[i].name)
    BY TargetsTyped, IntrospectAssumption
  <2> QED
    BY <2>4, <2>5, <2>6, <2>7
<1> QED
  BY <1>1, <1>2, <1>3 DEF Alike

LEMMA AlikeSums ==
  ASSUME NEW t, NEW c \in Catalogue, NEW d \in Catalogue, NEW p, NEW q,
         ShapeReads(p, c), ShapeReads(q, d), Alike(t, c, d), Definite(c), Definite(d)
  PROVE  Sum(t, c.comment, p) = Sum(t, d.comment, q)
<1>1. DOMAIN c.columns = DOMAIN d.columns /\ Purpose(t, c.comment) = Purpose(t, d.comment)
  BY DEF Alike
<1>2. ASSUME NEW i \in DOMAIN c.columns
      PROVE  /\ c.columns[i].name = d.columns[i].name
             /\ ShortType(c.columns[i]) = ShortType(d.columns[i])
             /\ p[i].ref = q[i].ref
  <2> DEFINE n == c.columns[i].name
  <2>1. /\ n = d.columns[i].name
        /\ ShortType(c.columns[i]) = ShortType(d.columns[i])
        /\ \/ Targets(c, n) = {} /\ Targets(d, n) = {}
           \/ Targets(c, n) \cap Targets(d, n) # {}
    BY DEF Alike
  <2>2. n \in Name
    <3>1. c.columns \in Seq(RawColumn)
      BY DEF Catalogue
    <3>2. c.columns[i] \in RawColumn
      BY <3>1, ElementType
    <3> QED
      BY <3>2 DEF RawColumn
  <2>3. /\ \A a, b \in Targets(c, n) : a = b
        /\ \A a, b \in Targets(d, n) : a = b
    BY <2>2 DEF Definite
  <2>4. IF Targets(c, n) = {} THEN p[i].ref = Null ELSE p[i].ref \in Targets(c, n)
    BY DEF ShapeReads
  <2>5. IF Targets(d, n) = {} THEN q[i].ref = Null ELSE q[i].ref \in Targets(d, n)
    BY <1>1, <2>1 DEF ShapeReads
  <2> HIDE DEF n
  <2>6. p[i].ref = q[i].ref
    BY <2>1, <2>3, <2>4, <2>5
  <2> QED
    BY <2>1, <2>6 DEF n
<1>3. PICK f : f = [i \in DOMAIN c.columns |->
                      [name |-> c.columns[i].name, type |-> ShortType(c.columns[i]),
                       ref |-> p[i].ref]]
  OBVIOUS
<1>4. p = f
  BY <1>3, Zenon DEF ShapeReads
<1>5. q = [i \in DOMAIN d.columns |->
             [name |-> d.columns[i].name, type |-> ShortType(d.columns[i]), ref |-> q[i].ref]]
  BY DEF ShapeReads
<1>6. q = f
  BY <1>1, <1>2, <1>3, <1>5
<1>7. p = q
  BY <1>4, <1>6
<1> QED
  BY <1>1, <1>7 DEF Sum

(* ReembedsOnDrift: over any number of readings and migrations between and *)
(* within them, a re-run embeds a table that is no longer what it was, and *)
(* skips one that is, if each column refers to one at most, whatever was   *)
(* sampled and whichever statements failed in either reading.              *)
THEOREM IntrospectDrift == IntrospectSpec => []ReembedsOnDrift
<1>1. IntrospectInit => RowsRead
  BY DEF IntrospectInit, RowsRead
<1>2. TypeInv /\ CatalogueRead /\ RowsRead /\ [IntrospectNext]_introspectVars => RowsRead'
  BY RowsReadStep
<1>3. TypeInv /\ CatalogueRead /\ RowsRead => ReembedsOnDrift
  <2> SUFFICES ASSUME TypeInv, CatalogueRead, RowsRead, at = "lookups", calm, NamesUnshared,
                      NEW t \in tables.names, NEW r \in readings, r.table = t, r.from # Null
               PROVE  /\ r.checksum = Checksum(t) => Alike(t, r.from, live[t])
                      /\ Alike(t, r.from, live[t]) /\ Definite(r.from) /\ Definite(live[t])
                            => r.checksum = Checksum(t)
    BY DEF ReembedsOnDrift
  <2>1. r.from \in Catalogue
    BY DEF RowsRead
  <2>2. PICK shape : ShapeReads(shape, r.from) /\ r.checksum = Sum(t, r.from.comment, shape)
    BY DEF RowsRead
  <2>3. /\ ShapeReads(Shape(t), live[t])
        /\ Checksum(t) = Sum(t, live[t].comment, Shape(t))
        /\ live[t] \in Catalogue
    BY ShapeRead DEF Shaped
  <2> QED
    BY <2>1, <2>2, <2>3, SumsTell, AlikeSums
<1> QED
  BY <1>1, <1>2, <1>3, CatalogueHolds, PTL DEF IntrospectSpec
=============================================================================
