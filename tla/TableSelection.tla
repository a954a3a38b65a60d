--------------------------- MODULE TableSelection ---------------------------
(***************************************************************************)
(* What a question gets to see of the schema: TableRetriever.retrieve      *)
(* (app/retrieval/retriever.py) ranks the tables by vector and lexical     *)
(* score, follows foreign keys from the best ones, and build_pruned_schema *)
(* (app/db/introspect.py) gives the selected tables their aliases.         *)
(*                                                                         *)
(* The index and the retriever's snapshot of the schema may differ, as     *)
(* SchemaIndex shows.  A question is its scores: a similarity per indexed  *)
(* table and a lexical score per table of the snapshot, in percent.        *)
(* Hybrid scores are in half percents, so that their weights are integers. *)
(***************************************************************************)
EXTENDS Integers, SequencesExt

CONSTANTS
    TableName,
    ByName,         \* the tables in the order of their names
    References,     \* foreign keys: <<table, table it refers to>>
    Akin,           \* <<parent, other>>: one name begins with the stem of the other
    Lookup,         \* _LOOKUP_TABLES
    Alias,
    Initials,       \* per table: of the words of its name
    Growth,         \* per table: the aliases grown from it, of two letters and more
    Reserved,       \* RESERVED_WORDS
    Similarities,   \* bounds: the vector scores
    Matches,        \* and lexical scores a question may have,
    MaxLag,         \* and the tables that index and snapshot may miss together
    TopK,           \* retrieval_top_k
    OverFetch,      \* the vector store is asked for as many times TopK
    Missed,         \* nearer rows that its approximate index may overlook
    MinScore,       \* retrieval_min_score
    Relevant,       \* the score that makes any neighbour useful
    MaxTables,      \* retrieval_max_tables
    FkExpansion     \* retrieval_fk_expansion

ASSUME SelectionAssumption ==
    /\ ByName \in Seq(TableName) /\ ToSet(ByName) = TableName
    /\ Len(ByName) = Cardinality(TableName)
    /\ References \subseteq TableName \X TableName /\ Akin \subseteq TableName \X TableName
    /\ Lookup \subseteq TableName
    /\ Growth \in [TableName -> Seq(Alias)] /\ Reserved \subseteq Alias
    /\ Similarities \subseteq -100 .. 100 /\ Matches \subseteq 0 .. 100
    /\ {TopK, OverFetch, MaxTables} \subseteq Nat \ {0}
    /\ {MinScore, Relevant, Missed, MaxLag} \subseteq Nat
    /\ FkExpansion \in BOOLEAN
    (* No reserved word is initials and a number. *)
    /\ \A word \in Reserved, t \in TableName, n \in 2 .. Cardinality(TableName) + 1 :
          word # <<Initials[t], n>>

VARIABLES
    indexed,        \* tables in the vector store
    snapshot,       \* tables the retriever knows the shape of
    result          \* of the last question: hybrid scores, selection and aliases

selectionVars == <<indexed, snapshot, result>>

AtMost(s, n) == SubSeq(s, 1, Min({n, Len(s)}))
NamesOf(selection) == {selection[i].name : i \in DOMAIN selection}

(* The elements of s that are wanted, in their order. *)
Among(s, wanted) ==
    FoldLeft(LAMBDA kept, x : IF x \in wanted THEN Append(kept, x) ELSE kept, <<>>, s)

(* Those that the snapshot knows. *)
Known(selection) == Among(selection, {p \in ToSet(selection) : p.name \in snapshot})
-----------------------------------------------------------------------------
(* search: the most similar rows, but for those that the HNSW index        *)
(* overlooks, in whatever order ties come.                                 *)
Candidates(similarity) ==
    {found \in SUBSET indexed :
        /\ Cardinality(found) = Min({OverFetch * TopK, Cardinality(indexed)})
        /\ Cardinality({u \in indexed \ found :
              \E t \in found : similarity[u] > similarity[t]}) <= Missed}

(* The lexical index knows the tables of the snapshot, and scores those    *)
(* that share a word or a phrase with the question.                        *)
LexicalScores(match) == [t \in {u \in snapshot : match[u] > 0} |-> match[t]]

(* Hybrid scores: similarities relative to the best, and lexical scores,   *)
(* of the tables that have either.                                         *)
HybridScores(found, similarity, match) ==
    LET positive(t) == Max({similarity[t], 0})
        best        == Max({positive(t) : t \in found} \cup {0})
        vector(t)   == IF t \in found /\ best > 0 THEN (100 * positive(t)) \div best ELSE 0
        words       == LexicalScores(match)
        lexical(t)  == IF t \in DOMAIN words THEN words[t] ELSE 0
    IN  [t \in found \cup DOMAIN words |-> vector(t) + lexical(t)]

(* The scored tables, best first; equal scores in any order. *)
Rankings(scores) ==
    {ranked \in SetToSeqs(DOMAIN scores) :
        \A i, j \in DOMAIN ranked : i < j => scores[ranked[i]] >= scores[ranked[j]]}

Retrieved(t, score, via) == [name |-> t, score |-> score, via |-> via]

(* Mutant: a question that matches nothing well gets no tables. *)
BestStrict(ranked, scores) ==
    LET good == Among(AtMost(ranked, TopK), {t \in DOMAIN scores : scores[t] >= MinScore})
    IN  [i \in DOMAIN good |-> Retrieved(good[i], scores[good[i]], "hybrid")]

(* The first TopK that score enough, or else the single best guess. *)
Best(ranked, scores) ==
    LET good   == Among(AtMost(ranked, TopK), {t \in DOMAIN scores : scores[t] >= MinScore})
        chosen == IF good = <<>> THEN AtMost(ranked, 1) ELSE good
    IN  [i \in DOMAIN chosen |-> Retrieved(chosen[i], scores[chosen[i]], "hybrid")]
-----------------------------------------------------------------------------
(* Mutant: only the tables that t refers to. *)
Parents(t) == {u \in TableName : <<t, u>> \in References}

(* related_tables of t, known to the snapshot or not, and the tables known *)
(* to refer to t.                                                          *)
Neighbours(t) ==
    {u \in TableName : <<t, u>> \in References} \cup {u \in snapshot : <<u, t>> \in References}

(* _is_useful_neighbour *)
Useful(parent, u, scores) ==
    /\ u \notin Lookup
    /\ <<parent, u>> \in Akin \/ (u \in DOMAIN scores /\ scores[u] >= Relevant)

(* What p brings into the selection: its useful neighbours by name, as     *)
(* long as there is room.                                                  *)
Brought(p, new, selected) ==
    LET more == AtMost(new, Max({0, MaxTables - Len(selected)}))
    IN  [i \in DOMAIN more |-> Retrieved(more[i], p.score \div 2, "fk-expansion")]

(* Mutant: a table is added although it has been chosen already. *)
JoinedAgain(selected, p, scores) ==
    selected \o Brought(p, Among(ByName, {u \in Neighbours(p.name) : Useful(p.name, u, scores)}),
                        selected)

Joined(selected, p, scores) ==
    selected \o Brought(p, Among(ByName, {u \in Neighbours(p.name) \ NamesOf(selected) :
                                             Useful(p.name, u, scores)}),
                        selected)

(* _expand_via_foreign_keys: of each selected table in turn. *)
Expand(selected, scores) ==
    FoldLeft(LAMBDA sofar, p : Joined(sofar, p, scores), selected, Known(selected))
-----------------------------------------------------------------------------
(* Mutant: whatever the other tables are called. *)
SafeAliasAlone(t, taken) ==
    LET free == {i \in DOMAIN Growth[t] : Growth[t][i] \notin Reserved}
    IN  IF free # {} THEN Growth[t][Min(free)] ELSE <<Initials[t], 2>>

(* safe_alias: the shortest that is neither reserved nor taken, or the     *)
(* initials with the smallest number that makes them unused.               *)
SafeAlias(t, taken) ==
    LET free   == {i \in DOMAIN Growth[t] : Growth[t][i] \notin Reserved \cup taken}
        number == Min({n \in 2 .. Cardinality(taken) + 2 : <<Initials[t], n>> \notin taken})
    IN  IF free # {} THEN Growth[t][Min(free)] ELSE <<Initials[t], number>>

(* build_pruned_schema: the aliases of the selected tables that the        *)
(* snapshot knows, in their order.                                         *)
Aliases(selection) ==
    FoldLeft(LAMBDA taken, p : Append(taken, SafeAlias(p.name, ToSet(taken))),
             <<>>, Known(selection))

Answer(scores, selection) ==
    [scores |-> scores, selection |-> selection, aliases |-> Aliases(selection)]

NoResult == [scores |-> <<>>, selection |-> <<>>, aliases |-> <<>>]

(* retrieve.  It keeps no state, so one question is enough. *)
Retrieve(similarity, match) ==
    /\ result = NoResult
    /\ \E found \in Candidates(similarity) :
          LET scores == HybridScores(found, similarity, match)
          IN  \E ranked \in Rankings(scores) :
                 LET best     == Best(ranked, scores)
                     expanded == IF FkExpansion THEN Expand(best, scores) ELSE best
                 IN  result' = Answer(scores, AtMost(expanded, MaxTables))
    /\ UNCHANGED <<indexed, snapshot>>

(* The index has not been built yet, or it and the snapshot are behind. *)
SelectionInit ==
    /\ indexed \in SUBSET TableName
    /\ snapshot \in SUBSET TableName
    /\ \/ indexed = {} /\ snapshot = TableName
       \/ Cardinality(TableName \ indexed) + Cardinality(TableName \ snapshot) <= MaxLag
    /\ result = NoResult

SelectionNext ==
    \E similarity \in [TableName -> Similarities], match \in [TableName -> Matches] :
        Retrieve(similarity, match)

SelectionSpec == SelectionInit /\ [][SelectionNext]_selectionVars
-----------------------------------------------------------------------------
Hits(selection) == Among(selection, {p \in ToSet(selection) : p.via = "hybrid"})

(* Types, and what the prompt's budget rests on: never more than MaxTables *)
(* tables, and none of them twice, however they were found.                *)
SelectionTypeOK ==
    /\ indexed \subseteq TableName /\ snapshot \subseteq TableName
    /\ DOMAIN result.scores \subseteq indexed \cup snapshot
    /\ result.selection \in Seq([name : TableName, score : Nat, via : {"hybrid", "fk-expansion"}])
    /\ Len(result.selection) <= MaxTables
    /\ Cardinality(NamesOf(result.selection)) = Len(result.selection)

(* If anything matches, the tables begin with a best match and then in the *)
(* order of their scores; following foreign keys displaces none of them.   *)
(* The router is left without tables only if nothing is indexed and no     *)
(* word of the question means anything.                                    *)
BestMatchesKept ==
    LET hits   == Hits(result.selection)
        scores == result.scores
        strong == {t \in DOMAIN scores : scores[t] >= MinScore}
    IN  DOMAIN scores # {} =>
            /\ hits # <<>>
            /\ AtMost(result.selection, Len(hits)) = hits
            /\ \A t \in DOMAIN scores : hits[1].score >= scores[t]
            /\ Len(hits) = Max({1, Min({TopK, MaxTables, Cardinality(strong)})})
            /\ \A t \in strong \ NamesOf(hits) : \A i \in DOMAIN hits : hits[i].score >= scores[t]

(* A table that a match can be joined with by a foreign key, in either     *)
(* direction, and that belongs to it by its name, comes with it, unless    *)
(* the prompt is full: a question about orders can count their items.      *)
JoinsPossible ==
    \A p \in ToSet(Hits(result.selection)), u \in snapshot \ Lookup :
        /\ FkExpansion
        /\ p.name \in snapshot
        /\ <<p.name, u>> \in Akin
        /\ <<p.name, u>> \in References \/ <<u, p.name>> \in References
        => u \in NamesOf(result.selection) \/ Len(result.selection) = MaxTables

(* No two tables of a prompt share an alias, though the initials of their  *)
(* names may, and none has a reserved word for one.                        *)
AliasesUsable ==
    LET aliases == result.aliases
    IN  /\ Len(aliases) = Cardinality(NamesOf(result.selection) \cap snapshot)
        /\ Cardinality(ToSet(aliases)) = Len(aliases)
        /\ ToSet(aliases) \cap Reserved = {}
=============================================================================
