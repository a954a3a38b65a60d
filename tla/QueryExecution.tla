--------------------------- MODULE QueryExecution ---------------------------
(***************************************************************************)
(* A validated statement on its way through the database: the row limit    *)
(* that validate_sql puts on it (app/db/guard.py), execute_query on a      *)
(* pooled read-only connection (executor.py, engine.py), and beside it     *)
(* scripts/enable_company_rls.py, which installs and removes the row-level *)
(* policies statement by statement while the service is running and the    *)
(* ERP gets new tables.                                                    *)
(*                                                                         *)
(* A query is the set of rows it asks for, whatever its text says, and its *)
(* own row limit.  Null is the missing company of a request, and the       *)
(* app.company_id that is unset or blank: the policy treats both alike.    *)
(***************************************************************************)
EXTENDS Integers, FiniteSets, Sequences

CONSTANTS
    Table,          \* tables that carry company_id, or will when created
    Company,
    Data,           \* their rows: [table, company, id]
    Query,          \* what the guard has accepted: [wanted, limit, tail]
    Worker,         \* service processes, one statement at a time each
    Connection,     \* read-only connections
    Null,
    MaxRows,        \* sql_max_rows
    MaxQueries,     \* bounds: statements executed,
    MaxScripts      \* and runs of the script

(* tail: what stands behind the limit, or another clause in its place.     *)
Tails == {"bare", "comment", "fetch_first"}

ASSUME QueryAssumption ==
    /\ Null \notin Company \cup Worker \cup Connection \cup Table \cup Nat
    /\ IsFiniteSet(Data)
    /\ Data \subseteq [table : Table, company : Company, id : Nat]
    /\ Query \subseteq [wanted : SUBSET Data, limit : Nat \cup {Null}, tail : Tails]
    /\ Table # {} /\ MaxRows \in Nat /\ MaxQueries \in Nat /\ MaxScripts \in Nat

VARIABLES
    role,           \* whom the read-only connections log in as
    tables,         \* the tables that exist
    policy,         \* per table: row-level security enabled, and its two policies
    conn,           \* per connection: who has borrowed it, and app.company_id in it
    request,        \* per worker: the statement it is executing
    answer,         \* per worker: its last QueryResult, with what it was an answer to
    script,         \* the run of enable_company_rls in progress
    provisioned,    \* history: what the script last did to each table, "unknown"
                    \*    while it is in the middle of it, or was left there
    left            \* what the bounds still allow

queryVars == <<role, tables, policy, conn, request, answer, script, provisioned, left>>

Smaller(m, n) == IF m <= n THEN m ELSE n
-----------------------------------------------------------------------------
(* Mutant: a clamped limit is not reported as applied. *)
RowLimitQuiet(q) ==
    IF q.limit = Null THEN [limit |-> MaxRows, applied |-> TRUE]
    ELSE [limit |-> Smaller(q.limit, MaxRows), applied |-> FALSE]

(* _apply_row_limit: a small enough limit stays, a larger one is clamped,  *)
(* a missing one is added.                                                 *)
RowLimit(q) ==
    IF q.limit # Null /\ q.limit <= MaxRows THEN [limit |-> q.limit, applied |-> FALSE]
    ELSE [limit |-> MaxRows, applied |-> TRUE]

(* A limit is added although the statement has one that is not recognised  *)
(* at its end: FETCH FIRST, or a larger LIMIT followed by a comment.  The  *)
(* database refuses the two together.                                      *)
TwoLimits(q) ==
    \/ q.tail = "fetch_first"
    \/ q.tail = "comment" /\ q.limit # Null /\ q.limit > MaxRows
-----------------------------------------------------------------------------
(* A permissive and a restrictive policy, both for SELECT, which is all     *)
(* that is modelled.                                                       *)
NoPolicy == [enabled |-> FALSE, permissive |-> FALSE, scope |-> FALSE]
FullPolicy == [enabled |-> TRUE, permissive |-> TRUE, scope |-> TRUE]

(* Mutant: the predicate without its clause for a missing company. *)
InScopeStrictly(d, setting) == setting = d.company

(* _SCOPE_PREDICATE *)
InScope(d, setting) == setting = Null \/ setting = d.company

(* What a role sees: its own tables, or what any permissive policy and all *)
(* restrictive ones for it let through.                                    *)
Visible(d, setting) ==
    \/ role = "owner"
    \/ ~policy[d.table].enabled
    \/ policy[d.table].permissive /\ (policy[d.table].scope => InScope(d, setting))

(* Mutant: the old policy is dropped after the new one has been created. *)
EnableStatementsSwapped == <<"enable", "drop_permissive", "create_permissive",
                             "create_scope", "drop_scope">>

EnableStatements == <<"enable", "drop_permissive", "create_permissive",
                      "drop_scope", "create_scope">>

(* Mutant: the permissive policy is forgotten. *)
DisableStatementsKeeping == <<"drop_scope", "disable">>

DisableStatements == <<"drop_scope", "drop_permissive", "disable">>

StatementsOf(job) == IF job = "enable" THEN EnableStatements ELSE DisableStatements

(* CREATE POLICY fails if there is one of that name. *)
Refused(p, statement) ==
    \/ statement = "create_permissive" /\ p.permissive
    \/ statement = "create_scope" /\ p.scope

After(p, statement) ==
    [enabled |-> CASE statement = "enable" -> TRUE
                   [] statement = "disable" -> FALSE
                   [] OTHER -> p.enabled,
     permissive |-> CASE statement = "create_permissive" -> TRUE
                      [] statement = "drop_permissive" -> FALSE
                      [] OTHER -> p.permissive,
     scope |-> CASE statement = "create_scope" -> TRUE
                 [] statement = "drop_scope" -> FALSE
                 [] OTHER -> p.scope]
-----------------------------------------------------------------------------
Policy == [enabled : BOOLEAN, permissive : BOOLEAN, scope : BOOLEAN]
Jobs == {"enable", "disable"}
Knowledge == [Table -> Jobs \cup {"unknown"}]
NothingKnown == [t \in Table |-> "unknown"]

NoRequest == [at |-> "idle", conn |-> Null, company |-> Null, query |-> Null, rows |-> {},
              known |-> NothingKnown]
NoAnswer == [company |-> Null, query |-> Null, rows |-> {}, truncated |-> FALSE,
             known |-> NothingKnown]
NoScript == [job |-> "none", table |-> Null, next |-> 1, todo |-> {}]
InPool == [holder |-> Null, setting |-> Null]

(* READONLY_DATABASE_URL names the role, or is empty, and then it is       *)
(* DATABASE_URL that is used (effective_readonly_url).                     *)
QueryInit ==
    /\ role \in {"erp_rag_ro", "owner"}
    /\ tables \in SUBSET Table
    /\ policy = [t \in Table |-> NoPolicy]
    /\ conn = [c \in Connection |-> InPool]
    /\ request = [w \in Worker |-> NoRequest]
    /\ answer = [w \in Worker |-> NoAnswer]
    /\ script = NoScript
    /\ provisioned = [t \in Table |-> "disable"]
    /\ left = [queries |-> MaxQueries, scripts |-> MaxScripts]

(* execute_query borrows a connection and begins a read-only transaction. *)
Checkout(w, c, company, q) ==
    /\ request[w].at = "idle"
    /\ conn[c].holder = Null
    /\ left.queries > 0
    /\ left' = [left EXCEPT !.queries = @ - 1]
    /\ conn' = [conn EXCEPT ![c].holder = w]
    /\ request' = [request EXCEPT ![w] =
            [at |-> "open", conn |-> c, company |-> company, query |-> q, rows |-> {},
             known |-> NothingKnown]]
    /\ answer' = [answer EXCEPT ![w] = NoAnswer]
    /\ UNCHANGED <<role, tables, policy, script, provisioned>>

(* Mutant: without a transaction the local setting is gone at once. *)
SetCompanyAutocommit(w) ==
    /\ request[w].at = "open"
    /\ request' = [request EXCEPT ![w].at = "scoped"]
    /\ UNCHANGED <<role, tables, policy, conn, answer, script, provisioned, left>>

(* set_config('app.company_id', ..., true) *)
SetCompany(w) ==
    /\ request[w].at = "open"
    /\ conn' = [conn EXCEPT ![request[w].conn].setting = request[w].company]
    /\ request' = [request EXCEPT ![w].at = "scoped"]
    /\ UNCHANGED <<role, tables, policy, answer, script, provisioned, left>>

(* The statement runs, and at most MaxRows + 1 rows of its result, in      *)
(* whatever order it asks for, are fetched.                                *)
Execute(w) ==
    LET r       == request[w]
        q       == r.query
        visible == {d \in q.wanted : Visible(d, conn[r.conn].setting)}
        size    == Smaller(Smaller(Cardinality(visible), RowLimit(q).limit), MaxRows + 1)
    IN  /\ r.at = "scoped"
        /\ ~TwoLimits(q)
        /\ \A d \in q.wanted : d.table \in tables
        /\ \E rows \in SUBSET visible :
              /\ Cardinality(rows) = size
              /\ request' = [request EXCEPT ![w] =
                    [at |-> "fetched", conn |-> r.conn, company |-> r.company, query |-> q,
                     rows |-> rows, known |-> provisioned]]
        /\ UNCHANGED <<role, tables, policy, conn, answer, script, provisioned, left>>

(* The connection goes back, which ends the transaction and its setting,   *)
(* and the result is cut to MaxRows.                                       *)
Finish(w) ==
    LET r == request[w]
    IN  /\ r.at = "fetched"
        /\ \E rows \in SUBSET r.rows :
              /\ Cardinality(rows) = Smaller(Cardinality(r.rows), MaxRows)
              /\ answer' = [answer EXCEPT ![w] =
                    [company |-> r.company, query |-> r.query, rows |-> rows,
                     truncated |-> \/ Cardinality(r.rows) > MaxRows
                                   \/ RowLimit(r.query).applied /\ Cardinality(rows) = MaxRows,
                     known |-> r.known]]
        /\ conn' = [conn EXCEPT ![r.conn] = InPool]
        /\ request' = [request EXCEPT ![w] = NoRequest]
        /\ UNCHANGED <<role, tables, policy, script, provisioned, left>>

(* Mutant: an error leaves without giving the connection back. *)
FailQueryHolding(w) ==
    /\ request[w].at # "idle"
    /\ request' = [request EXCEPT ![w] = NoRequest]
    /\ UNCHANGED <<role, tables, policy, conn, answer, script, provisioned, left>>

(* The database refuses a statement, times out or goes away, or the worker *)
(* dies: SqlExecutionError, or no answer at all.                           *)
FailQuery(w) ==
    /\ request[w].at # "idle"
    /\ conn' = [conn EXCEPT ![request[w].conn] = InPool]
    /\ request' = [request EXCEPT ![w] = NoRequest]
    /\ UNCHANGED <<role, tables, policy, answer, script, provisioned, left>>
-----------------------------------------------------------------------------
(* enable or disable lists the tables. *)
StartScript(job) ==
    /\ script.job = "none"
    /\ left.scripts > 0
    /\ left' = [left EXCEPT !.scripts = @ - 1]
    /\ script' = IF tables = {} THEN NoScript
                 ELSE [job |-> job, table |-> Null, next |-> 1, todo |-> tables]
    /\ UNCHANGED <<role, tables, policy, conn, request, answer, provisioned>>

(* A transaction that has read a table keeps its lock until it ends. *)
LockedByReader(t) ==
    \E w \in Worker : request[w].at = "fetched" /\ \E d \in request[w].query.wanted : d.table = t

(* The next statement, in autocommit; each needs the table for itself.     *)
(* The tables come in the order of their names, which makes no difference. *)
NextStatement(t) ==
    LET statement == StatementsOf(script.job)[script.next]
        last      == script.next = Len(StatementsOf(script.job))
    IN  /\ script.job # "none"
        /\ t \in script.todo
        /\ script.next = 1 \/ t = script.table
        /\ ~LockedByReader(t)
        /\ ~Refused(policy[t], statement)
        /\ policy' = [policy EXCEPT ![t] = After(@, statement)]
        /\ script' = IF ~last THEN [script EXCEPT !.table = t, !.next = @ + 1]
                     ELSE IF script.todo = {t} THEN NoScript
                     ELSE [script EXCEPT !.table = Null, !.next = 1, !.todo = @ \ {t}]
        /\ provisioned' = [provisioned EXCEPT ![t] = IF last THEN script.job ELSE "unknown"]
        /\ UNCHANGED <<role, tables, conn, request, answer, left>>

(* The script stops at an error or is interrupted. *)
FailScript ==
    /\ script.job # "none"
    /\ script' = NoScript
    /\ UNCHANGED <<role, tables, policy, conn, request, answer, provisioned, left>>

(* A migration creates a table.  The script does not know it yet, or if it *)
(* runs, does not come to it.                                              *)
CreateTable(t) ==
    /\ t \notin tables
    /\ tables' = tables \cup {t}
    /\ UNCHANGED <<role, policy, conn, request, answer, script, provisioned, left>>

QueryNext ==
    \/ \E w \in Worker :
          \/ \E c \in Connection, company \in Company \cup {Null}, q \in Query :
                Checkout(w, c, company, q)
          \/ SetCompany(w)
          \/ Execute(w)
          \/ Finish(w)
          \/ FailQuery(w)
    \/ \E job \in Jobs : StartScript(job)
    \/ \E t \in Table : NextStatement(t) \/ CreateTable(t)
    \/ FailScript

QuerySpec == QueryInit /\ [][QueryNext]_queryVars
-----------------------------------------------------------------------------
(* Types, that the script keeps to tables that exist, and that a borrowed  *)
(* connection belongs to the statement that is being executed on it.       *)
QueryTypeOK ==
    /\ role \in {"erp_rag_ro", "owner"}
    /\ tables \subseteq Table
    /\ policy \in [Table -> Policy]
    /\ conn \in [Connection -> [holder : Worker \cup {Null}, setting : Company \cup {Null}]]
    /\ request \in [Worker -> [at : {"idle", "open", "scoped", "fetched"},
                               conn : Connection \cup {Null}, company : Company \cup {Null},
                               query : Query \cup {Null}, rows : SUBSET Data,
                               known : Knowledge]]
    /\ answer \in [Worker -> [company : Company \cup {Null}, query : Query \cup {Null},
                              rows : SUBSET Data, truncated : BOOLEAN,
                              known : Knowledge]]
    /\ script \in [job : Jobs \cup {"none"}, table : Table \cup {Null},
                   next : 1 .. 5, todo : SUBSET tables]
    /\ provisioned \in Knowledge
    /\ \A w \in Worker : request[w].at # "idle" => request[w].conn \in Connection
    /\ \A c \in Connection, w \in Worker : conn[c].holder = w <=> request[w].conn = c

(* Whether a may show d, given what the policies are known to be: a row of *)
(* a table that --enable has done only to its company.                     *)
Entitled(d, a) ==
    role = "erp_rag_ro" /\ a.company # Null /\ a.known[d.table] = "enable" =>
        d.company = a.company

(* From the moment --enable has done a table until a run of the script     *)
(* comes to it again, a request that names a company is shown rows of that *)
(* company only, whatever its query asks for, whoever had the connection   *)
(* before it and whatever happens to other tables: the setting is in place *)
(* when the statement runs.  Not so for a service that has no read-only    *)
(* role to log in as, nor for tables created since.                        *)
AnswersScoped ==
    \A w \in Worker : \A d \in answer[w].rows : Entitled(d, answer[w])

(* Nothing is withheld silently: a result that is not marked as truncated  *)
(* is all that the request is entitled to of what its query asks for, or   *)
(* as many rows as the query itself allows, unless the script is in the    *)
(* middle of one of its tables or was left there.                          *)
AnswersComplete ==
    \A w \in Worker :
        LET a == answer[w]
        IN  a.query # Null /\ ~a.truncated
            /\ (\A d \in a.query.wanted : a.known[d.table] # "unknown") =>
                \/ a.rows = {d \in a.query.wanted : Entitled(d, a)}
                \/ a.query.limit # Null /\ Cardinality(a.rows) = a.query.limit

(* The script leaves every table it has done as it promises, whatever      *)
(* partial runs came before: policies complete, or nothing that would bar  *)
(* another role of the database from its rows.                             *)
ProvisionedAfterRun ==
    \A t \in Table :
        /\ provisioned[t] = "enable" => policy[t] = FullPolicy
        /\ provisioned[t] = "disable" => policy[t] = NoPolicy

(* The script can be run again after it has failed at any statement: none  *)
(* of its statements finds a policy it is about to create.                 *)
StatementsApply ==
    script.table # Null =>
        ~Refused(policy[script.table], StatementsOf(script.job)[script.next])
=============================================================================
