# Verification of the ERP chat service

TLA+ models of the service under `src/`: the session stores, the chat pipeline on top of
them, the rate limiter in front of it, the reading of the ERP schema and the index built from it, the
selection of tables for a question, and the execution of its queries under row-level policies. TLC
checks them on small instances, TLAPS proves every safety property of those runs for every value of the constants.

## The system

A client posts a message to `POST /api/v1/chat`. `enforce_rate_limit` admits or refuses
it, and `ChatPipeline.handle` answers it: read the session, retrieve the tables that
matter, store the user's message, ask the model to *route* (a query, or a question back),
validate the query, run it on a read-only connection, let the model repair it once if the
database refuses it, let the model phrase the rows, store the reply, respond.

| Component | State it keeps | Operations | Talks to |
|---|---|---|---|
| Session store interface, topic digest (`app/session/base.py`) | what a session is: messages, digest, pending question and intent, turn count | `get`, `append_message`, `set_` / `clear_pending_clarification`, `purge_expired` | called by the pipeline |
| Postgres store (`postgres_store.py`) | tables `chat_sessions`, `chat_messages` and the id sequence | the same, each one transaction | Postgres; other instances share the tables |
| Redis store (`redis_store.py`) | a hash and a list per session, with TTLs | the same, each several commands | Redis; other instances share the keys |
| Chat pipeline (`app/pipeline/`, `app/api/routes.py`, the middleware of `app/main.py`) | nothing between requests; local variables while one is in progress | `handle`, `_run`, `_attempt_repair`; `route`, `repair`, `_parse`, `format_answer` | store, retriever, model, guard, executor |
| Rate limiter, authentication (`app/api/deps.py`) | admission times per identity, per process | `check`, `enforce_rate_limit`, `require_api_key` | in front of every chat request |
| SQL guard, executor (`app/db/guard.py`, `executor.py`, `engine.py`) | connection pools; a transaction-local company setting | `validate_sql`, `execute_query` | Postgres |
| Company scoping (`scripts/enable_company_rls.py`) | row-level security policies | `enable`, `disable` | Postgres, beside a running service |
| Schema index (`app/retrieval/indexer.py`, `store.py`, `retriever.py`) | `table_embeddings`; a cached matrix and a schema snapshot per process | `index_schema`, `upsert`, `prune`, `search`, `refresh`, `retrieve` | Postgres, embedding provider |
| Retriever (`app/retrieval/retriever.py`, `lexical.py`; `build_pruned_schema` in `app/db/introspect.py`) | none between questions but the snapshot | `retrieve`, `_expand_via_foreign_keys`, `safe_alias` | vector store; called by the pipeline |
| Introspection, table descriptions (`app/db/introspect.py`, `app/retrieval/descriptions.py`) | none; one transaction on the owner's connection while it reads | `introspect_schema`, `_attach_enum_samples`, `_attach_lookup_codes`; `build_description`, `description_checksum`, `keywords_for` | Postgres; called by the indexer, the retriever and the lexical store |
| Prompts, providers, configuration, logging, schemas, scripts, legacy | none | - | - |

What is hard here, and what must hold:

- *Concurrency between processes.* The endpoint is a coroutine that never awaits, so one
  process answers one request at a time. Replicas share the store, however, and two of them
  may serve one session at once. The window of kept messages, the digest of what left it
  and the turn count must stay right.
- *Conversations over several requests.* A question asked back makes the next message
  depend on state written one or more requests earlier, with failures in between.
- *Partial failure.* Three model calls, two statements and four store calls may each fail, and
  the process may die between any two. What the caller is told must be what happened.
- *Reading while others write.* The schema is read query by query while migrations commit, and
  columns are sampled while their tables fill. A statement that fails aborts the transaction that
  the code goes on with. What is concluded from a sample must be true of the data.
- *Caches and incremental work.* The schema index is rebuilt by several processes, each run
  trusting what earlier ones left behind, and served from copies in memory.
- *Rounding and limits.* The digest limit, the window boundary, the age of an admission.

`PROJECT.json` lists the hazards at their lines.

## The modules

| Module | Models | How |
|---|---|---|
| `TopicDigest` | `build_topic_digest` | Pure operators. The digest text is the sequence of its topics; a message contributes none, one, or several of them (when its text contains the separator). |
| `SessionStore` | the store interface, with the bodies of the Postgres store as atomic steps | The abstract specification of a store. `row`, `digest` and `messages` are the tables; `evicted` and `topics` record what left the window. |
| `PostgresSessionStore` | `append_message` as a transaction | Extends `SessionStore`, whose variables are the committed tables. `txn` holds what a transaction has done and not committed. |
| `RedisSessionStore` | every Redis command as a step | Own variables `meta`, `list`, `ttl`; `op` is the operation an instance is in the middle of. Instances die between commands, keys expire. |
| `ChatPipeline` | `handle` and everything under it | Extends `SessionStore`. `pc` and `job` are the program counter and the local variables of each worker (a service process); the store is used through its atomic operations. |
| `QueryExecution` | `_apply_row_limit`, `execute_query`, `enable_company_rls` | A query is the set of rows it asks for and its own limit. `role` is whom the service logs in as, the read-only role or the owner the configuration falls back to. `conn` is the pool, `request` and `answer` the statement in progress and the last result of each worker; `policy` is what the script has installed on each table, `script` how far it has come. Tables are created at any time. |
| `RateLimiter` | the sliding window | Time in ticks, several to a second, because the code rounds to seconds. |
| `SchemaIndex` | `index_schema`, both vector stores, the retriever's snapshot | `run` holds the local variables of `index_schema` in each process, `proc` its singletons; `live` is the ERP schema, `index` the table `table_embeddings`. Schema changes and restarts with another embedding model happen at any time. |
| `TableSelection` | `retrieve`, foreign-key expansion, `safe_alias` | A pure computation, in one step from a question's scores to the selected tables and their aliases, with every order of ties. Index and snapshot may differ. Names enter as relations: `ByName` their order, `Akin` their stems, `Growth` the aliases grown from them. |
| `Introspection` | `introspect_schema` with both kinds of sampling; the rows that `index_schema` derives from a reading | Each query is a step, with a snapshot of its own. `live` is the schema that migrations change; `at`, `tables`, `keys`, `references`, `info`, `hint`, `todo` are the local variables, `aborted` the state of the transaction. What a column holds is chosen when it is sampled. A checksum is the record it is computed from. |
| `SequenceLemmas` | - | What the proofs need of folds over sequences, flattening and counting. |
| `TopicDigestProofs`, `SessionStoreProofs` (both stores over tables, `SessionStore` and `PostgresSessionStore`), `RedisSessionStoreProofs`, `ChatPipelineProofs`, `RequestProofs` (`RateLimiter`, `QueryExecution`), `RetrievalProofs` (`SchemaIndex`, `TableSelection`), `IntrospectionProofs` | - | Theorems about the modules they extend. |
| `MC...` | - | Small instances: what the texts, topics and companies are. |

Composition: `PostgresSessionStore` is proved to implement `SessionStore`; `RedisSessionStore` is
proved to for one instance, until it dies between two commands. `ChatPipeline` is built on `SessionStore`, hence on what
the Postgres store provides to any number of processes, and Redis to one. `SchemaIndex` stands
alone: the pipeline takes any retrieval result, one computed from a stale index included. So does
`QueryExecution`: the pipeline's executor returns rows or an error, and this module says which rows.
`TableSelection` says which tables a retrieval result has, for every index and snapshot that
`SchemaIndex` allows to stand side by side, a table apart. `SchemaIndex` reads the schema in one
step and compares checksums as if they were what they stand for; `Introspection` is the account of
that step: when a reading is the schema, and that checksums may then be trusted (`ReembedsOnDrift`). A refresh of the
retriever's snapshot is one step for the same reason: its queries are those that `Introspection` models one by one.
The properties of `SchemaIndex` promise nothing of a reading into which a migration falls.

Correspondence worth knowing when reading the models:

- A step is one call to the outside together with the local code after it. Text that only
  reaches a prompt, a log or the user's screen is a model value.
- A request is identified with its message. The model's replies are classified by what
  `_parse` makes of them (`ReplyKind`).
- `validate_sql`, the database and the model are nondeterministic: each may accept or fail
  every time it is called.
- History variables (`evicted`, `topics`, `executed`, `accepted`, `billed`, `last`, `root`,
  `admitted`, `promise`, `before`, `disturbed`, `missed`, `settled`, `fresh`, `provisioned`,
  `held`, `referred`, `calm`, `readings`, `torn`) record what happened and influence nothing.
- Operators whose comment begins with "Mutant" are not part of a specification. Each is a
  plausible mistake in the definition it stands next to, kept to show that a property
  notices it; `PROJECT.json` pairs them.

## What is checked

| Run | Instance | Shows |
|---|---|---|
| `postgres` | two connections on one session, window of 1, four ids, a digest of two short topics; one text of two topics, one with a topic longer than the digest | Each commit is one `StoreAppend` and nothing else shows; ids may commit out of order. The newest messages are kept, every turn is counted, the digest is what one truncation of everything rolled out would give; every transaction ends. |
| `redis_instance` | one instance, four pushes, window of 1, one crash | The operations implement `SessionStore` until a crash; no crash loses a topic. |
| `redis_concurrent` | two instances, three pushes, keys expiring, one death | TTLs and the length of the list survive any interleaving, up to what the death of an instance leaves behind. |
| `chat_serial` | one worker, three requests, one crash, one expiry | A chain of clarifying questions keeps its first intent; an answered session has nothing pending; the history the next prompt is built from ends with the exchange the user has just seen. |
| `chat_concurrent` | two workers, two overlapping requests, one crash | Only validated statements run, in the company of their request; outcome, statement and token count are those of what happened; every reply delivered is in the history, after its message; every request ends. |
| `rate_limiter` | two identities, limit 2, window of 4 ticks, 9 ticks | The limit holds in every window; waiting helps. |
| `schema_index` | a service and a script, two tables in two versions, two embedding models of different dimension, three runs, two migrations, one restart; both vector stores | Every completed, undisturbed run leaves an exact index, whatever failed before; the service that ran it forgets its older copies; rows of live tables go only with a run older than the table. |
| `query_execution` | one worker, two statements on one connection, either role, two tables that may have yet to be created, two companies, a limit of two rows; three runs of the script | From the moment `--enable` has done a table the read-only role is shown rows of it to their company only; results are complete unless marked; a run that failed anywhere can be repeated, and leaves each table it has done as it promises. |
| `introspection` | two tables, one of them in three versions with keys of one and two columns, two readings, two migrations; limits of 2, 1, 2, 2 for 12, 10, 500, 3 | A reading no migration has interrupted is the schema; a list of values shown is the whole list, a lookup group stated is right; a second reading has the checksum of the first just for a table that has not changed, whatever was sampled. The primary keys of the two tables may share a name. |
| `table_selection` | five tables of the ERP with their foreign keys, any similarities and matches out of three and two, at most one table missing from index or snapshot, at most one nearer row overlooked by the vector index; two matches and three tables per prompt | Best matches come first and stay; what they are joined with comes along while there is room; no table twice; aliases distinct and legal. |
| `redis_lost_topic`, `chat_repair_intent` | as above | Disagreements between code and its documentation, see below. |

Why the bounds are enough. The window is what the store properties turn on, and the instances
let several messages beyond it: with a window of one and four messages there are three evictions, one of
a message that is itself the newest to commit and not the newest by id, and with texts of two topics they
overflow the digest more than once. Two connections are all that a row lock
distinguishes. Three requests are the shortest chain in which an intent must survive two
questions. The limiter's clock runs for more than two windows. In `table_selection` a fifth table is one more
than the vector store is asked for, and a match has more neighbours than there is room; scores lie below
and above each threshold. The weights of the code are equal, so hybrid scores are integers; an implementation
in floating point may order near ties otherwise, which the model covers for exact ties only.
In `introspection` a column may
hold one value more than are fetched, and two values that are the same when cut; a key of two columns gives
four pairs of columns. Three script runs are a partial one, its repetition and the reverse. Three indexing runs are a half-finished one and two that overlap, before and after migrations.

Fairness. `PgFairSpec` assumes that a statement that can run is run (weak fairness) and that the
queue for a row lock is served (strong fairness on `AppendLockRow`); Postgres queues waiters, and
the connection has timeouts. `ChatFairSpec` assumes weak fairness of a worker's next step: model
calls have a timeout (`app/llm/groq_provider.py`, 45 s and five retries), statements have
`statement_timeout`, store transactions end. Failures and crashes are never assumed to happen.

`CHECK_DEADLOCK FALSE` stands where the behaviours end because the bounded requests or ticks run
out; the stores, which can always `get` again, are checked for deadlock.

### Where the code disagrees with its documentation

- `redis_lost_topic`: `get` writes the initial fields of a session, an empty digest among them, when its
  `HGETALL` found none (`redis_store.py:45`). Another instance may by then have created the session and
  folded an evicted turn into its digest, which is lost. `LTRIM` is a race of the same kind: of two instances that
  count the same overflow the second removes messages that neither has folded.
- `chat_repair_intent`: a question asked back by the repair call is stored with the message of
  the current request instead of the intent the conversation had.

A `clarifying_question` that is not a string raises in `_parse`, and the request ends in an error,
although `router.py:140` says that "a malformed response must degrade to a clarification". The replies of
`chat_serial` and `chat_concurrent` include it (`"odd_question"`); their properties hold with that ending.

`retriever.py:163` says that header/detail pairs are expanded first. The neighbours come in the order of
their names, so with little room a relevant table of another kind goes before a detail table;
`JoinsPossible` promises the detail table only while the prompt is not full.

A message longer than the digest limit (240 characters) empties the digest, its own topic included,
although `tests/test_session.py:112` expects the most recent topic to survive truncation. The texts of
`postgres` include such a message; `DigestComplete` promises what one truncation would leave, which is
nothing in that case.

`enable_company_rls --enable` on a database that has the policies drops each before it creates it anew,
in autocommit, so while it runs a request may be answered from every company; while the permissive policy
is being replaced, from none. `AnswersScoped` speaks of a table from the moment the script has done it until
the script comes to it again. It speaks of the read-only role: without `READONLY_DATABASE_URL` the service logs in
as the owner (`config.py:79`), whom no policy restricts. Tables created after `--enable` have no policies until
it is run again. The script's docstring says that every other role "works exactly as before", although the
permissive policy is for `SELECT` only and writes of such a role are refused; the model has no writes, so
`FullPolicy` is what lets reads through.

`_attach_enum_samples` and `_attach_lookup_codes` catch what a sample raises and go on, "best effort". In the
one transaction they run in, every later sample then fails as well, so one column that cannot be read leaves
all after it without hints (`SampleFails`, `aborted`). Hints are optional, and the properties hold.

The catalogue queries for primary and foreign keys join by the names of constraints, which Postgres keeps unique within a
table only; `KeyRows` and `ReferenceRows` mix up those that share a name. `CatalogueExact` and `ReembedsOnDrift` assume that
they are unique in the schema (`NamesUnshared`).

`indexer.py:5` says that a re-run "only re-embeds tables whose schema or glossary entry actually changed". The rows of the
query for foreign keys come in no order and the dictionary keeps the last one of each column, so a column that refers to
several others may be read differently by two runs, and its table is embedded again although nothing has changed.
`ReembedsOnDrift` says that this is the only way: a table that has changed is always embedded again, and one that has not is
skipped if each of its columns refers to one column at most (`Definite`).

A pending question of blanks is stored as the empty string, with its intent. The Redis store reads it back as none beside
that intent (`redis_store.py:67`), the Postgres store as it is; `handle` takes either for no pending question (`Truthy`).

With pgvector, `ensure_schema` leaves the embedding column as it was created. A provider of another
dimension is refused by every `upsert` from then on, although `app/embeddings/base.py:30` says that
changing the dimensionality invalidates the index: the run fails and the old rows stay. `Upsert`
models the refusal; the properties of the index speak of completed runs.

An instance of the Redis store that dies before `_touch` leaves keys without a TTL, although `redis_store.py:115`
says "Redis expires keys itself; nothing to sweep". They stay until an operation on the session touches them, for ever if
there is none; `KeysExpire` excepts just these keys (`torn`).

Two more behaviours are left out of passing runs by a constant. With `"blank_question"` among `RouteReplies`,
`chat_serial` violates `ClarificationResumes`: blanks are stripped to the empty string, which counts as nothing pending.
With two workers and `Overlap = TRUE` it violates it too: `clear_pending_clarification` clears a
question another process has asked since. Nor does `PromptShowsExchange` hold then: with a window of two, a message may
have rolled out before its own reply is stored.

## What is proved

Every safety invariant, action property and refinement of the passing runs is a theorem, listed in
`PROJECT.json`. The assumptions named below are those the modules state of their constants; where a theorem
supposes more, it says so.

`SequenceLemmas` makes folds usable. `FoldLeft` and `FlattenSeq` are recursive functions chosen by `CHOOSE`, so
one has to show that there is such a function before one knows anything of it: `FoldSolution` does, from the
well-foundedness of the naturals, and `FoldSteps` then gives the values of the accumulator place by place. `UpTo` is
induction up to a bound in a form the provers can use, about a set of places instead of a predicate.

`TopicDigestProofs`, from `TopicAssumption`: `KeepRecentAbsorbs`, that truncating a digest, adding topics and truncating
again is the same as adding them and truncating once, for any topics, lengths and limit. It holds because the truncated
digest is the longest ending that fits (`KeepRecentLeast`), and what is cut from a sequence that is too
long would be cut from a longer one.

`SessionStoreProofs`, from `StoreAssumption` and `TopicAssumption`: `StoreSpec` implies types, the table invariant,
`WindowIsNewest`, `TurnsCounted` and `DigestComplete`, for any number of sessions, texts and ids, any
window and any digest limit. The invariant `StoreInv` adds that every session's messages are a finite set,
without which counting the newer ones says nothing, and that the digest is the truncation of all topics
rolled out (`DigestFolds`), which `KeepRecentAbsorbs` keeps true. The argument for an append: putting one
message in a full window pushes out exactly one, which is older than all that stay
(`EvictsAtMostOne`, `EvictedIsOlder`), even when it is the new message itself.

The same module, from the same assumptions: `PgSpec` implements `StoreSpec` (`PgImplementsStore`) for
any number of connections, so that `WindowIsNewest`, `TurnsCounted` and `DigestComplete` hold of the tables
themselves. A commit must be one `StoreAppend`, although the transaction has read messages and digest statements
earlier. `PgInv` therefore says of a transaction that has read (`InOrder`) that what it read is still so: it is the
overflow of its session and the digest to be left. That survives the others because of any two transactions on a session one
has yet to take the row lock (`Apart`, `PgOnePastTheLock`), and every write to messages or digest is behind it. The
`DELETE` evaluates its subquery again, and deletes what the digest took for the same reason.

`RedisSessionStoreProofs`, from `RedisAssumption` and `TopicAssumption`. For any number of instances, with keys expiring
between any two commands and any number of deaths: `RedisTypeOK`, `TrimmedBetweenOperations` and `KeysExpire`. The last
two speak of the moments when nobody is busy, so `RedisInv` says what is owed until
then (`Owed`): for a key without expiry somebody is on the way to `_touch` it, or it is one an instance died over; for a
list that is too long somebody has yet to measure it, or has measured at least what is too much by now, but for one message
per death. `ClientStep` is the bookkeeping of such debts: a step must settle or keep what its client owed.

For one instance whose keys do not expire (`OneInstance`); with two of them `redis_lost_topic` shows the first to fail:

- `NothingForgotten`, whatever number of times the instance dies. What an operation has read is still so (`Seen`), and the
  digest is a truncation of topics among which are all that were trimmed (`Remembered`, `Folds`). A death between the `HSET`
  of the digest and the `LTRIM` leaves the list as it was, and the next append folds the same turns in again. The
  property therefore counts `1 + crashes` times the topics, those about to be trimmed included.
- `ImplementsStore`: every operation is one step of `SessionStore` when its last command is done, and nothing is seen of it
  before, until the instance dies in the middle of one. `RefInv` relates each command to the state in which its operation
  began (`before`): `InOrder` says that a list is at most one too long and its ids increase, all of them newer than
  what was trimmed; `Progress` says command by command what the operation has changed by then (`Pushed`,
  `RowsCounted`, `DigestWith`, `Finished`). It is `InOrder` that makes the head of the list what `SessionStore`
  means by the messages outside the window.

`RequestProofs`, from `LimiterAssumption`: `NeverOverLimit` and `WaitingHelps` for every limit,
window and resolution. The bound speaks of all admissions while the limiter remembers some, so
`LimiterInv` says that the bucket is a suffix of the admissions and that what precedes it is over a
window old. An admission then finds the admission `Limit` before it among the dropped ones. For
`WaitingHelps` it says that an outstanding promise, plus one second for its rounding, reaches the
expiry of the oldest entry. That the pruning loop stops at a well-defined place
(`UnexpiredIsSuffix`) rests on the well-foundedness of the naturals.

`ChatPipelineProofs`, from `PipelineAssumption` and `ReplyAssumption`: `ChatTypeOK`,
`OnlyGuardedRuns`, `OutcomeMatchesExecution` and `TokensReported` for any number of workers,
requests, sessions and replies, with `Overlap` or without. None of the last three is inductive: what a
caller is told depends on what has run by the place the worker has reached. `ChatInv` says so place by
place (`WorkerOK`): nothing has run before `execute`, exactly the first statement has failed at `repair`,
rows are there at `format`, and the counter equals the calls billed. `WorkersDistinct` says that no two
workers hold one request, so a step of one disturbs nothing of another (`OthersStayInOrder`); one lemma
per action then shows that its own request stays in order (`Preserves`). `ChatUsesStore` shows that
`ChatSpec` implies `StoreSpec`, that is, each step of any number of pipelines is an operation of the
store or leaves it alone, so that `WindowIsNewest` carries over (`ChatWindowIsNewest`).
`RepliesAreRemembered` gives every delivered reply a message of its own (`HasReplies`): the step that delivers a reply
appends a message newer than any before it, which extends the injection (`RepliesFound`), and no step but an expiry takes a
message out of the transcript (`RepliesKept`). `PromptShowsExchange` follows from `WindowIsNewest` with `~Overlap` and a window of two or more:
nothing is appended to a session between a message and its reply (`ShowsMessage`, `ShowsExchange`).
The two promises about clarifications are proved under the assumptions of `chat_serial` (the section above says how
each fails without them):
`~Overlap`, that a user waits for the reply, for both; and for `ClarificationResumes` also `AsksPlainly`, that the model
asks no blank question and does not ask back when repairing, which is what the finding of `chat_repair_intent` is about.
`SerialInv` is stated once for both: `Leaves` says what a session holds once an outcome is known, for the worker that has
yet to store the reply (`OnTheWay`) and for the session at rest (`AtRest`), and between the two the worker carries the
intent that its request continues (`CarriesOn`), as far as `Resolve`. Crashes, failures and several processes are included.

`RetrievalProofs`, from `IndexAssumption`: all four properties of the index, for any number of
processes, tables, versions and models. `IndexIsExact` is not inductive, because what a run skips was
written by others. `RunInOrder` says how far an undisturbed run has come: it knows the schema, then what
it will not embed is right, then everything is. It survives the writes of other runs since those that
leave it undisturbed share its schema and model (`UndisturbedByWrite`). `MissedSince` bounds what a prune
may remove; `CacheDropped` says that nothing is cached between a prune and the refresh.

The same module, from the assumptions of `TableSelection`: all four of its properties, for any number of tables, foreign keys,
scores, ties and limits. A question is answered in one step, so the proof is about what that step
computes (`Selected`), one fold after the other: `Best` takes the best matches in the order of their scores (`AreBest`), the expansion goes over
those matches and adds neighbours while there is room (`Expands`: no table twice, what was there stays, and a neighbour left
out means that the prompt is full), and aliases are given one by one, each unlike those before it (`Names`). That an alias
can always be found rests on counting: there are more candidates than aliases in use.

`IntrospectionProofs`, from `IntrospectAssumption`: all five properties of a reading, for any schema, any contents and any
limits of which the query's is the larger. `CatalogueRead` says query by query which part of an undisturbed reading is
already the schema, `HintInv` that a hint was computed from what its column held. `EnumHintsComplete` rests on the arithmetic of two limits:
what was fetched up to one and is short enough for the other cannot have been cut (`ListComplete`). `ReembedsOnDrift` relates a
reading to earlier ones: `RowsRead` says that the checksum kept from an undisturbed reading is one that the catalogue it read
may give (`ShapeReads`), and so is the one computed now. Equal ones then come from catalogues that agree (`SumsTell`), and where each
column refers to one at most a catalogue gives one checksum only (`AlikeSums`).

`RequestProofs`, from `QueryAssumption`: all five properties of query execution, for any number of
tables, companies, workers and connections, any limits, either role and any finite data. `QueryInv` adds two things.
`ScriptInOrder` says, for each place in the script, how far it has come with the table it is at (`TableInOrder`); that table
counts as unknown meanwhile, and nothing is said of tables it has yet to reach, which is why any partial run before it is
harmless. `RequestInOrder` says that the setting is that of the request when its statement runs, and
that what was fetched is what it may see, up to the limits. Where the policies of a table are known, what row-level
security shows of it is what a request is entitled to (`VisibleIsEntitled`); `NothingHeldBack` is the
arithmetic of the two limits and the truncation flag.

Only model-checked: liveness, that is `TransactionsEnd` and `EveryRequestEnds`, whose fairness speaks of `ENABLED`, which the
prover does not reason about. The two runs that expect a violation have no theorem, of course; `RedisNothingForgotten` and
`ChatResumes` say under which conditions the properties they refute do hold.

## What is not modelled, and the plan

The modules of the plan are written and their safety properties proved. What is left for whoever goes on:

| Next | Module | Question |
|---|---|---|
| 1 | `RedisSessionStore` | After a crash: that the one instance still keeps the newest messages, although `ImplementsStore` ends there. With expiring keys: that an expiry is a purge of `SessionStore` when it falls between two operations. |
| 2 | `ChatPipeline` | Which of the promises about clarifications survive overlapping requests. |
| 3 | `SchemaIndex` | A column that refuses a new dimension, as a property of its own. |
| 4 | `QueryExecution` | The verdicts of the guard in front of a statement, if they can be had without its parser. |

Left out for good:

- Prompts, rendering and the wording of descriptions: text. The glossary is data.
- Providers: one blocking call each, whose failures the pipeline takes. Configuration, logging, request schemas: constants
  of the models, or no state any property depends on. The legacy prototype: superseded.
- The guard's keyword scanning: text processing over a parser library. Its verdict is a choice in the pipeline; its
  row limit is in `QueryExecution`. A result of exactly `sql_max_rows` rows under an applied limit counts as truncated, complete or
  not; `AnswersComplete` is about results that do not.
- Provisioning scripts other than `enable_company_rls`: grants, run by hand one after the other. Two things seen in
  passing: a table created between `GRANT ... ON ALL TABLES` and `ALTER DEFAULT PRIVILEGES` is granted by neither, and in
  the order of the repository's README `bootstrap_db.py` revokes rights on a schema that may not exist yet.
  The role named to `enable_company_rls` and that of `READONLY_DATABASE_URL` are taken to be the same.
- `purge_expired` has no caller in the repository; the store model takes purges at any time, and in the pipeline a
  session expires only between requests.
- Two instances that both find no Redis hash may reset a turn already counted (`GetCreate` does it); nothing is promised
  about the count of the Redis store. Nor is another process told of a reindex: `OwnReindexIsSeen` is about the one that ran it.
