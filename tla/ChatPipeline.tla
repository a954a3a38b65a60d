---------------------------- MODULE ChatPipeline ----------------------------
(***************************************************************************)
(* ChatPipeline.handle (app/pipeline/orchestrator.py) with the router, the *)
(* formatter and the chat endpoint around it, on the session store.        *)
(*                                                                         *)
(* A worker is one service process: the endpoint is a coroutine that never *)
(* awaits, so a process answers one request at a time, and concurrency     *)
(* comes from several processes on one store.  A request is identified     *)
(* with its message.  A step is one call to the outside (store, model,     *)
(* database) together with the local code after it.                        *)
(***************************************************************************)
EXTENDS SessionStore

CONSTANTS
    Worker,
    Request,            \* the user messages
    CompanyOf,          \* company_id of each request, Null when absent
    UserOf,             \* its user_id, Null when absent
    AskText,            \* a question the model asks
    DefaultText,        \* DEFAULT_CLARIFICATION
    BlankText,          \* ""
    AnswerText,         \* a formatted answer
    ErrorText,          \* _SQL_, _GUARD_ and _LLM_ERROR_MESSAGE
    RouteReplies,       \* what the model may reply when routing ...
    RepairReplies,      \* ... and when repairing
    Overlap,            \* may a user send before the previous reply arrived?
    MaxCrashes,         \* bound: workers that die in mid request
    MaxExpiries         \* bound: sessions whose TTL runs out

ASSUME PipelineAssumption ==
    /\ Request \subseteq Content
    /\ {AskText, DefaultText, BlankText} \subseteq Question
    /\ Question \cup {AnswerText, ErrorText} \subseteq Content
    /\ BlankText \notin Request \cup {AskText, DefaultText}
    /\ UserOf \in [Request -> User \cup {Null}]
    /\ Overlap \in BOOLEAN
    /\ MaxCrashes \in Nat /\ MaxExpiries \in Nat

VARIABLES
    pc, job,            \* of each worker: where it is, and its local variables
    response,           \* what became of each request
    executed,           \* history: statements handed to the database
    accepted,           \* history: statements the guard has let through
    billed,             \* history: model calls that returned, per request
    last,               \* history: the last request received in each session
    root,               \* history: the request whose intent a request continues
    crashes, expiries

chatVars == <<pc, job, response, executed, accepted, billed, last, root, crashes, expiries>>
vars == <<storeVars, chatVars>>

Truthy(text) == text # Null /\ text # BlankText

(* Replies by what _parse makes of them: a query in JSON or bare, a JSON    *)
(* "sql" without a query, text in no known form, and "clarify" with a       *)
(* question, without one, with a blank one, or with one that is no string.  *)
ReplyKind == {"sql", "bare_sql", "sql_missing", "garbage",
              "question", "no_question", "blank_question", "odd_question"}
ASSUME ReplyAssumption == RouteReplies \cup RepairReplies \subseteq ReplyKind

(* Mutant: what is no string passes for a question. *)
ParseUnchecked(reply) ==
    CASE reply \in {"sql", "bare_sql"} -> [decision |-> "sql", question |-> Null]
      [] reply = "question" -> [decision |-> "clarify", question |-> AskText]
      [] reply = "blank_question" -> [decision |-> "clarify", question |-> BlankText]
      [] OTHER -> [decision |-> "clarify", question |-> reply]

Parse(reply) ==
    CASE reply \in {"sql", "bare_sql"} -> [decision |-> "sql", question |-> Null]
      [] reply = "question" -> [decision |-> "clarify", question |-> AskText]
      [] reply = "blank_question" -> [decision |-> "clarify", question |-> BlankText]
      [] reply = "odd_question" -> [decision |-> "raise", question |-> Null]
      [] OTHER -> [decision |-> "clarify", question |-> DefaultText]

NoResponse == [type |-> "none"]
Waiting == [type |-> "waiting"]
Lost == [type |-> "lost"]
InternalError == [type |-> "internal_error"]
ParseError == [type |-> "parse_error"]        \* an internal error, out of _parse

(* ChatOutcome: sql is the pass whose statement it shows. *)
Outcome(type, path, text, sql, tokens) ==
    [type |-> type, path |-> path, text |-> text, sql |-> sql, tokens |-> tokens]
NoOutcome == Outcome("none", "none", Null, Null, 0)

Delivered(r) == response[r].type \in {"answer", "clarification_needed", "error"}
AskedBack(r) == response[r].type = "clarification_needed"
LlmFailed(r) == Delivered(r) /\ response[r].path = "llm_error"

(* The local variables of handle, _run and _attempt_repair. *)
NoJob == [request |-> Null, session |-> Null, company |-> Null, pending |-> Null,
          intent |-> Null, question |-> Null, sql |-> Null, tokens |-> 0,
          outcome |-> NoOutcome]

InFlight(s) == {w \in Worker : pc[w] # "idle" /\ job[w].session = s}

ChatInit ==
    /\ StoreInit
    /\ pc = [w \in Worker |-> "idle"]
    /\ job = [w \in Worker |-> NoJob]
    /\ response = [r \in Request |-> NoResponse]
    /\ executed = {}
    /\ accepted = {}
    /\ billed = [r \in Request |-> 0]
    /\ last = [s \in Session |-> Null]
    /\ root = [r \in Request |-> Null]
    /\ crashes = 0 /\ expiries = 0
-----------------------------------------------------------------------------
Goto(w, from, to) == pc[w] = from /\ pc' = [pc EXCEPT ![w] = to]

(* The outcome is ready: append_message "assistant" is next. *)
Conclude(w, from, outcome) ==
    /\ Goto(w, from, "reply")
    /\ job' = [job EXCEPT ![w].outcome = outcome, ![w].tokens = outcome.tokens]

(* The history variables say a model call returned. *)
Bill(w) == billed' = [billed EXCEPT ![job[w].request] = @ + 1]

(* What a message continues, as the user sees it: the question just asked   *)
(* back, or, after a failed model call, what the failed message continued.  *)
(* After a lost or failed request, or a reply still awaited: unknown.       *)
IntentOf(s, r) ==
    LET p == last[s]
    IN  IF p = Null THEN r
        ELSE IF AskedBack(p) THEN root[p]
        ELSE IF LlmFailed(p) THEN (IF root[p] = p THEN r ELSE root[p])
        ELSE IF Delivered(p) THEN r
        ELSE Null

(* POST /api/v1/chat reaches an idle worker. *)
Receive(w, r, s) ==
    /\ response[r] = NoResponse
    /\ Overlap \/ InFlight(s) = {}
    /\ Goto(w, "idle", "load")
    /\ job' = [job EXCEPT ![w] =
          [NoJob EXCEPT !.request = r, !.session = s, !.company = CompanyOf[r]]]
    /\ response' = [response EXCEPT ![r] = Waiting]
    /\ root' = [root EXCEPT ![r] = IntentOf(s, r)]
    /\ last' = [last EXCEPT ![s] = r]
    /\ UNCHANGED <<storeVars, executed, accepted, billed, crashes, expiries>>

(* Mutant: requests of a session queue up, each waiting for all the others. *)
LoadAlone(w) ==
    LET s == job[w].session
    IN  /\ InFlight(s) = {w}
        /\ Goto(w, "load", "note")
        /\ StoreGet(s, UserOf[job[w].request])
        /\ job' = [job EXCEPT ![w].pending = row'[s].pending, ![w].intent = row'[s].intent]
        /\ UNCHANGED <<response, executed, accepted, billed, last, root, crashes, expiries>>

(* sessions.get; the history and the pending question are read here, once. *)
Load(w) ==
    LET s == job[w].session
    IN  /\ Goto(w, "load", "note")
        /\ StoreGet(s, UserOf[job[w].request])
        /\ job' = [job EXCEPT ![w].pending = row'[s].pending, ![w].intent = row'[s].intent]
        /\ UNCHANGED <<response, executed, accepted, billed, last, root, crashes, expiries>>

(* What the sequence gives next: the ids of a session grow.  (Those of a    *)
(* session that is gone may come again; ids only order one session.)        *)
IsNextId(id) ==
    LET above(i) == \A s \in Session : \A m \in Transcript(s) : m.id < i
    IN  above(id) /\ \A i \in MessageId : above(i) => id <= i

(* Retrieval, which keeps no state of the session, then append_message "user". *)
Note(w) ==
    /\ Goto(w, "note", "route")
    /\ \E id \in MessageId :
          IsNextId(id) /\ StoreAppend(job[w].session, "user", job[w].request, id)
    /\ UNCHANGED <<job, response, executed, accepted, billed, last, root, crashes, expiries>>

(* An unhandled exception: the middleware answers 500, and what was stored  *)
(* so far stays.                                                            *)
Abandon(w, as) ==
    /\ pc' = [pc EXCEPT ![w] = "idle"]
    /\ job' = [job EXCEPT ![w] = NoJob]
    /\ response' = [response EXCEPT ![job[w].request] = as]

(* route: one model call and _parse. *)
Route(w) ==
    \/ /\ Conclude(w, "route", Outcome("error", "llm_error", ErrorText, Null, job[w].tokens))
       /\ UNCHANGED <<storeVars, response, executed, accepted, billed, last, root, crashes,
                      expiries>>
    \/ \E reply \in RouteReplies :
         LET parsed == Parse(reply)
         IN  /\ parsed.decision # "raise"
             /\ Goto(w, "route", IF parsed.decision = "sql" THEN "resolve" ELSE "ask")
             /\ job' = [job EXCEPT ![w].tokens = @ + 1, ![w].question = parsed.question]
             /\ Bill(w)
             /\ UNCHANGED <<storeVars, response, executed, accepted, last, root, crashes,
                            expiries>>
    \/ /\ pc[w] = "route"
       /\ \E reply \in RouteReplies : Parse(reply).decision = "raise"
       /\ Bill(w)
       /\ Abandon(w, ParseError)
       /\ UNCHANGED <<storeVars, executed, accepted, last, root, crashes, expiries>>

(* Mutant: a second question replaces the original intent by the answer. *)
AskForgetsIntent(w) ==
    LET j == job[w]
    IN  /\ Conclude(w, "ask", Outcome("clarification_needed", "clarification", j.question,
                                      Null, j.tokens))
        /\ StoreSetPending(j.session, j.question, j.request)
        /\ UNCHANGED <<response, executed, accepted, billed, last, root, crashes, expiries>>

(* Not a query: remember the question and what the user originally wanted. *)
Ask(w) ==
    LET j == job[w]
    IN  /\ Conclude(w, "ask", Outcome("clarification_needed", "clarification", j.question,
                                      Null, j.tokens))
        /\ StoreSetPending(j.session, j.question,
                           IF Truthy(j.intent) THEN j.intent ELSE j.request)
        /\ UNCHANGED <<response, executed, accepted, billed, last, root, crashes, expiries>>

(* Mutant: the pending question is resolved only when the guard agrees. *)
ResolveIfAccepted(w) ==
    LET r == job[w].request
    IN  /\ \/ /\ Goto(w, "resolve", "execute")
              /\ StoreClearPending(job[w].session)
              /\ accepted' = accepted \cup {<<r, "route">>}
              /\ job' = [job EXCEPT ![w].sql = "route"]
           \/ /\ Conclude(w, "resolve", Outcome("error", "guard_rejected", ErrorText,
                                                "route", job[w].tokens))
              /\ UNCHANGED <<storeVars, accepted>>
        /\ UNCHANGED <<response, executed, billed, last, root, crashes, expiries>>

(* A query: whatever was pending is resolved; then validate_sql. *)
Resolve(w) ==
    LET r == job[w].request
    IN  /\ \/ /\ Goto(w, "resolve", "execute")
              /\ accepted' = accepted \cup {<<r, "route">>}
              /\ job' = [job EXCEPT ![w].sql = "route"]
           \/ /\ Conclude(w, "resolve", Outcome("error", "guard_rejected", ErrorText,
                                                "route", job[w].tokens))
              /\ UNCHANGED accepted
        /\ StoreClearPending(job[w].session)
        /\ UNCHANGED <<response, executed, billed, last, root, crashes, expiries>>

(* Mutant: the repaired statement runs without the company. *)
RunUnscoped(w, ok) ==
    executed' = executed \cup {[request |-> job[w].request, pass |-> job[w].sql,
                                company |-> IF job[w].sql = "repair" THEN Null
                                            ELSE job[w].company, ok |-> ok]}

(* execute_query: the current statement runs, or fails, in the scope of the *)
(* company of the request.                                                  *)
Run(w, ok) ==
    executed' = executed \cup {[request |-> job[w].request, pass |-> job[w].sql,
                                company |-> job[w].company, ok |-> ok]}

Execute(w) ==
    /\ \E ok \in BOOLEAN :
          /\ Run(w, ok)
          /\ Goto(w, "execute", IF ok THEN "format" ELSE "repair")
    /\ UNCHANGED <<storeVars, job, response, accepted, billed, last, root, crashes, expiries>>

(* The outcome of a repair that comes to nothing.  It shares the token      *)
(* counter of the request, so it reports the repair call too.               *)
SqlFailure(tokens) == Outcome("error", "sql_error", ErrorText, "route", tokens)

(* repair: one corrective model call, and validate_sql on its query. *)
Repair(w) ==
    \/ /\ Conclude(w, "repair", SqlFailure(job[w].tokens))
       /\ UNCHANGED <<storeVars, response, executed, accepted, billed, last, root, crashes,
                      expiries>>
    \/ \E reply \in RepairReplies :
         /\ Parse(reply).decision = "clarify"
         /\ Goto(w, "repair", "reask")
         /\ job' = [job EXCEPT ![w].tokens = @ + 1, ![w].question = Parse(reply).question]
         /\ Bill(w)
         /\ UNCHANGED <<storeVars, response, executed, accepted, last, root, crashes, expiries>>
    \/ /\ \E reply \in RepairReplies : Parse(reply).decision = "sql"
       /\ Bill(w)
       /\ \/ /\ Goto(w, "repair", "retry")
             /\ accepted' = accepted \cup {<<job[w].request, "repair">>}
             /\ job' = [job EXCEPT ![w].tokens = @ + 1, ![w].sql = "repair"]
          \/ /\ Conclude(w, "repair", SqlFailure(job[w].tokens + 1))
             /\ UNCHANGED accepted
       /\ UNCHANGED <<storeVars, response, executed, last, root, crashes, expiries>>
    \/ /\ pc[w] = "repair"
       /\ \E reply \in RepairReplies : Parse(reply).decision = "raise"
       /\ Bill(w)
       /\ Abandon(w, ParseError)
       /\ UNCHANGED <<storeVars, executed, accepted, last, root, crashes, expiries>>

(* The model asks back instead of repairing: stored with the message itself. *)
Reask(w) ==
    LET j == job[w]
    IN  /\ Conclude(w, "reask", Outcome("clarification_needed", "clarification", j.question,
                                        Null, j.tokens))
        /\ StoreSetPending(j.session, j.question, j.request)
        /\ UNCHANGED <<response, executed, accepted, billed, last, root, crashes, expiries>>

(* execute_query on the repaired statement. *)
Retry(w) ==
    /\ \/ /\ Run(w, TRUE)
          /\ Goto(w, "retry", "format")
          /\ UNCHANGED job
       \/ /\ Run(w, FALSE)
          /\ Conclude(w, "retry", SqlFailure(job[w].tokens))
    /\ UNCHANGED <<storeVars, response, accepted, billed, last, root, crashes, expiries>>

(* Mutants: the answer to a repaired statement shows the first one; the     *)
(* tokens of the formatting call are not added.                             *)
FormatShowsFirst(w) ==
    LET path == IF job[w].sql = "repair" THEN "repaired_answer" ELSE "direct_answer"
        answer(tokens) == Outcome("answer", path, AnswerText, "route", tokens)
    IN  /\ \/ Conclude(w, "format", answer(job[w].tokens + 1)) /\ Bill(w)
           \/ Conclude(w, "format", answer(job[w].tokens)) /\ UNCHANGED billed
        /\ UNCHANGED <<storeVars, response, executed, accepted, last, root, crashes, expiries>>

FormatUnbilled(w) ==
    LET path == IF job[w].sql = "repair" THEN "repaired_answer" ELSE "direct_answer"
        answer == Outcome("answer", path, AnswerText, job[w].sql, job[w].tokens)
    IN  /\ Conclude(w, "format", answer)
        /\ Bill(w) \/ UNCHANGED billed
        /\ UNCHANGED <<storeVars, response, executed, accepted, last, root, crashes, expiries>>

(* format_answer: a model call that may fail, never the request. *)
Format(w) ==
    LET path == IF job[w].sql = "repair" THEN "repaired_answer" ELSE "direct_answer"
        answer(tokens) == Outcome("answer", path, AnswerText, job[w].sql, tokens)
    IN  /\ \/ Conclude(w, "format", answer(job[w].tokens + 1)) /\ Bill(w)
           \/ Conclude(w, "format", answer(job[w].tokens)) /\ UNCHANGED billed
        /\ UNCHANGED <<storeVars, response, executed, accepted, last, root, crashes, expiries>>

(* Mutant: the response goes out before the reply is stored. *)
ReplyUnrecorded(w) ==
    /\ pc[w] = "reply"
    /\ Abandon(w, job[w].outcome)
    /\ UNCHANGED <<storeVars, executed, accepted, billed, last, root, crashes, expiries>>

(* append_message "assistant", and the response goes out. *)
Reply(w) ==
    /\ pc[w] = "reply"
    /\ \E id \in MessageId :
          IsNextId(id) /\ StoreAppend(job[w].session, "assistant", job[w].outcome.text, id)
    /\ Abandon(w, job[w].outcome)
    /\ UNCHANGED <<executed, accepted, billed, last, root, crashes, expiries>>

(* The store, the retriever, the driver or the provider raises. *)
Fail(w) ==
    /\ pc[w] # "idle"
    /\ Abandon(w, InternalError)
    /\ UNCHANGED <<storeVars, executed, accepted, billed, last, root, crashes, expiries>>

(* The process dies and is started again. *)
Crash(w) ==
    /\ pc[w] # "idle"
    /\ crashes < MaxCrashes
    /\ crashes' = crashes + 1
    /\ Abandon(w, Lost)
    /\ UNCHANGED <<storeVars, executed, accepted, billed, last, root, expiries>>

(* A session that nobody has used for session_ttl_seconds is removed. *)
Expire(s) ==
    /\ s \in DOMAIN row
    /\ InFlight(s) = {}
    /\ expiries < MaxExpiries
    /\ expiries' = expiries + 1
    /\ StorePurge({s})
    /\ last' = [last EXCEPT ![s] = Null]
    /\ UNCHANGED <<pc, job, response, executed, accepted, billed, root, crashes>>

(* The steps of a request, in the order of the code. *)
Step(w) ==
    \/ Load(w) \/ Note(w) \/ Route(w) \/ Ask(w) \/ Resolve(w) \/ Execute(w)
    \/ Repair(w) \/ Reask(w) \/ Retry(w) \/ Format(w) \/ Reply(w)

ChatNext ==
    \/ \E w \in Worker, r \in Request, s \in Session : Receive(w, r, s)
    \/ \E w \in Worker : Step(w) \/ Fail(w) \/ Crash(w)
    \/ \E s \in Session : Expire(s)

ChatSpec == ChatInit /\ [][ChatNext]_vars

(* Model calls and statements have timeouts and the store's transactions    *)
(* end, so a worker that can get on with its request does.  Nothing is      *)
(* assumed of failures: no request depends on one to end.                   *)
ChatFairSpec == ChatSpec /\ \A w \in Worker : WF_vars(Step(w))
-----------------------------------------------------------------------------
Place == {"idle", "load", "note", "route", "ask", "resolve", "execute", "repair", "reask",
          "retry", "format", "reply"}
Passes == {"route", "repair"}
OutcomeSet == [type : {"none", "answer", "clarification_needed", "error"},
               path : {"none", "direct_answer", "repaired_answer", "clarification",
                       "guard_rejected", "sql_error", "llm_error"},
               text : Content \cup {Null}, sql : Passes \cup {Null}, tokens : Nat]
Job == [request : Request \cup {Null}, session : Session \cup {Null},
        company : {CompanyOf[r] : r \in Request} \cup {Null},
        pending : Question \cup {Null}, intent : Content \cup {Null},
        question : Question \cup {Null}, sql : Passes \cup {Null},
        tokens : Nat, outcome : OutcomeSet]
Response == {NoResponse, Waiting, Lost, InternalError, ParseError} \cup OutcomeSet
Statement == [request : Request, pass : Passes,
              company : {CompanyOf[r] : r \in Request}, ok : BOOLEAN]

ChatTypeOK ==
    /\ pc \in [Worker -> Place]
    /\ job \in [Worker -> Job]
    /\ response \in [Request -> Response]
    /\ executed \subseteq Statement
    /\ accepted \subseteq Request \X Passes
    /\ billed \in [Request -> Nat]
    /\ last \in [Session -> Request \cup {Null}]
    /\ root \in [Request -> Request \cup {Null}]
    /\ crashes \in Nat /\ expiries \in Nat

(* Nothing reaches the database but what validate_sql let through, the      *)
(* repaired statement included, and always in the scope of the company the  *)
(* request came with.                                                       *)
OnlyGuardedRuns ==
    \A e \in executed : /\ <<e.request, e.pass>> \in accepted
                        /\ e.company = CompanyOf[e.request]

Ran(r, pass, ok) == \E e \in executed : e.request = r /\ e.pass = pass /\ e.ok = ok

TellsTheTruth(r, out) ==
    /\ out.type = "answer" => Ran(r, out.sql, TRUE)
    /\ out.type # "answer" => ~Ran(r, "route", TRUE) /\ ~Ran(r, "repair", TRUE)
    /\ out.path \in {"repaired_answer", "sql_error"} => Ran(r, "route", FALSE)
    /\ out.path \in {"llm_error", "guard_rejected"} => ~Ran(r, "route", FALSE)

(* What the caller is told is what happened: an answer comes with the       *)
(* statement whose rows it describes, a repaired one after the first        *)
(* statement failed, and errors and questions without any rows read; nor    *)
(* has a request that _parse took down in either pass read any.             *)
OutcomeMatchesExecution ==
    \A r \in Request :
        /\ Delivered(r) => TellsTheTruth(r, response[r])
        /\ response[r] = ParseError => ~Ran(r, "route", TRUE) /\ ~Ran(r, "repair", TRUE)

(* tokens_used accounts for every model call that returned, whichever of    *)
(* the seven exits the request takes, and there are at most three.          *)
TokensReported ==
    \A r \in Request : Delivered(r) => response[r].tokens = billed[r] /\ billed[r] <= 3

(* No reply a user has got is lost from the session, those that said the    *)
(* same included: until a session expires, each has an assistant message of *)
(* its own, kept or rolled out, after the message it answers.               *)
RepliesAreRemembered ==
    expiries = 0 =>
        \E reply \in Injection({r \in Request : Delivered(r)},
                               UNION {Transcript(s) : s \in Session}) :
            \A r \in DOMAIN reply :
                /\ reply[r].role = "assistant" /\ reply[r].content = response[r].text
                /\ \E m \in Transcript(reply[r].session) :
                      m.role = "user" /\ m.content = r /\ m.id < reply[r].id

(* The next prompt is built from the exchange the user has just seen: the   *)
(* two newest messages of the history that get returns are the last message *)
(* and its reply, in this order, whatever happened to the requests before.  *)
PromptShowsExchange ==
    \A s \in Session :
        last[s] # Null /\ Delivered(last[s]) =>
            \E m, n \in MessagesOf(s) :
                /\ m.role = "user" /\ m.content = last[s]
                /\ n.role = "assistant" /\ n.content = response[last[s]].text
                /\ m.id < n.id
                /\ \A k \in MessagesOf(s) \ {n} : k.id <= m.id

(* "the session remembers the original intent, so their next message        *)
(* resumes it" (README.md): when the last reply of a session asked back,    *)
(* a question is pending, and with it the message the chain of questions    *)
(* started from.                                                            *)
ClarificationResumes ==
    \A s \in Session :
        last[s] # Null /\ AskedBack(last[s]) =>
            /\ s \in DOMAIN row
            /\ Truthy(row[s].pending)
            /\ root[last[s]] # Null => row[s].intent = root[last[s]]

(* "A query was produced, so any pending clarification is resolved"         *)
(* (orchestrator.py): after an answer, or an error that is not the model's, *)
(* or a repair reply that _parse could not take, the next message is taken  *)
(* as a fresh question.                                                     *)
NoStaleClarification ==
    \A s \in {s \in Session : last[s] # Null} :
        \/ Delivered(last[s]) /\ ~AskedBack(last[s]) /\ ~LlmFailed(last[s])
        \/ response[last[s]] = ParseError /\ Ran(last[s], "route", FALSE)
        => s \in DOMAIN row /\ row[s].pending = Null /\ row[s].intent = Null

(* Every request is answered, if only with an error, unless its worker dies. *)
EveryRequestEnds == \A r \in Request : response[r] = Waiting ~> response[r] # Waiting
=============================================================================
