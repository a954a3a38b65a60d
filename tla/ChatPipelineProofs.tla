------------------------- MODULE ChatPipelineProofs -------------------------
(***************************************************************************)
(* Proofs about the pipeline for every number of workers, requests and     *)
(* sessions: it uses the store only through its interface, only guarded    *)
(* statements run, what a caller is told is what happened, every model     *)
(* call is accounted for and every reply remembered; and, when users wait  *)
(* for a reply before they send again, a clarification is resumed or       *)
(* resolved by the message after it.                                       *)
(***************************************************************************)
EXTENDS ChatPipeline, SessionStoreProofs

IsBusy(w) == pc[w] # "idle"

RanNothing(r) == \A e \in executed : e.request # r

(* An active worker has a request and a session of its own, and the caller *)
(* of that request waits for it.                                           *)
HasRequest(w) ==
    IsBusy(w) => /\ job[w].request \in Request /\ job[w].session \in Session
                 /\ job[w].company = CompanyOf[job[w].request]
                 /\ response[job[w].request] = Waiting

WorkersDistinct ==
    \A v, w \in Worker : IsBusy(v) /\ IsBusy(w) /\ job[v].request = job[w].request => v = w

(* The model calls a request can have cost by the time it is at p. *)
MostBilled(p) ==
    CASE p \in {"load", "note", "route"} -> 0
      [] p \in {"ask", "resolve", "execute", "repair"} -> 1
      [] p \in {"reask", "retry", "format"} -> 2
      [] OTHER -> 3

TokensInStep(w) ==
    IsBusy(w) => LET r == job[w].request
                 IN  job[w].tokens = billed[r] /\ billed[r] <= MostBilled(pc[w])

(* What has run for the request of an active worker, by where it is. *)
FirstPass(w) ==
    pc[w] \in {"load", "note", "route", "ask", "resolve", "execute"} =>
        RanNothing(job[w].request)

FirstFailed(w) ==
    pc[w] \in {"repair", "reask", "retry"} =>
        LET r == job[w].request
        IN  Ran(r, "route", FALSE) /\ ~Ran(r, "route", TRUE) /\ ~Ran(r, "repair", TRUE)

ReadyToRun(w) ==
    pc[w] \in {"execute", "retry"} =>
        /\ job[w].sql = IF pc[w] = "execute" THEN "route" ELSE "repair"
        /\ <<job[w].request, job[w].sql>> \in accepted

HasRows(w) ==
    pc[w] = "format" =>
        LET r == job[w].request
        IN  /\ Ran(r, job[w].sql, TRUE)
            /\ job[w].sql = "repair" => Ran(r, "route", FALSE)
            /\ job[w].sql \in Passes

HasQuestion(w) == pc[w] \in {"ask", "reask"} => job[w].question \in Question

HasOutcome(w) ==
    pc[w] = "reply" => LET out == job[w].outcome
                       IN  /\ TellsTheTruth(job[w].request, out)
                           /\ out.tokens = job[w].tokens
                           /\ out.text \in Content /\ out.type # "none"

PlaceOK(w) ==
    /\ FirstPass(w) /\ FirstFailed(w) /\ ReadyToRun(w) /\ HasRows(w)
    /\ HasQuestion(w) /\ HasOutcome(w)

WorkerOK(w) == HasRequest(w) /\ TokensInStep(w) /\ PlaceOK(w)

RequestOK(r) ==
    /\ response[r] = NoResponse => billed[r] = 0 /\ RanNothing(r)
    /\ Delivered(r) => /\ TellsTheTruth(r, response[r])
                       /\ response[r].tokens = billed[r] /\ billed[r] <= 3
    /\ response[r] = ParseError => ~Ran(r, "route", TRUE) /\ ~Ran(r, "repair", TRUE)

ChatInv ==
    /\ ChatTypeOK
    /\ StoreInv
    /\ WorkersDistinct
    /\ OnlyGuardedRuns
    /\ \A w \in Worker : WorkerOK(w)
    /\ \A r \in Request : RequestOK(r)
-----------------------------------------------------------------------------
LEMMA UnlikeResponses ==
    /\ Waiting # NoResponse /\ Waiting # ParseError /\ NoResponse # ParseError
<1>1. /\ Waiting.type = "waiting" /\ NoResponse.type = "none"
      /\ ParseError.type = "parse_error"
  BY DEF Waiting, NoResponse, ParseError
<1> QED
  BY <1>1

LEMMA ChatInitInv == ChatInit => ChatInv
<1> SUFFICES ASSUME ChatInit PROVE ChatInv
  OBVIOUS
<1>1. StoreInv
  BY StoreInitInv DEF ChatInit
<1>2. ChatTypeOK
  <2>1. NoJob \in Job
    BY DEF NoJob, Job, NoOutcome, Outcome, OutcomeSet
  <2> QED
    BY <2>1 DEF ChatInit, ChatTypeOK, Place, Response, Statement
<1>3. \A w \in Worker : ~IsBusy(w) /\ pc[w] = "idle"
  BY DEF ChatInit, IsBusy
<1>4. \A w \in Worker : WorkerOK(w)
  BY <1>3 DEF WorkerOK, PlaceOK, HasRequest, TokensInStep, FirstPass, FirstFailed, ReadyToRun,
     HasRows, HasQuestion, HasOutcome
<1>5. \A r \in Request : RequestOK(r)
  BY UnlikeResponses DEF ChatInit, RequestOK, RanNothing, Delivered, NoResponse
<1> QED
  BY <1>1, <1>2, <1>3, <1>4, <1>5 DEF ChatInv, WorkersDistinct, OnlyGuardedRuns, ChatInit
-----------------------------------------------------------------------------
(* The pipeline changes the session only through the store's operations. *)
LEMMA StoreUse == ASSUME ChatInv, ChatNext PROVE [StoreNext]_storeVars
<1> USE DEF ChatInv
<1>1. ASSUME NEW w \in Worker, Step(w), pc[w] # "idle" PROVE [StoreNext]_storeVars
  <2> DEFINE j == job[w]
  <2>1. j.session \in Session /\ j.request \in Content
    BY <1>1, PipelineAssumption DEF WorkerOK, HasRequest, IsBusy
  <2>2. CASE Load(w)
    <3>1. UserOf[j.request] \in User \cup {Null}
      BY <1>1, PipelineAssumption DEF WorkerOK, HasRequest, IsBusy
    <3> QED
      BY <2>1, <2>2, <3>1 DEF Load, StoreNext
  <2>3. CASE Note(w)
    BY <2>1, <2>3 DEF Note, StoreNext, Role
  <2>4. CASE Ask(w)
    <3>1. j.question \in Question /\ j.intent \in Content \cup {Null}
      BY <2>4 DEF Ask, Conclude, Goto, WorkerOK, PlaceOK, HasQuestion, ChatTypeOK, Job
    <3>2. (IF Truthy(j.intent) THEN j.intent ELSE j.request) \in Content
      BY <2>1, <3>1 DEF Truthy
    <3> QED
      BY <2>1, <2>4, <3>1, <3>2 DEF Ask, StoreNext
  <2>5. CASE Reask(w)
    <3>1. j.question \in Question
      BY <2>5 DEF Reask, Conclude, Goto, WorkerOK, PlaceOK, HasQuestion
    <3> QED
      BY <2>1, <2>5, <3>1 DEF Reask, StoreNext
  <2>6. CASE Resolve(w)
    BY <2>1, <2>6 DEF Resolve, StoreNext
  <2>7. CASE Reply(w)
    <3>1. j.outcome.text \in Content
      BY <2>7 DEF Reply, WorkerOK, PlaceOK, HasOutcome
    <3> QED
      BY <2>1, <2>7, <3>1 DEF Reply, StoreNext, Role
  <2>8. CASE Route(w) \/ Execute(w) \/ Repair(w) \/ Retry(w) \/ Format(w)
    BY <2>8 DEF Route, Execute, Repair, Retry, Format
  <2> QED
    BY <1>1, <2>2, <2>3, <2>4, <2>5, <2>6, <2>7, <2>8 DEF Step
<1>2. ASSUME NEW w \in Worker, Step(w) PROVE pc[w] # "idle"
  BY <1>2 DEF Step, Load, Note, Route, Ask, Resolve, Execute, Repair, Reask, Retry, Format,
     Reply, Conclude, Goto
<1>3. ASSUME NEW s \in Session, Expire(s) PROVE [StoreNext]_storeVars
  BY <1>3 DEF Expire, StoreNext
<1>4. ASSUME NEW w \in Worker, NEW r \in Request, NEW s \in Session, Receive(w, r, s)
      PROVE  UNCHANGED storeVars
  BY <1>4 DEF Receive
<1>5. ASSUME NEW w \in Worker, Fail(w) \/ Crash(w) PROVE UNCHANGED storeVars
  BY <1>5 DEF Fail, Crash
<1> QED
  BY <1>1, <1>2, <1>3, <1>4, <1>5 DEF ChatNext
-----------------------------------------------------------------------------
(* A step of w touches its own request, and what it leaves is in order. *)
OthersKept(w) ==
    /\ \A v \in Worker \ {w} : pc'[v] = pc[v] /\ job'[v] = job[v]
    /\ \A q \in Request \ {job[w].request} :
          /\ response'[q] = response[q] /\ billed'[q] = billed[q]
          /\ \A e : e.request = q => (e \in executed' <=> e \in executed)
    /\ accepted \subseteq accepted'
    /\ IsBusy(w)' => job'[w].request = job[w].request

Preserves(w) ==
    /\ ChatTypeOK'
    /\ OnlyGuardedRuns'
    /\ OthersKept(w)
    /\ WorkerOK(w)'
    /\ \A q \in Request : q = job[w].request => RequestOK(q)'

(* Workers have requests of their own, so nothing changes for the others. *)
LEMMA OthersStayInOrder ==
    ASSUME ChatInv, NEW w \in Worker, IsBusy(w), Preserves(w), StoreInv'
    PROVE  ChatInv'
<1> DEFINE r == job[w].request
<1>1. r \in Request /\ response[r] = Waiting
  BY DEF ChatInv, WorkerOK, HasRequest
<1>2. ASSUME NEW v \in Worker \ {w}, IsBusy(v)
      PROVE  job[v].request \in Request /\ job[v].request # r
  BY <1>2 DEF ChatInv, WorkerOK, HasRequest, WorkersDistinct
<1>3. ASSUME NEW q \in Request \ {r}
      PROVE  /\ response'[q] = response[q] /\ billed'[q] = billed[q]
             /\ RanNothing(q)' <=> RanNothing(q)
             /\ \A pass, ok : Ran(q, pass, ok)' <=> Ran(q, pass, ok)
  BY DEF Preserves, OthersKept, Ran, RanNothing
<1>4. WorkersDistinct'
  BY <1>2 DEF Preserves, OthersKept, ChatInv, WorkersDistinct, IsBusy
<1>5. ASSUME NEW v \in Worker PROVE WorkerOK(v)'
  <2>1. CASE v = w
    BY <2>1 DEF Preserves
  <2>2. CASE v # w /\ IsBusy(v)
    <3> PICK q \in Request \ {r} : q = job[v].request
      BY <1>2, <2>2
    <3>1. pc'[v] = pc[v] /\ job'[v] = job[v]
      BY <2>2 DEF Preserves, OthersKept
    <3>2. /\ response'[q] = response[q] /\ billed'[q] = billed[q]
          /\ RanNothing(q)' <=> RanNothing(q)
          /\ \A pass, ok : Ran(q, pass, ok)' <=> Ran(q, pass, ok)
      BY <1>3, <3>1
    <3>3. accepted \subseteq accepted'
      BY DEF Preserves, OthersKept
    <3>4. WorkerOK(v)
      BY DEF ChatInv
    <3>5. HasRequest(v)' /\ TokensInStep(v)' /\ FirstPass(v)' /\ HasQuestion(v)'
      BY <3>1, <3>2, <3>4 DEF WorkerOK, PlaceOK, HasRequest, TokensInStep, FirstPass,
         HasQuestion, IsBusy
    <3>6. FirstFailed(v)' /\ HasRows(v)'
      BY <3>1, <3>2, <3>4 DEF WorkerOK, PlaceOK, FirstFailed, HasRows
    <3>7. ReadyToRun(v)'
      BY <3>1, <3>3, <3>4 DEF WorkerOK, PlaceOK, ReadyToRun
    <3>8. HasOutcome(v)'
      BY <3>1, <3>2, <3>4 DEF WorkerOK, PlaceOK, HasOutcome, TellsTheTruth
    <3> QED
      BY <3>5, <3>6, <3>7, <3>8 DEF WorkerOK, PlaceOK
  <2>3. CASE v # w /\ ~IsBusy(v)
    <3>1. pc'[v] = "idle"
      BY <2>3 DEF Preserves, OthersKept, IsBusy
    <3> QED
      BY <3>1 DEF WorkerOK, PlaceOK, HasRequest, TokensInStep, FirstPass, FirstFailed, ReadyToRun,
         HasRows, HasQuestion, HasOutcome, IsBusy
  <2> QED
    BY <2>1, <2>2, <2>3
<1>6. ASSUME NEW q \in Request PROVE RequestOK(q)'
  <2>1. CASE q = r
    BY <2>1 DEF Preserves
  <2>2. CASE q # r
    <3>1. RequestOK(q) /\ q \in Request \ {r}
      BY <2>2 DEF ChatInv
    <3>2. /\ response'[q] = response[q] /\ billed'[q] = billed[q]
          /\ RanNothing(q)' <=> RanNothing(q)
          /\ \A pass, ok : Ran(q, pass, ok)' <=> Ran(q, pass, ok)
      BY <1>3, <3>1
    <3> QED
      BY <3>1, <3>2 DEF RequestOK, Delivered, TellsTheTruth
  <2> QED
    BY <2>1, <2>2
<1> QED
  BY <1>4, <1>5, <1>6 DEF ChatInv, Preserves
-----------------------------------------------------------------------------
(* A step that does not end the request: w goes to "to" with the local     *)
(* variables "new"; the model may have been called, a statement let through *)
(* and run.  What then remains to be seen is what WorkerOK says of "to".    *)
Moves(w, to, new) ==
    /\ pc' = [pc EXCEPT ![w] = to] /\ job' = [job EXCEPT ![w] = new]
    /\ new.request = job[w].request /\ new.session = job[w].session
    /\ new.company = job[w].company
    /\ UNCHANGED <<response, last, root, crashes, expiries>>

Counts(w, tokens, to) ==
    /\ billed' \in [Request -> Nat]
    /\ \A q \in Request \ {job[w].request} : billed'[q] = billed[q]
    /\ \A q \in Request : q = job[w].request =>
          tokens = billed'[q] /\ billed'[q] <= MostBilled(to)

Records(w) ==
    /\ accepted \subseteq accepted' /\ accepted' \subseteq Request \X Passes
    /\ executed \subseteq executed' /\ executed' \subseteq Statement
    /\ \A e \in executed' \ executed :
          /\ e.request = job[w].request /\ <<e.request, e.pass>> \in accepted'
          /\ e.company = CompanyOf[e.request]

LEMMA WorkStep ==
    ASSUME ChatInv, NEW w \in Worker, IsBusy(w), NEW to \in Place \ {"idle"}, NEW new \in Job,
           Moves(w, to, new), Counts(w, new.tokens, to), Records(w)
    PROVE  pc'[w] = to /\ job'[w] = new /\ (PlaceOK(w)' => Preserves(w))
<1>1. pc \in [Worker -> Place] /\ job \in [Worker -> Job]
  BY DEF ChatInv, ChatTypeOK, Place
<1>2. pc'[w] = to /\ job'[w] = new
  BY <1>1 DEF Moves
<1>3. HasRequest(w)
  BY DEF ChatInv, WorkerOK
<1>4. HasRequest(w)'
  BY <1>2, <1>3 DEF HasRequest, Moves, IsBusy
<1>5. TokensInStep(w)'
  BY <1>2, <1>3 DEF HasRequest, Moves, IsBusy, Counts, TokensInStep
<1>6. ChatTypeOK'
  <2>1. pc' \in [Worker -> Place] /\ job' \in [Worker -> Job]
    BY <1>1 DEF Moves
  <2>2. /\ response' \in [Request -> Response] /\ last' \in [Session -> Request \cup {Null}]
        /\ root' \in [Request -> Request \cup {Null}] /\ crashes' \in Nat /\ expiries' \in Nat
    BY DEF Moves, ChatInv, ChatTypeOK
  <2> QED
    BY <2>1, <2>2 DEF Counts, Records, ChatTypeOK, Place
<1>7. OnlyGuardedRuns'
  BY DEF OnlyGuardedRuns, Records, ChatInv
<1>8. OthersKept(w)
  BY <1>1, <1>2 DEF OthersKept, Moves, Counts, Records
<1>9. ASSUME NEW q \in Request, q = job[w].request PROVE RequestOK(q)'
  <2>1. response'[q] = Waiting
    BY <1>3, <1>9 DEF HasRequest, Moves
  <2> QED
    <3>1. response'[q] = Waiting /\ Waiting.type = "waiting"
      BY <2>1 DEF Waiting
    <3> QED
      BY <3>1, UnlikeResponses DEF RequestOK, Delivered
<1> QED
  BY <1>2, <1>4, <1>5, <1>6, <1>7, <1>8, <1>9 DEF WorkerOK, Preserves

(* A step that ends the request, with its outcome or without one. *)
Ends(w, as) ==
    /\ Abandon(w, as) /\ as \in Response
    /\ UNCHANGED <<executed, accepted, last, root, expiries>> /\ crashes' \in Nat
    /\ billed' \in [Request -> Nat]
    /\ \A q \in Request \ {job[w].request} : billed'[q] = billed[q]

LEMMA LastStep ==
    ASSUME ChatInv, NEW w \in Worker, IsBusy(w), NEW as, Ends(w, as),
           \/ as.type \in {"lost", "internal_error"}
           \/ as.type = "parse_error" /\ \A q \in Request : q = job[w].request =>
                 ~Ran(q, "route", TRUE) /\ ~Ran(q, "repair", TRUE)
           \/ \A q \in Request : q = job[w].request =>
                 TellsTheTruth(q, as) /\ as.tokens = billed'[q] /\ billed'[q] <= 3
                 /\ as.type # "none"
    PROVE  Preserves(w)
<1>1. pc \in [Worker -> Place] /\ job \in [Worker -> Job]
  BY DEF ChatInv, ChatTypeOK, Place
<1>2. NoJob \in Job
  BY DEF NoJob, Job, NoOutcome, Outcome, OutcomeSet
<1>3. pc'[w] = "idle" /\ pc' \in [Worker -> Place] /\ job' \in [Worker -> Job]
  BY <1>1, <1>2 DEF Ends, Abandon, Place
<1>4. WorkerOK(w)'
  BY <1>3 DEF WorkerOK, PlaceOK, HasRequest, TokensInStep, FirstPass, FirstFailed, ReadyToRun,
     HasRows, HasQuestion, HasOutcome, IsBusy
<1>5. /\ response' \in [Request -> Response]
      /\ \A q \in Request \ {job[w].request} : response'[q] = response[q]
      /\ \A q \in Request : q = job[w].request => response'[q] = as
  BY DEF Ends, Abandon, ChatInv, ChatTypeOK
<1>6. ChatTypeOK'
  BY <1>3, <1>5 DEF Ends, ChatInv, ChatTypeOK, Place
<1>7. OnlyGuardedRuns'
  BY DEF OnlyGuardedRuns, ChatInv, Ends
<1>8. OthersKept(w)
  BY <1>1, <1>3, <1>5 DEF OthersKept, Ends, Abandon, IsBusy
<1>9. ASSUME NEW q \in Request, q = job[w].request PROVE RequestOK(q)'
  <2>1. response'[q] = as
    BY <1>5, <1>9
  <2>2. TellsTheTruth(q, as) => TellsTheTruth(q, as)'
    BY DEF TellsTheTruth, Ran, Ends
  <2>3. as.type # "none"
    BY <1>9
  <2>4. as # NoResponse
    <3>1. NoResponse.type = "none"
      BY DEF NoResponse
    <3> QED
      BY <2>3, <3>1
  <2>5. as = ParseError => ~Ran(q, "route", TRUE)' /\ ~Ran(q, "repair", TRUE)'
    <3>1. ParseError.type = "parse_error"
      BY DEF ParseError
    <3>2. as = ParseError => ~Ran(q, "route", TRUE) /\ ~Ran(q, "repair", TRUE)
      BY <1>9, <3>1 DEF TellsTheTruth
    <3> QED
      BY <3>2 DEF Ran, Ends
  <2> QED
    BY <1>9, <2>1, <2>2, <2>4, <2>5 DEF RequestOK, Delivered
<1> QED
  BY <1>4, <1>6, <1>7, <1>8, <1>9 DEF Preserves
-----------------------------------------------------------------------------
(* What every step of an active worker starts from. *)
LEMMA AtWork ==
    ASSUME ChatInv, NEW w \in Worker, IsBusy(w)
    PROVE  /\ job[w] \in Job /\ WorkerOK(w)
           /\ job[w].request \in Request /\ job[w].session \in Session
           /\ job[w].company = CompanyOf[job[w].request]
           /\ job[w].tokens = billed[job[w].request] /\ job[w].tokens \in Nat
           /\ job[w].tokens <= MostBilled(pc[w])
           /\ billed \in [Request -> Nat]
           /\ accepted \subseteq Request \X Passes /\ executed \subseteq Statement
BY DEF ChatInv, ChatTypeOK, Job, WorkerOK, HasRequest, TokensInStep

(* Between two places with the same model calls and statements. *)
LEMMA NothingCounted ==
    ASSUME ChatInv, NEW w \in Worker, IsBusy(w), NEW to \in Place \ {"idle"},
           UNCHANGED <<executed, accepted, billed>>, job[w].tokens <= MostBilled(to)
    PROVE  Counts(w, job[w].tokens, to) /\ Records(w)
BY AtWork DEF Counts, Records

(* A step that settles what the caller will be told. *)
LEMMA ConcludeStep ==
    ASSUME ChatInv, NEW w \in Worker, IsBusy(w), NEW out \in OutcomeSet,
           Conclude(w, pc[w], out), UNCHANGED <<response, last, root, crashes, expiries>>,
           Counts(w, out.tokens, "reply"), Records(w),
           out.text \in Content, out.type # "none",
           \A q \in Request : q = job[w].request => TellsTheTruth(q, out)'
    PROVE  Preserves(w)
<1> DEFINE new == [job[w] EXCEPT !.outcome = out, !.tokens = out.tokens]
<1>1. /\ new \in Job /\ new.request = job[w].request /\ new.session = job[w].session
      /\ new.company = job[w].company /\ new.outcome = out /\ new.tokens = out.tokens
  BY AtWork DEF Job, OutcomeSet
<1>2. Moves(w, "reply", new)
  BY <1>1, AtWork DEF Moves, Conclude, Goto, ChatInv, ChatTypeOK
<1> HIDE DEF new
<1>3. pc'[w] = "reply" /\ job'[w] = new /\ (PlaceOK(w)' => Preserves(w))
  BY <1>1, <1>2, WorkStep DEF Place
<1>4. new.request \in Request
  BY <1>1, AtWork
<1>5. \A q \in Request : q = new.request => TellsTheTruth(q, out)'
  BY <1>1
<1>6. PlaceOK(w)'
  BY <1>1, <1>3, <1>4, <1>5 DEF PlaceOK, FirstPass, FirstFailed, ReadyToRun, HasRows, HasQuestion,
     HasOutcome, TellsTheTruth, Ran
<1> QED
  BY <1>3, <1>6

(* How many calls a request can have been billed for where it is, with     *)
(* the one it makes there.                                                 *)
LEMMA MostBilledIs ==
    /\ MostBilled("reask") = 2 /\ MostBilled("retry") = 2 /\ MostBilled("reply") = 3
    /\ 1 + 1 <= 2 /\ 2 + 1 <= 3
BY DEF MostBilled

(* After one more model call. *)
LEMMA OneCall ==
    ASSUME ChatInv, NEW w \in Worker, IsBusy(w), NEW to, Bill(w),
           job[w].tokens + 1 <= MostBilled(to)
    PROVE  Counts(w, job[w].tokens + 1, to)
<1> PICK r \in Request : r = job[w].request
  BY AtWork
<1>1. billed' = [billed EXCEPT ![r] = billed[r] + 1]
  BY DEF Bill
<1>2. billed \in [Request -> Nat] /\ job[w].tokens = billed[r]
  BY AtWork
<1> QED
  BY <1>1, <1>2 DEF Counts

LEMMA LoadPreserves ==
    ASSUME ChatInv, NEW w \in Worker, StoreInv', Load(w)
    PROVE  Preserves(w)
<1> DEFINE j == job[w]
           s == j.session
           new == [j EXCEPT !.pending = row'[s].pending, !.intent = row'[s].intent]
<1>1. pc[w] = "load" /\ IsBusy(w) /\ pc' = [pc EXCEPT ![w] = "note"]
  BY DEF Load, Goto, IsBusy
<1>2. j \in Job /\ j.session \in Session /\ WorkerOK(w)
  BY <1>1, AtWork
<1>3. row'[s] \in SessionRow
  <2>1. s \in DOMAIN row'
    BY <1>2 DEF Load, StoreGet
  <2> QED
    BY <2>1 DEF StoreInv, TablesOK
<1>4. /\ new \in Job /\ new.request = j.request /\ new.session = j.session
      /\ new.company = j.company /\ new.tokens = j.tokens
  BY <1>2, <1>3 DEF Job, SessionRow
<1>5. Moves(w, "note", new)
  BY <1>1, <1>2, <1>4 DEF Load, Moves
<1>6. Counts(w, new.tokens, "note") /\ Records(w)
  BY <1>1, <1>4, AtWork, NothingCounted DEF Load, MostBilled, Place
<1> HIDE DEF new
<1>7. pc'[w] = "note" /\ job'[w] = new /\ (PlaceOK(w)' => Preserves(w))
  BY <1>1, <1>4, <1>5, <1>6, WorkStep DEF Place
<1>8. PlaceOK(w)'
  BY <1>1, <1>2, <1>4, <1>7 DEF WorkerOK, PlaceOK, FirstPass, FirstFailed, ReadyToRun, HasRows,
     HasQuestion, HasOutcome, RanNothing, Load
<1> QED
  BY <1>7, <1>8

LEMMA NotePreserves ==
    ASSUME ChatInv, NEW w \in Worker, Note(w)
    PROVE  Preserves(w)
<1>1. pc[w] = "note" /\ IsBusy(w) /\ pc' = [pc EXCEPT ![w] = "route"]
  BY DEF Note, Goto, IsBusy
<1>2. job[w] \in Job /\ WorkerOK(w)
  BY <1>1, AtWork
<1>3. Moves(w, "route", job[w])
  BY <1>1, <1>2 DEF Note, Moves, ChatInv, ChatTypeOK
<1>4. Counts(w, job[w].tokens, "route") /\ Records(w)
  BY <1>1, AtWork, NothingCounted DEF Note, MostBilled, Place
<1>5. pc'[w] = "route" /\ job'[w] = job[w] /\ (PlaceOK(w)' => Preserves(w))
  BY <1>1, <1>2, <1>3, <1>4, WorkStep DEF Place
<1>6. PlaceOK(w)'
  BY <1>1, <1>2, <1>5 DEF WorkerOK, PlaceOK, FirstPass, FirstFailed, ReadyToRun, HasRows,
     HasQuestion, HasOutcome, RanNothing, Note
<1> QED
  BY <1>5, <1>6
LEMMA AskPreserves ==
    ASSUME ChatInv, NEW w \in Worker, Ask(w) \/ Reask(w)
    PROVE  Preserves(w)
<1> PICK out : out = Outcome("clarification_needed", "clarification", job[w].question, Null,
                             job[w].tokens)
  OBVIOUS
<1>1. /\ pc[w] \in {"ask", "reask"} /\ IsBusy(w) /\ Conclude(w, pc[w], out)
      /\ UNCHANGED <<response, executed, accepted, billed, last, root, crashes, expiries>>
  BY DEF Ask, Reask, Conclude, Goto, IsBusy
<1>2. /\ job[w] \in Job /\ WorkerOK(w) /\ job[w].question \in Question
      /\ job[w].tokens \in Nat
  BY <1>1, AtWork DEF WorkerOK, PlaceOK, HasQuestion
<1>3. /\ out \in OutcomeSet /\ out.tokens = job[w].tokens /\ out.text = job[w].question
      /\ out.type = "clarification_needed" /\ out.path = "clarification"
  BY <1>2, PipelineAssumption DEF Outcome, OutcomeSet
<1>4. Counts(w, out.tokens, "reply") /\ Records(w)
  BY <1>1, <1>3, AtWork, NothingCounted DEF MostBilled, Place
<1>5. ASSUME NEW q \in Request, q = job[w].request PROVE TellsTheTruth(q, out)'
  <2>1. ~Ran(q, "route", TRUE) /\ ~Ran(q, "repair", TRUE)
    BY <1>1, <1>2, <1>5 DEF WorkerOK, PlaceOK, FirstPass, FirstFailed, RanNothing, Ran
  <2> QED
    BY <1>1, <1>3, <2>1 DEF TellsTheTruth, Ran
<1> QED
  BY <1>1, <1>2, <1>3, <1>4, <1>5, ConcludeStep, PipelineAssumption

LEMMA ResolvePreserves ==
    ASSUME ChatInv, NEW w \in Worker, Resolve(w)
    PROVE  Preserves(w)
<1> PICK r \in Request : r = job[w].request
  BY AtWork DEF Resolve, Conclude, Goto, IsBusy
<1>1. /\ pc[w] = "resolve" /\ IsBusy(w)
      /\ UNCHANGED <<response, executed, billed, last, root, crashes, expiries>>
  BY DEF Resolve, Conclude, Goto, IsBusy
<1>2. /\ job[w] \in Job /\ WorkerOK(w) /\ job[w].tokens \in Nat /\ RanNothing(r)
      /\ job[w].tokens <= 1
  BY <1>1, AtWork DEF WorkerOK, PlaceOK, FirstPass, MostBilled
<1>3. CASE /\ Goto(w, "resolve", "execute")
           /\ accepted' = accepted \cup {<<r, "route">>}
           /\ job' = [job EXCEPT ![w].sql = "route"]
  <2> PICK new : new = [job[w] EXCEPT !.sql = "route"]
    OBVIOUS
  <2>1. /\ new \in Job /\ new.request = r /\ new.session = job[w].session
        /\ new.company = job[w].company /\ new.tokens = job[w].tokens /\ new.sql = "route"
    BY <1>2 DEF Job, Passes
  <2>2. Moves(w, "execute", new)
    BY <1>1, <1>3, <2>1 DEF Moves, Goto, ChatInv, ChatTypeOK
  <2>3. Counts(w, new.tokens, "execute")
    BY <1>1, <1>2, <2>1, AtWork DEF Counts, MostBilled
  <2>4. Records(w)
    BY <1>1, <1>3, AtWork DEF Records, Passes
  <2>5. pc'[w] = "execute" /\ job'[w] = new /\ (PlaceOK(w)' => Preserves(w))
    BY <1>1, <2>1, <2>2, <2>3, <2>4, WorkStep DEF Place
  <2>6. PlaceOK(w)'
    <3>1. FirstPass(w)'
      BY <1>1, <1>2, <2>1, <2>5 DEF FirstPass, RanNothing
    <3>2. ReadyToRun(w)'
      <4>1. <<r, "route">> \in accepted'
        BY <1>3
      <4> QED
        BY <2>1, <2>5, <4>1 DEF ReadyToRun
    <3> QED
      BY <2>5, <3>1, <3>2 DEF PlaceOK, FirstFailed, HasRows, HasQuestion, HasOutcome
  <2> QED
    BY <2>5, <2>6
<1>4. CASE /\ Conclude(w, "resolve", Outcome("error", "guard_rejected", ErrorText,
                                             "route", job[w].tokens))
           /\ UNCHANGED accepted
  <2> PICK out : out = Outcome("error", "guard_rejected", ErrorText, "route", job[w].tokens)
    OBVIOUS
  <2>1. /\ out \in OutcomeSet /\ out.tokens = job[w].tokens /\ out.text = ErrorText
        /\ out.type = "error" /\ out.path = "guard_rejected"
    BY <1>2, PipelineAssumption DEF Outcome, OutcomeSet, Passes
  <2>2. Counts(w, out.tokens, "reply") /\ Records(w)
    BY <1>1, <1>2, <1>4, <2>1, AtWork, NothingCounted DEF MostBilled, Place
  <2>3. TellsTheTruth(r, out)'
    BY <1>1, <1>2, <2>1 DEF TellsTheTruth, Ran, RanNothing
  <2> QED
    BY <1>1, <1>4, <2>1, <2>2, <2>3, ConcludeStep, PipelineAssumption
<1> QED
  BY <1>3, <1>4 DEF Resolve
(* What _parse makes of a reply. *)
LEMMA ParseType ==
    ASSUME NEW reply \in ReplyKind
    PROVE  /\ Parse(reply).decision \in {"sql", "clarify", "raise"}
           /\ Parse(reply).question \in Question \cup {Null}
           /\ Parse(reply).decision = "clarify" => Parse(reply).question \in Question
BY PipelineAssumption DEF Parse, ReplyKind

LEMMA ExecutePreserves ==
    ASSUME ChatInv, NEW w \in Worker, Execute(w)
    PROVE  Preserves(w)
<1> PICK ok \in BOOLEAN : Run(w, ok) /\ Goto(w, "execute", IF ok THEN "format" ELSE "repair")
  BY DEF Execute
<1> PICK to : to = IF ok THEN "format" ELSE "repair"
  OBVIOUS
<1>1. /\ pc[w] = "execute" /\ IsBusy(w) /\ pc' = [pc EXCEPT ![w] = to]
      /\ UNCHANGED <<job, response, accepted, billed, last, root, crashes, expiries>>
  BY DEF Execute, Goto, IsBusy
<1> PICK r \in Request : r = job[w].request
  BY <1>1, AtWork
<1> PICK e : e = [request |-> r, pass |-> "route", company |-> CompanyOf[r], ok |-> ok]
  OBVIOUS
<1>2. /\ job[w] \in Job /\ job[w].tokens \in Nat /\ RanNothing(r) /\ job[w].sql = "route"
      /\ <<r, "route">> \in accepted /\ job[w].tokens <= 1 /\ job[w].company = CompanyOf[r]
  BY <1>1, AtWork DEF WorkerOK, PlaceOK, FirstPass, ReadyToRun, MostBilled
<1>3. executed' = executed \cup {e}
  BY <1>2 DEF Run
<1>4. e \in Statement /\ e.request = r /\ e.pass = "route" /\ e.ok = ok /\ e.company = CompanyOf[r]
  BY DEF Statement, Passes
<1>5. Moves(w, to, job[w])
  BY <1>1, <1>2 DEF Moves, ChatInv, ChatTypeOK
<1>6. Counts(w, job[w].tokens, to)
  BY <1>1, <1>2, AtWork DEF Counts, MostBilled
<1>7. Records(w)
  BY <1>1, <1>2, <1>3, <1>4, AtWork DEF Records
<1>8. pc'[w] = to /\ job'[w] = job[w] /\ (PlaceOK(w)' => Preserves(w))
  BY <1>1, <1>2, <1>5, <1>6, <1>7, WorkStep DEF Place
<1>9. PlaceOK(w)'
  <2>1. CASE ok
    <3>1. HasRows(w)'
      BY <1>2, <1>3, <1>4, <1>8, <2>1 DEF HasRows, Ran, Passes
    <3> QED
      BY <1>8, <2>1, <3>1 DEF PlaceOK, FirstPass, FirstFailed, ReadyToRun, HasQuestion, HasOutcome
  <2>2. CASE ~ok
    <3>1. FirstFailed(w)'
      BY <1>2, <1>3, <1>4, <1>8, <2>2 DEF FirstFailed, Ran, RanNothing
    <3> QED
      BY <1>8, <2>2, <3>1 DEF PlaceOK, FirstPass, HasRows, ReadyToRun, HasQuestion, HasOutcome
  <2> QED
    BY <2>1, <2>2
<1> QED
  BY <1>8, <1>9

LEMMA RetryPreserves ==
    ASSUME ChatInv, NEW w \in Worker, Retry(w)
    PROVE  Preserves(w)
<1>1. /\ pc[w] = "retry" /\ IsBusy(w)
      /\ UNCHANGED <<response, accepted, billed, last, root, crashes, expiries>>
  BY DEF Retry, Goto, Conclude, IsBusy
<1> PICK r \in Request : r = job[w].request
  BY <1>1, AtWork
<1> PICK ok \in BOOLEAN :
        \/ ok /\ Run(w, ok) /\ Goto(w, "retry", "format") /\ UNCHANGED job
        \/ ~ok /\ Run(w, ok) /\ Conclude(w, "retry", SqlFailure(job[w].tokens))
  BY DEF Retry
<1> PICK e : e = [request |-> r, pass |-> "repair", company |-> CompanyOf[r], ok |-> ok]
  OBVIOUS
<1>2. /\ job[w] \in Job /\ job[w].tokens \in Nat /\ job[w].sql = "repair"
      /\ <<r, "repair">> \in accepted /\ job[w].tokens <= 2 /\ job[w].company = CompanyOf[r]
      /\ Ran(r, "route", FALSE) /\ ~Ran(r, "route", TRUE) /\ ~Ran(r, "repair", TRUE)
  BY <1>1, AtWork DEF WorkerOK, PlaceOK, FirstFailed, ReadyToRun, MostBilled
<1>3. executed' = executed \cup {e}
  BY <1>2 DEF Run
<1>4. /\ e \in Statement /\ e.request = r /\ e.pass = "repair" /\ e.ok = ok
      /\ e.company = CompanyOf[r]
  BY DEF Statement, Passes
<1>5. Records(w)
  BY <1>1, <1>2, <1>3, <1>4, AtWork DEF Records
<1>6. \A to \in {"format", "reply"} : Counts(w, job[w].tokens, to)
  BY <1>1, <1>2, AtWork DEF Counts, MostBilled
<1>7. CASE ok
  <2>1. Moves(w, "format", job[w])
    BY <1>1, <1>2, <1>7 DEF Moves, Goto, ChatInv, ChatTypeOK
  <2>2. pc'[w] = "format" /\ job'[w] = job[w] /\ (PlaceOK(w)' => Preserves(w))
    BY <1>1, <1>2, <1>5, <1>6, <2>1, WorkStep DEF Place
  <2>3. HasRows(w)'
    BY <1>2, <1>3, <1>4, <1>7, <2>2 DEF HasRows, Ran, Passes
  <2> QED
    BY <2>2, <2>3 DEF PlaceOK, FirstPass, FirstFailed, ReadyToRun, HasQuestion, HasOutcome
<1>8. CASE ~ok
  <2> PICK out : out = SqlFailure(job[w].tokens)
    OBVIOUS
  <2>1. /\ out \in OutcomeSet /\ out.tokens = job[w].tokens /\ out.text = ErrorText
        /\ out.type = "error" /\ out.path = "sql_error"
    BY <1>2, PipelineAssumption DEF SqlFailure, Outcome, OutcomeSet, Passes
  <2>2. TellsTheTruth(r, out)'
    BY <1>2, <1>3, <1>4, <1>8, <2>1 DEF TellsTheTruth, Ran
  <2> QED
    BY <1>1, <1>5, <1>6, <1>8, <2>1, <2>2, ConcludeStep, PipelineAssumption
<1> QED
  BY <1>7, <1>8
LEMMA RoutePreserves ==
    ASSUME ChatInv, NEW w \in Worker, Route(w)
    PROVE  Preserves(w)
<1>1. /\ pc[w] = "route" /\ IsBusy(w)
      /\ UNCHANGED <<executed, accepted, last, root, crashes, expiries>>
  BY DEF Route, Goto, Conclude, IsBusy
<1> PICK r \in Request : r = job[w].request
  BY <1>1, AtWork
<1>2. /\ job[w] \in Job /\ job[w].tokens \in Nat /\ job[w].tokens = 0 /\ RanNothing(r)
  BY <1>1, AtWork DEF WorkerOK, PlaceOK, FirstPass, MostBilled
<1>3. Records(w)
  BY <1>1, AtWork DEF Records
<1>4. CASE /\ Conclude(w, "route", Outcome("error", "llm_error", ErrorText, Null, job[w].tokens))
           /\ UNCHANGED <<response, billed>>
  <2> PICK out : out = Outcome("error", "llm_error", ErrorText, Null, job[w].tokens)
    OBVIOUS
  <2>1. /\ out \in OutcomeSet /\ out.tokens = job[w].tokens /\ out.text = ErrorText
        /\ out.type = "error" /\ out.path = "llm_error"
    BY <1>2, PipelineAssumption DEF Outcome, OutcomeSet
  <2>2. Counts(w, out.tokens, "reply")
    BY <1>1, <1>2, <1>4, <2>1, AtWork, NothingCounted DEF MostBilled, Place
  <2>3. TellsTheTruth(r, out)'
    BY <1>1, <1>2, <2>1 DEF TellsTheTruth, Ran, RanNothing
  <2> QED
    BY <1>1, <1>3, <1>4, <2>1, <2>2, <2>3, ConcludeStep, PipelineAssumption
<1>5. ASSUME NEW reply \in RouteReplies, Parse(reply).decision # "raise",
             Goto(w, "route", IF Parse(reply).decision = "sql" THEN "resolve" ELSE "ask"),
             job' = [job EXCEPT ![w].tokens = @ + 1, ![w].question = Parse(reply).question],
             Bill(w), UNCHANGED response
      PROVE  Preserves(w)
  <2> PICK to : to = IF Parse(reply).decision = "sql" THEN "resolve" ELSE "ask"
    OBVIOUS
  <2>0. PICK tokens \in Nat : tokens = job[w].tokens + 1
    BY <1>2
  <2> PICK question : question = Parse(reply).question
    OBVIOUS
  <2> PICK new : new = [job[w] EXCEPT !.tokens = tokens, !.question = question]
    OBVIOUS
  <2>1. /\ question \in Question \cup {Null}
        /\ to = "ask" => question \in Question
        /\ to \in {"ask", "resolve"}
    BY <1>5, ParseType, ReplyAssumption
  <2>2. /\ new \in Job /\ new.request = r /\ new.session = job[w].session
        /\ new.company = job[w].company /\ new.tokens = tokens
        /\ new.question = question
    <3>1. job[w] \in Job
      BY <1>2
    <3> QED
      BY <2>1, <3>1 DEF Job
  <2>3. Moves(w, to, new)
    BY <1>1, <1>2, <1>5, <2>0, <2>2 DEF Moves, Goto, ChatInv, ChatTypeOK
  <2>4. Counts(w, new.tokens, to)
    BY <1>1, <1>2, <1>5, <2>0, <2>2, OneCall DEF MostBilled
  <2>5. pc'[w] = to /\ job'[w] = new /\ (PlaceOK(w)' => Preserves(w))
    BY <1>1, <1>3, <2>1, <2>2, <2>3, <2>4, WorkStep DEF Place
  <2>6. FirstPass(w)'
    BY <1>1, <1>2, <2>2, <2>5 DEF FirstPass, RanNothing
  <2>7. HasQuestion(w)'
    BY <2>1, <2>2, <2>5 DEF HasQuestion
  <2> QED
    BY <2>5, <2>6, <2>7 DEF PlaceOK, FirstFailed, HasRows, ReadyToRun, HasOutcome
<1>6. CASE Bill(w) /\ Abandon(w, ParseError)
  <2>1. Ends(w, ParseError)
    BY <1>1, <1>6, AtWork DEF Ends, Bill, Response, ChatInv, ChatTypeOK
  <2>2. ~Ran(r, "route", TRUE) /\ ~Ran(r, "repair", TRUE)
    BY <1>2 DEF Ran, RanNothing
  <2> QED
    BY <1>1, <2>1, <2>2, LastStep DEF ParseError
<1> QED
  BY <1>4, <1>5, <1>6 DEF Route

LEMMA RepairPreserves ==
    ASSUME ChatInv, NEW w \in Worker, Repair(w)
    PROVE  Preserves(w)
<1>1. /\ pc[w] = "repair" /\ IsBusy(w) /\ UNCHANGED <<executed, last, root, crashes, expiries>>
  BY DEF Repair, Goto, Conclude, IsBusy
<1> PICK r \in Request : r = job[w].request
  BY <1>1, AtWork
<1>2. /\ job[w] \in Job /\ job[w].tokens \in Nat /\ job[w].tokens <= 1
      /\ Ran(r, "route", FALSE) /\ ~Ran(r, "route", TRUE) /\ ~Ran(r, "repair", TRUE)
  BY <1>1, AtWork DEF WorkerOK, PlaceOK, FirstFailed, MostBilled
<1>3. UNCHANGED accepted => Records(w)
  BY <1>1, AtWork DEF Records
<1>4. \A to \in {"reask", "retry", "reply"} : Bill(w) => Counts(w, job[w].tokens + 1, to)
  <2>1. ASSUME NEW to \in {"reask", "retry", "reply"}, Bill(w)
        PROVE  Counts(w, job[w].tokens + 1, to)
    <3>1. job[w].tokens + 1 <= MostBilled(to)
      BY <1>2, MostBilledIs
    <3> QED
      BY <1>1, <2>1, <3>1, OneCall
  <2> QED
    BY <2>1
<1>5. ASSUME NEW tokens \in Nat, Conclude(w, "repair", SqlFailure(tokens)),
             UNCHANGED <<response, accepted>>, Counts(w, tokens, "reply")
      PROVE  Preserves(w)
  <2> PICK out : out = SqlFailure(tokens)
    OBVIOUS
  <2>1. /\ out \in OutcomeSet /\ out.tokens = tokens /\ out.text = ErrorText
        /\ out.type = "error" /\ out.path = "sql_error"
    BY PipelineAssumption DEF SqlFailure, Outcome, OutcomeSet, Passes
  <2>2. TellsTheTruth(r, out)'
    BY <1>1, <1>2, <2>1 DEF TellsTheTruth, Ran
  <2> QED
    BY <1>1, <1>3, <1>5, <2>1, <2>2, ConcludeStep, PipelineAssumption
<1>6. CASE /\ Conclude(w, "repair", SqlFailure(job[w].tokens))
           /\ UNCHANGED <<response, accepted, billed>>
  <2>1. Counts(w, job[w].tokens, "reply")
    BY <1>1, <1>2, <1>6, AtWork, NothingCounted DEF MostBilled, Place
  <2> QED
    BY <1>2, <1>5, <1>6, <2>1
<1>7. CASE /\ Conclude(w, "repair", SqlFailure(job[w].tokens + 1)) /\ Bill(w)
           /\ UNCHANGED <<response, accepted>>
  BY <1>2, <1>4, <1>5, <1>7
<1>8. ASSUME NEW reply \in RepairReplies, Parse(reply).decision = "clarify",
             Goto(w, "repair", "reask"),
             job' = [job EXCEPT ![w].tokens = @ + 1, ![w].question = Parse(reply).question],
             Bill(w), UNCHANGED <<response, accepted>>
      PROVE  Preserves(w)
  <2>0. PICK tokens \in Nat : tokens = job[w].tokens + 1
    BY <1>2
  <2> PICK question : question = Parse(reply).question
    OBVIOUS
  <2> PICK new : new = [job[w] EXCEPT !.tokens = tokens, !.question = question]
    OBVIOUS
  <2>1. question \in Question
    BY <1>8, ParseType, ReplyAssumption
  <2>2. /\ new \in Job /\ new.request = r /\ new.session = job[w].session
        /\ new.company = job[w].company /\ new.tokens = tokens
        /\ new.question = question
    <3>1. job[w] \in Job
      BY <1>2
    <3> QED
      BY <2>1, <3>1 DEF Job
  <2>3. Moves(w, "reask", new)
    BY <1>1, <1>2, <1>8, <2>0, <2>2 DEF Moves, Goto, ChatInv, ChatTypeOK
  <2>4. pc'[w] = "reask" /\ job'[w] = new /\ (PlaceOK(w)' => Preserves(w))
    <3>1. Counts(w, new.tokens, "reask") /\ Records(w)
      BY <1>3, <1>4, <1>8, <2>0, <2>2
    <3> QED
      BY <1>1, <2>2, <2>3, <3>1, WorkStep DEF Place
  <2>5. FirstFailed(w)'
    BY <1>1, <1>2, <2>2, <2>4 DEF FirstFailed, Ran
  <2>6. HasQuestion(w)'
    BY <2>1, <2>2, <2>4 DEF HasQuestion
  <2> QED
    BY <2>4, <2>5, <2>6 DEF PlaceOK, FirstPass, HasRows, ReadyToRun, HasOutcome
<1>9. CASE /\ Goto(w, "repair", "retry") /\ accepted' = accepted \cup {<<r, "repair">>}
           /\ job' = [job EXCEPT ![w].tokens = @ + 1, ![w].sql = "repair"]
           /\ Bill(w) /\ UNCHANGED response
  <2>0. PICK tokens \in Nat : tokens = job[w].tokens + 1
    BY <1>2
  <2> PICK new : new = [job[w] EXCEPT !.tokens = tokens, !.sql = "repair"]
    OBVIOUS
  <2>1. /\ new \in Job /\ new.request = r /\ new.session = job[w].session
        /\ new.company = job[w].company /\ new.tokens = tokens /\ new.sql = "repair"
    <3>1. job[w] \in Job
      BY <1>2
    <3> QED
      BY <3>1 DEF Job, Passes
  <2>2. Moves(w, "retry", new)
    BY <1>1, <1>2, <1>9, <2>0, <2>1 DEF Moves, Goto, ChatInv, ChatTypeOK
  <2>3. Records(w)
    BY <1>1, <1>9, AtWork DEF Records, Passes
  <2>4. pc'[w] = "retry" /\ job'[w] = new /\ (PlaceOK(w)' => Preserves(w))
    <3>1. Counts(w, new.tokens, "retry")
      BY <1>4, <1>9, <2>0, <2>1
    <3> QED
      BY <1>1, <2>1, <2>2, <2>3, <3>1, WorkStep DEF Place
  <2>5. FirstFailed(w)'
    BY <1>1, <1>2, <2>1, <2>4 DEF FirstFailed, Ran
  <2>6. ReadyToRun(w)'
    <3>1. <<r, "repair">> \in accepted'
      BY <1>9
    <3> QED
      BY <2>1, <2>4, <3>1 DEF ReadyToRun
  <2> QED
    BY <2>4, <2>5, <2>6 DEF PlaceOK, FirstPass, HasRows, HasQuestion, HasOutcome
<1>10. CASE Bill(w) /\ Abandon(w, ParseError) /\ UNCHANGED accepted
  <2>1. Ends(w, ParseError)
    BY <1>1, <1>10, AtWork DEF Ends, Bill, Response, ChatInv, ChatTypeOK
  <2> QED
    BY <1>1, <1>2, <2>1, LastStep DEF ParseError
<1> QED
  BY <1>6, <1>7, <1>8, <1>9, <1>10 DEF Repair
LEMMA FormatPreserves ==
    ASSUME ChatInv, NEW w \in Worker, Format(w)
    PROVE  Preserves(w)
<1>1. /\ pc[w] = "format" /\ IsBusy(w)
      /\ UNCHANGED <<response, executed, accepted, last, root, crashes, expiries>>
  BY DEF Format, Goto, Conclude, IsBusy
<1> PICK r \in Request : r = job[w].request
  BY <1>1, AtWork
<1> PICK path : path = IF job[w].sql = "repair" THEN "repaired_answer" ELSE "direct_answer"
  OBVIOUS
<1>2. PICK tokens : /\ Conclude(w, "format",
                                Outcome("answer", path, AnswerText, job[w].sql, tokens))
                    /\ \/ tokens = job[w].tokens + 1 /\ Bill(w)
                       \/ tokens = job[w].tokens /\ UNCHANGED billed
  BY DEF Format
<1>3. /\ job[w] \in Job /\ job[w].tokens \in Nat /\ job[w].tokens <= 2
      /\ Ran(r, job[w].sql, TRUE)
      /\ job[w].sql = "repair" => Ran(r, "route", FALSE)
      /\ job[w].sql \in Passes
  BY <1>1, AtWork DEF WorkerOK, PlaceOK, HasRows, MostBilled
<1>4. Records(w)
  BY <1>1, AtWork DEF Records
<1>5. tokens \in Nat
  BY <1>2, <1>3
<1>6. Counts(w, tokens, "reply")
  <2>1. CASE tokens = job[w].tokens + 1 /\ Bill(w)
    <3>1. job[w].tokens + 1 <= MostBilled("reply")
      BY <1>3, MostBilledIs
    <3> QED
      BY <1>1, <2>1, <3>1, OneCall
  <2>2. CASE tokens = job[w].tokens /\ UNCHANGED billed
    BY <1>1, <1>3, <2>2, AtWork, NothingCounted DEF MostBilled, Place
  <2> QED
    BY <1>2, <2>1, <2>2
<1> PICK out : out = Outcome("answer", path, AnswerText, job[w].sql, tokens)
  OBVIOUS
<1>7. /\ out \in OutcomeSet /\ out.tokens = tokens /\ out.text = AnswerText
      /\ out.type = "answer" /\ out.path = path /\ out.sql = job[w].sql
  BY <1>3, <1>5, PipelineAssumption DEF Outcome, OutcomeSet
<1>8. TellsTheTruth(r, out)'
  <2>1. Ran(r, out.sql, TRUE) /\ (out.sql = "repair" => Ran(r, "route", FALSE))
    BY <1>3, <1>7
  <2>2. out.path \in {"repaired_answer", "direct_answer"}
        /\ (out.path = "repaired_answer" => out.sql = "repair")
    BY <1>7
  <2>3. TellsTheTruth(r, out)
    BY <1>7, <2>1, <2>2 DEF TellsTheTruth
  <2> QED
    BY <1>1, <2>3 DEF TellsTheTruth, Ran
<1> QED
  BY <1>1, <1>2, <1>4, <1>6, <1>7, <1>8, ConcludeStep, PipelineAssumption

(* The steps that end a request: with its outcome, an error or a crash. *)
LEMMA LastStepPreserves ==
    ASSUME ChatInv, NEW w \in Worker, Reply(w) \/ Fail(w) \/ Crash(w)
    PROVE  Preserves(w)
<1>1. IsBusy(w)
  BY DEF Reply, Fail, Crash, IsBusy
<1>2. billed \in [Request -> Nat] /\ crashes \in Nat
  BY DEF ChatInv, ChatTypeOK
<1>3. CASE Reply(w)
  <2> PICK out : out = job[w].outcome
    OBVIOUS
  <2>1. pc[w] = "reply" /\ HasOutcome(w) /\ out \in OutcomeSet /\ job[w].tokens <= 3
        /\ job[w].tokens = billed[job[w].request]
    BY <1>1, <1>3, AtWork DEF Reply, WorkerOK, PlaceOK, Job, MostBilled
  <2>2. Ends(w, out)
    BY <1>2, <1>3, <2>1 DEF Ends, Reply, Response
  <2>3. ASSUME NEW q \in Request, q = job[w].request
        PROVE  /\ TellsTheTruth(q, out) /\ out.tokens = billed'[q] /\ billed'[q] <= 3
               /\ out.type # "none"
    BY <1>3, <2>1, <2>3 DEF HasOutcome, Reply
  <2> QED
    BY <1>1, <2>2, <2>3, LastStep
<1>4. CASE Fail(w)
  <2>1. Ends(w, InternalError) /\ InternalError.type = "internal_error"
    BY <1>2, <1>4 DEF Ends, Fail, Response, InternalError
  <2> QED
    BY <1>1, <2>1, LastStep
<1>5. CASE Crash(w)
  <2>1. Ends(w, Lost) /\ Lost.type = "lost"
    BY <1>2, <1>5 DEF Ends, Crash, Response, Lost
  <2> QED
    BY <1>1, <2>1, LastStep
<1> QED
  BY <1>3, <1>4, <1>5

(* A new request meets a state in which nothing has been done for it. *)
LEMMA ReceivePreserves ==
    ASSUME ChatInv, NEW w \in Worker, NEW r \in Request, NEW s \in Session, Receive(w, r, s),
           StoreInv'
    PROVE  ChatInv'
<1> PICK new : new = [NoJob EXCEPT !.request = r, !.session = s, !.company = CompanyOf[r]]
  OBVIOUS
<1>1. /\ pc[w] = "idle" /\ pc' = [pc EXCEPT ![w] = "load"] /\ job' = [job EXCEPT ![w] = new]
      /\ response[r] = NoResponse /\ response' = [response EXCEPT ![r] = Waiting]
      /\ UNCHANGED <<executed, accepted, billed, crashes, expiries>>
      /\ ~IsBusy(w)
  BY DEF Receive, Goto, IsBusy
<1>2. /\ new \in Job /\ new.request = r /\ new.session = s /\ new.company = CompanyOf[r]
      /\ new.tokens = 0
  BY DEF NoJob, NoOutcome, Outcome, OutcomeSet, Job
<1>3. pc \in [Worker -> Place] /\ job \in [Worker -> Job] /\ response \in [Request -> Response]
  BY DEF ChatInv, ChatTypeOK, Place
<1>4. /\ pc'[w] = "load" /\ job'[w] = new /\ response'[r] = Waiting
      /\ \A v \in Worker \ {w} : pc'[v] = pc[v] /\ job'[v] = job[v]
      /\ \A q \in Request \ {r} : response'[q] = response[q]
  BY <1>1, <1>3
<1>5. billed[r] = 0 /\ RanNothing(r)
  BY <1>1 DEF ChatInv, RequestOK
<1>6. ChatTypeOK'
  <2>1. pc' \in [Worker -> Place] /\ job' \in [Worker -> Job] /\ response' \in [Request -> Response]
    BY <1>1, <1>2, <1>3 DEF Place, Response
  <2>2. /\ last' \in [Session -> Request \cup {Null}]
        /\ root' \in [Request -> Request \cup {Null}]
    <3>1. IntentOf(s, r) \in Request \cup {Null}
      BY DEF IntentOf, ChatInv, ChatTypeOK
    <3> QED
      BY <3>1 DEF Receive, ChatInv, ChatTypeOK
  <2> QED
    BY <1>1, <2>1, <2>2 DEF ChatInv, ChatTypeOK, Place
<1>7. ASSUME NEW v \in Worker \ {w}, IsBusy(v) PROVE job[v].request # r
  <2>1. response[job[v].request] = Waiting
    BY <1>7 DEF ChatInv, WorkerOK, HasRequest
  <2>2. Waiting.type # NoResponse.type
    BY DEF Waiting, NoResponse
  <2> QED
    BY <1>1, <2>1, <2>2
<1>8. WorkersDistinct'
  <2>1. SUFFICES ASSUME NEW u \in Worker, NEW v \in Worker, IsBusy(u)', IsBusy(v)',
                        job'[u].request = job'[v].request, u # v
                 PROVE  FALSE
    BY DEF WorkersDistinct
  <2>2. CASE u = w
    <3>1. IsBusy(v) /\ v \in Worker \ {w}
      BY <1>4, <2>1, <2>2 DEF IsBusy
    <3>2. job'[u].request = r /\ job'[v].request = job[v].request
      BY <1>2, <1>4, <2>2, <3>1
    <3> QED
      BY <1>7, <2>1, <3>1, <3>2
  <2>3. CASE v = w
    <3>1. IsBusy(u) /\ u \in Worker \ {w}
      BY <1>4, <2>1, <2>3 DEF IsBusy
    <3>2. job'[v].request = r /\ job'[u].request = job[u].request
      BY <1>2, <1>4, <2>3, <3>1
    <3> QED
      BY <1>7, <2>1, <3>1, <3>2
  <2>4. CASE u # w /\ v # w
    BY <1>4, <2>1, <2>4 DEF IsBusy, ChatInv, WorkersDistinct
  <2> QED
    BY <2>2, <2>3, <2>4
<1>9. ASSUME NEW v \in Worker PROVE WorkerOK(v)'
  <2>1. CASE v = w
    <3>1. HasRequest(w)'
      BY <1>2, <1>4 DEF HasRequest
    <3>2. TokensInStep(w)'
      <4>1. MostBilled("load") = 0
        BY DEF MostBilled
      <4>2. billed'[r] = 0
        BY <1>1, <1>5
      <4> QED
        BY <1>2, <1>4, <4>1, <4>2 DEF TokensInStep
    <3>3. FirstPass(w)'
      BY <1>1, <1>2, <1>4, <1>5 DEF FirstPass, RanNothing
    <3> QED
      BY <1>4, <2>1, <3>1, <3>2, <3>3 DEF WorkerOK, PlaceOK, FirstFailed, ReadyToRun, HasRows,
         HasQuestion, HasOutcome
  <2>2. CASE v # w
    <3>1. WorkerOK(v) /\ pc'[v] = pc[v] /\ job'[v] = job[v]
      BY <1>4, <2>2 DEF ChatInv
    <3>2. HasRequest(v)'
      BY <1>4, <1>7, <2>2, <3>1 DEF WorkerOK, HasRequest, IsBusy
    <3>3. TokensInStep(v)'
      BY <1>1, <3>1 DEF WorkerOK, TokensInStep, IsBusy
    <3>4. PlaceOK(v)'
      BY <1>1, <3>1 DEF WorkerOK, PlaceOK, FirstPass, FirstFailed, ReadyToRun, HasRows,
         HasQuestion, HasOutcome, TellsTheTruth, Ran, RanNothing
    <3> QED
      BY <3>2, <3>3, <3>4 DEF WorkerOK
  <2> QED
    BY <2>1, <2>2
<1>10. ASSUME NEW q \in Request PROVE RequestOK(q)'
  <2>1. CASE q = r
    <3>1. response'[q] = Waiting /\ Waiting.type = "waiting"
      BY <1>4, <2>1 DEF Waiting
    <3> QED
      BY <3>1, UnlikeResponses DEF RequestOK, Delivered
  <2>2. CASE q # r
    <3>1. RequestOK(q) /\ response'[q] = response[q]
      BY <1>4, <2>2 DEF ChatInv
    <3> QED
      BY <1>1, <3>1 DEF RequestOK, Delivered, RanNothing, TellsTheTruth, Ran
  <2> QED
    BY <2>1, <2>2
<1> QED
  BY <1>1, <1>6, <1>8, <1>9, <1>10 DEF ChatInv, OnlyGuardedRuns

LEMMA ExpirePreserves ==
    ASSUME ChatInv, NEW s \in Session, Expire(s), StoreInv'
    PROVE  ChatInv'
<1>1. /\ UNCHANGED <<pc, job, response, executed, accepted, billed, root, crashes>>
      /\ last' = [last EXCEPT ![s] = Null] /\ expiries' = expiries + 1
  BY DEF Expire
<1>2. ChatTypeOK'
  BY <1>1 DEF ChatInv, ChatTypeOK
<1>3. WorkersDistinct' /\ OnlyGuardedRuns'
  BY <1>1 DEF ChatInv, WorkersDistinct, OnlyGuardedRuns, IsBusy
<1>4. ASSUME NEW v \in Worker PROVE WorkerOK(v)'
  <2>1. WorkerOK(v)
    BY DEF ChatInv
  <2> QED
    BY <1>1, <2>1 DEF WorkerOK, PlaceOK, HasRequest, TokensInStep, FirstPass, FirstFailed,
       ReadyToRun, HasRows, HasQuestion, HasOutcome, TellsTheTruth, Ran, RanNothing, IsBusy
<1>5. ASSUME NEW q \in Request PROVE RequestOK(q)'
  <2>1. RequestOK(q)
    BY DEF ChatInv
  <2> QED
    BY <1>1, <2>1 DEF RequestOK, Delivered, RanNothing, TellsTheTruth, Ran
<1> QED
  BY <1>2, <1>3, <1>4, <1>5 DEF ChatInv

LEMMA StutterPreserves == ASSUME ChatInv, UNCHANGED vars PROVE ChatInv'
<1>1. UNCHANGED <<pc, job, response, executed, accepted, billed, last, root, crashes, expiries>>
  BY DEF vars, chatVars
<1>2. StoreInv'
  BY StoreNextInv DEF ChatInv, vars
<1>3. ChatTypeOK' /\ WorkersDistinct' /\ OnlyGuardedRuns'
  BY <1>1 DEF ChatInv, ChatTypeOK, WorkersDistinct, OnlyGuardedRuns, IsBusy
<1>4. ASSUME NEW v \in Worker PROVE WorkerOK(v)'
  <2>1. WorkerOK(v)
    BY DEF ChatInv
  <2> QED
    BY <1>1, <2>1 DEF WorkerOK, PlaceOK, HasRequest, TokensInStep, FirstPass, FirstFailed,
       ReadyToRun, HasRows, HasQuestion, HasOutcome, TellsTheTruth, Ran, RanNothing, IsBusy
<1>5. ASSUME NEW q \in Request PROVE RequestOK(q)'
  <2>1. RequestOK(q)
    BY DEF ChatInv
  <2> QED
    BY <1>1, <2>1 DEF RequestOK, Delivered, RanNothing, TellsTheTruth, Ran
<1> QED
  BY <1>2, <1>3, <1>4, <1>5 DEF ChatInv
-----------------------------------------------------------------------------
LEMMA ChatNextInv == ChatInv /\ [ChatNext]_vars => ChatInv'
<1> SUFFICES ASSUME ChatInv, [ChatNext]_vars PROVE ChatInv'
  OBVIOUS
<1>1. CASE UNCHANGED vars
  BY <1>1, StutterPreserves
<1>2. CASE ChatNext
  <2>1. StoreInv'
    BY <1>2, StoreUse, StoreNextInv DEF ChatInv
  <2>2. ASSUME NEW w \in Worker, Step(w) \/ Fail(w) \/ Crash(w) PROVE ChatInv'
    <3>1. Preserves(w)
      BY <2>1, <2>2, LoadPreserves, NotePreserves, RoutePreserves, AskPreserves,
         ResolvePreserves, ExecutePreserves, RepairPreserves, RetryPreserves,
         FormatPreserves, LastStepPreserves DEF Step
    <3>2. IsBusy(w)
      BY <2>2 DEF Step, Load, Note, Route, Ask, Resolve, Execute, Repair, Reask, Retry,
         Format, Reply, Fail, Crash, Conclude, Goto, IsBusy
    <3> QED
      BY <2>1, <3>1, <3>2, OthersStayInOrder
  <2>3. ASSUME NEW w \in Worker, NEW r \in Request, NEW s \in Session, Receive(w, r, s)
        PROVE  ChatInv'
    BY <2>1, <2>3, ReceivePreserves
  <2>4. ASSUME NEW s \in Session, Expire(s) PROVE ChatInv'
    BY <2>1, <2>4, ExpirePreserves
  <2> QED
    BY <1>2, <2>2, <2>3, <2>4 DEF ChatNext
<1> QED
  BY <1>1, <1>2

LEMMA ChatInvariant == ChatSpec => []ChatInv
BY ChatInitInv, ChatNextInv, PTL DEF ChatSpec

(* The variables of the pipeline stay in their types. *)
THEOREM ChatTypes == ChatSpec => []ChatTypeOK
BY ChatInvariant, PTL DEF ChatInv

(* No statement runs unless the guard let it through, and none runs for     *)
(* another company than its request's, however the requests interleave.     *)
THEOREM ChatOnlyGuardedRuns == ChatSpec => []OnlyGuardedRuns
BY ChatInvariant, PTL DEF ChatInv

(* The outcome a caller gets agrees with what ran for the request. *)
THEOREM ChatOutcomeMatches == ChatSpec => []OutcomeMatchesExecution
<1>1. ChatInv => OutcomeMatchesExecution
  BY DEF ChatInv, RequestOK, OutcomeMatchesExecution
<1> QED
  BY <1>1, ChatInvariant, PTL

(* tokens_used is the number of model calls that returned, at most three. *)
THEOREM ChatTokensReported == ChatSpec => []TokensReported
<1>1. ChatInv => TokensReported
  BY DEF ChatInv, RequestOK, TokensReported
<1> QED
  BY <1>1, ChatInvariant, PTL

(* Any number of pipelines at once use the store as its specification       *)
(* allows, so what is proved of every store holds of theirs.                *)
THEOREM ChatUsesStore == ChatSpec => StoreSpec
<1>1. ChatInit => StoreInit
  BY DEF ChatInit
<1>2. ChatInv /\ [ChatNext]_vars => [StoreNext]_storeVars
  <2> SUFFICES ASSUME ChatInv, [ChatNext]_vars PROVE [StoreNext]_storeVars
    OBVIOUS
  <2>1. CASE ChatNext
    BY <2>1, StoreUse
  <2>2. CASE UNCHANGED vars
    BY <2>2 DEF vars
  <2> QED
    BY <2>1, <2>2
<1> QED
  BY <1>1, <1>2, ChatInvariant, PTL DEF ChatSpec, StoreSpec

(* The history the next prompt is built from is the newest Window messages, *)
(* whatever the workers do at the same time.                                *)
THEOREM ChatWindowIsNewest == ChatSpec => []WindowIsNewest
BY ChatUsesStore, StoreWindowIsNewest
-----------------------------------------------------------------------------
(* The model's questions are not blank, and it repairs or gives up. *)
AsksPlainly ==
    /\ "blank_question" \notin RouteReplies
    /\ \A reply \in RepairReplies : Parse(reply).decision # "clarify"

(* The stored intent i is the one that r continues. *)
CarriesOn(i, r) ==
    root[r] # Null => IF root[r] = r THEN ~Truthy(i) ELSE i = root[r]

StoredIntent(s) == IF s \in DOMAIN row THEN row[s].intent ELSE Null

Cleared(s) == s \in DOMAIN row /\ row[s].pending = Null /\ row[s].intent = Null

(* What the session holds once r has the outcome out. *)
Leaves(s, r, out) ==
    /\ s \in DOMAIN row
    /\ out.type # "clarification_needed" /\ out.path # "llm_error" => Cleared(s)
    /\ AsksPlainly =>
          /\ out.type = "clarification_needed" =>
                Truthy(row[s].pending) /\ (root[r] # Null => row[s].intent = root[r])
          /\ out.path = "llm_error" => CarriesOn(row[s].intent, r)

(* One user at a time: a session has at most one request in progress, its  *)
(* last, and a request has one session.                                    *)
OneAtATime ==
    /\ \A s \in Session : last[s] # Null => response[last[s]] # NoResponse
    /\ \A s, t \in Session : last[s] # Null /\ last[s] = last[t] => s = t
    /\ \A v, w \in Worker : IsBusy(v) /\ IsBusy(w) /\ job[v].session = job[w].session => v = w
    /\ \A w \in Worker : IsBusy(w) => last[job[w].session] = job[w].request
    /\ \A r \in Request : root[r] # Null => response[root[r]] # NoResponse

(* On the way, the session holds the intent the request continues; from    *)
(* Resolve on it holds nothing, until something is asked.                  *)
OnTheWay(w) ==
    LET s == job[w].session
        r == job[w].request
    IN  /\ pc[w] \notin {"idle", "load"} => s \in DOMAIN row
        /\ pc[w] \in {"execute", "repair", "reask", "retry", "format"} => Cleared(s)
        /\ pc[w] = "reply" => Leaves(s, r, job[w].outcome)
        /\ AsksPlainly =>
              /\ pc[w] \in {"load", "note", "route", "ask"} => CarriesOn(StoredIntent(s), r)
              /\ pc[w] \in {"note", "route", "ask"} => job[w].intent = row[s].intent
              /\ pc[w] = "ask" => Truthy(job[w].question)
              /\ pc[w] # "reask"

(* After the last reply the session holds what that reply left. *)
AtRest(s) ==
    /\ last[s] = Null => s \notin DOMAIN row
    /\ last[s] # Null /\ Delivered(last[s]) => Leaves(s, last[s], response[last[s]])
    /\ last[s] # Null /\ response[last[s]] = ParseError /\ Ran(last[s], "route", FALSE)
          => Cleared(s)

SerialInv ==
    /\ OneAtATime
    /\ \A w \in Worker : OnTheWay(w)
    /\ \A s \in Session : AtRest(s)

(* What the store keeps of a session's clarification. *)
PendingKept(s) ==
    /\ s \in DOMAIN row' <=> s \in DOMAIN row
    /\ s \in DOMAIN row => row'[s].pending = row[s].pending /\ row'[s].intent = row[s].intent
-----------------------------------------------------------------------------
(* The operations of the store, by what they do to pending and intent. *)
LEMMA AppendKeepsPending ==
    ASSUME ChatInv, NEW s \in Session, NEW role, NEW c, NEW id, StoreAppend(s, role, c, id)
    PROVE  s \in DOMAIN row /\ \A t \in Session : PendingKept(t)
<1>1. row \in [DOMAIN row -> SessionRow] /\ DOMAIN row \subseteq Session
  BY DEF ChatInv, StoreInv, TablesOK
<1>2. s \in DOMAIN row /\ row' = IF role = "user" THEN [row EXCEPT ![s].turns = @ + 1] ELSE row
  BY DEF StoreAppend
<1> QED
  BY <1>1, <1>2 DEF PendingKept, SessionRow

LEMMA GetKeepsPending ==
    ASSUME ChatInv, NEW s \in Session, NEW u, StoreGet(s, u)
    PROVE  /\ s \in DOMAIN row' /\ \A t \in Session \ {s} : PendingKept(t)
           /\ s \in DOMAIN row => PendingKept(s)
           /\ s \notin DOMAIN row => row'[s].pending = Null /\ row'[s].intent = Null
<1>1. row \in [DOMAIN row -> SessionRow] /\ DOMAIN row \subseteq Session
  BY DEF ChatInv, StoreInv, TablesOK
<1>2. row' = [t \in DOMAIN row \cup {s} |->
                IF t \notin DOMAIN row THEN NewRow(u)
                ELSE IF t = s /\ row[t].user = Null THEN [row[t] EXCEPT !.user = u]
                ELSE row[t]]
  BY DEF StoreGet
<1> QED
  BY <1>1, <1>2 DEF PendingKept, SessionRow, NewRow

LEMMA SetKeepsPending ==
    ASSUME ChatInv, NEW s \in Session, NEW q, NEW i, StoreSetPending(s, q, i)
    PROVE  /\ \A t \in Session \ {s} : PendingKept(t)
           /\ s \in DOMAIN row => /\ s \in DOMAIN row'
                                  /\ row'[s].pending = q /\ row'[s].intent = i
<1>1. row \in [DOMAIN row -> SessionRow] /\ DOMAIN row \subseteq Session
  BY DEF ChatInv, StoreInv, TablesOK
<1>2. row' = IF s \in DOMAIN row
             THEN [row EXCEPT ![s].pending = q, ![s].intent = i] ELSE row
  BY DEF StoreSetPending
<1> QED
  BY <1>1, <1>2 DEF PendingKept, SessionRow
-----------------------------------------------------------------------------
(* The facts about types that the steps need. *)
LEMMA Types ==
    ASSUME ChatInv
    PROVE  /\ pc \in [Worker -> Place] /\ job \in [Worker -> Job]
           /\ response \in [Request -> Response] /\ last \in [Session -> Request \cup {Null}]
           /\ root \in [Request -> Request \cup {Null}]
           /\ Null \notin Request /\ BlankText \notin Request
           /\ \A w \in Worker : IsBusy(w) => /\ job[w].request \in Request
                                             /\ job[w].session \in Session
                                             /\ response[job[w].request] = Waiting
BY StoreAssumption, PipelineAssumption DEF ChatInv, ChatTypeOK, WorkerOK, HasRequest

(* A step of w leaves the other workers, requests and sessions alone. *)
OwnStep(w) ==
    /\ \A v \in Worker \ {w} : pc'[v] = pc[v] /\ job'[v] = job[v]
    /\ IsBusy(w)' => job'[w].request = job[w].request /\ job'[w].session = job[w].session
    /\ last' = last /\ root' = root
    /\ \A q \in Request \ {job[w].request} : response'[q] = response[q]
    /\ response'[job[w].request] # NoResponse
    /\ \A t \in Session \ {job[w].session} : PendingKept(t)

(* It runs no statement for another request. *)
OthersRun(w) ==
    \A q \in Request \ {job[w].request} :
        Ran(q, "route", FALSE)' => Ran(q, "route", FALSE)

LEMMA RunsItsOwn ==
    ASSUME NEW w \in Worker, Step(w) \/ Fail(w) \/ Crash(w) PROVE OthersRun(w)
<1>1. UNCHANGED executed \/ \E ok \in BOOLEAN : Run(w, ok)
  BY DEF Step, Load, Note, Route, Ask, Resolve, Execute, Repair, Reask, Retry, Format, Reply,
     Fail, Crash
<1> QED
  BY <1>1 DEF Run, OthersRun, Ran

LEMMA OthersSerial ==
    ASSUME ChatInv, SerialInv, NEW w \in Worker, OthersRun(w), IsBusy(w), OwnStep(w), OnTheWay(w)',
           NEW s0 \in Session, s0 = job[w].session, AtRest(s0)'
    PROVE  SerialInv'
<1>1. /\ job[w].request \in Request /\ job[w].session \in Session
      /\ last \in [Session -> Request \cup {Null}] /\ root \in [Request -> Request \cup {Null}]
      /\ OneAtATime /\ last[job[w].session] = job[w].request
  BY Types DEF SerialInv, OneAtATime
<1>2. OneAtATime'
  <2>1. \A s \in Session : last'[s] # Null => response'[last'[s]] # NoResponse
    BY <1>1 DEF OwnStep, OneAtATime
  <2>2. \A v \in Worker : IsBusy(v)' => /\ IsBusy(v) /\ job'[v].session = job[v].session
                                        /\ job'[v].request = job[v].request
    BY DEF OwnStep, IsBusy
  <2>3. \A r \in Request : root'[r] # Null => response'[root'[r]] # NoResponse
    BY <1>1 DEF OwnStep, OneAtATime
  <2> QED
    BY <1>1, <2>1, <2>2, <2>3 DEF OneAtATime, OwnStep
<1>3. ASSUME NEW v \in Worker PROVE OnTheWay(v)'
  <2>1. CASE v = w
    BY <2>1
  <2>2. CASE v # w /\ IsBusy(v)
    <3>1. /\ pc'[v] = pc[v] /\ job'[v] = job[v] /\ OnTheWay(v)
          /\ job[v].session \in Session \ {job[w].session} /\ job[v].request \in Request
      BY <1>1, <2>2, Types DEF OwnStep, SerialInv, OneAtATime
    <3>2. PendingKept(job[v].session) /\ root' = root
      BY <3>1 DEF OwnStep
    <3> QED
      BY <3>1, <3>2 DEF OnTheWay, Leaves, Cleared, PendingKept, CarriesOn, StoredIntent
  <2>3. CASE v # w /\ ~IsBusy(v)
    BY <2>3 DEF OwnStep, OnTheWay, IsBusy
  <2> QED
    BY <2>1, <2>2, <2>3
<1>4. ASSUME NEW s \in Session PROVE AtRest(s)'
  <2>1. CASE s = s0
    BY <2>1
  <2>2. CASE s # s0
    <3>1. AtRest(s) /\ PendingKept(s) /\ last'[s] = last[s] /\ root' = root
      BY <2>2 DEF SerialInv, OwnStep
    <3>2. last[s] # Null => last[s] \in Request \ {job[w].request}
      BY <1>1, <2>2, Types DEF OneAtATime
    <3>3. last[s] # Null => response'[last'[s]] = response[last[s]]
      BY <3>1, <3>2 DEF OwnStep
    <3>4. last[s] # Null /\ Ran(last[s], "route", FALSE)' => Ran(last[s], "route", FALSE)
      BY <3>1, <3>2 DEF OthersRun, Ran
    <3> QED
      BY <3>1, <3>3, <3>4 DEF AtRest, Leaves, Cleared, PendingKept, CarriesOn, Delivered, Ran
  <2> QED
    BY <2>1, <2>2
<1> QED
  BY <1>2, <1>3, <1>4 DEF SerialInv

(* A step of w to a place within the request. *)
LEMMA WayStep ==
    ASSUME ChatInv, SerialInv, NEW w \in Worker, OthersRun(w), IsBusy(w),
           NEW to \in Place \ {"idle"}, NEW new \in Job,
           pc' = [pc EXCEPT ![w] = to], job' = [job EXCEPT ![w] = new],
           new.request = job[w].request, new.session = job[w].session,
           UNCHANGED <<response, last, root>>,
           \A t \in Session \ {job[w].session} : PendingKept(t)
    PROVE  pc'[w] = to /\ job'[w] = new /\ (OnTheWay(w)' => SerialInv')
<1>1. pc'[w] = to /\ job'[w] = new /\ \A v \in Worker \ {w} : pc'[v] = pc[v] /\ job'[v] = job[v]
  BY Types
<1>2. response[job[w].request] = Waiting
  BY Types
<1>3. OwnStep(w)
  BY <1>1, <1>2 DEF OwnStep, Waiting, NoResponse
<1>4. PICK s0 \in Session : s0 = job[w].session
  BY Types
<1>5. last[s0] = job[w].request /\ last[s0] # Null
  BY <1>4, Types DEF SerialInv, OneAtATime
<1>6. AtRest(s0)'
  <2>1. last'[s0] # Null /\ response'[last'[s0]] = Waiting /\ Waiting.type = "waiting"
    BY <1>2, <1>5 DEF Waiting
  <2> QED
    BY <2>1, UnlikeResponses DEF AtRest, Delivered
<1>7. ASSUME OnTheWay(w)' PROVE SerialInv'
  BY <1>3, <1>4, <1>6, <1>7, OthersSerial
<1> QED
  BY <1>1, <1>7

(* A step of w to the reply. *)
LEMMA ConcludeSerial ==
    ASSUME ChatInv, SerialInv, NEW w \in Worker, OthersRun(w), IsBusy(w), NEW out \in OutcomeSet,
           Conclude(w, pc[w], out), UNCHANGED <<response, last, root>>,
           \A t \in Session \ {job[w].session} : PendingKept(t),
           NEW s \in Session, s = job[w].session, NEW r \in Request, r = job[w].request,
           Leaves(s, r, out)'
    PROVE  SerialInv'
<1> PICK new : new = [job[w] EXCEPT !.outcome = out, !.tokens = out.tokens]
  OBVIOUS
<1>1. /\ new \in Job /\ new.request = job[w].request /\ new.session = job[w].session
      /\ new.outcome = out
  BY AtWork DEF Job, OutcomeSet
<1>2. job' = [job EXCEPT ![w] = new] /\ pc' = [pc EXCEPT ![w] = "reply"]
  BY Types DEF Conclude, Goto
<1>3. pc'[w] = "reply" /\ job'[w] = new /\ (OnTheWay(w)' => SerialInv')
  BY <1>1, <1>2, WayStep DEF Place
<1>4. OnTheWay(w)'
  BY <1>1, <1>3 DEF OnTheWay, Leaves, Cleared
<1> QED
  BY <1>3, <1>4

(* What the last step of a request leaves the session with. *)
EndsWell(s, r, as) ==
    /\ as.type \in {"answer", "clarification_needed", "error"} => Leaves(s, r, as)
    /\ as = ParseError /\ Ran(r, "route", FALSE) => Cleared(s)

LEMMA EndSerial ==
    ASSUME ChatInv, SerialInv, NEW w \in Worker, OthersRun(w), IsBusy(w), NEW as, Abandon(w, as),
           as.type # "none", UNCHANGED <<last, root>>,
           \A t \in Session \ {job[w].session} : PendingKept(t),
           NEW s \in Session, s = job[w].session, NEW r \in Request, r = job[w].request,
           EndsWell(s, r, as)'
    PROVE  SerialInv'
<1>1. /\ pc'[w] = "idle" /\ \A v \in Worker \ {w} : pc'[v] = pc[v] /\ job'[v] = job[v]
      /\ response'[r] = as /\ \A q \in Request \ {r} : response'[q] = response[q]
  BY Types DEF Abandon
<1>2. as # NoResponse
  <2>1. NoResponse.type = "none"
    BY DEF NoResponse
  <2> QED
    BY <2>1
<1>3. OwnStep(w)
  BY <1>1, <1>2 DEF OwnStep, IsBusy
<1>4. last'[s] = r /\ r # Null
  BY Types DEF SerialInv, OneAtATime
<1>5. AtRest(s)'
  BY <1>1, <1>4 DEF EndsWell, AtRest, Delivered, Ran, Leaves, Cleared, CarriesOn
<1>6. OnTheWay(w)'
  BY <1>1 DEF OnTheWay
<1> QED
  BY <1>3, <1>5, <1>6, OthersSerial

(* The actions, in the order of the code. *)
LEMMA LoadSerial ==
    ASSUME ChatInv, SerialInv, NEW w \in Worker, OthersRun(w), StoreInv', Load(w) PROVE SerialInv'
<1>1. pc[w] = "load" /\ IsBusy(w) /\ pc' = [pc EXCEPT ![w] = "note"]
  BY DEF Load, Goto, IsBusy
<1>2. PICK s \in Session, r \in Request : s = job[w].session /\ r = job[w].request
  BY <1>1, Types
<1>3. StoreGet(s, UserOf[r])
  BY <1>2 DEF Load
<1>4. s \in DOMAIN row' /\ \A t \in Session \ {s} : PendingKept(t)
  BY <1>3, GetKeepsPending
<1>5. PICK new : new = [job[w] EXCEPT !.pending = row'[s].pending, !.intent = row'[s].intent]
  OBVIOUS
<1>6. row'[s] \in SessionRow
  BY <1>4 DEF StoreInv, TablesOK
<1>7. /\ new \in Job /\ new.request = r /\ new.session = s /\ new.intent = row'[s].intent
      /\ job' = [job EXCEPT ![w] = new] /\ UNCHANGED <<response, last, root>>
  <2>1. job[w] \in Job
    BY <1>1, AtWork
  <2> QED
    BY <1>2, <1>5, <1>6, <2>1 DEF Load, Job, SessionRow
<1>8. pc'[w] = "note" /\ job'[w] = new /\ (OnTheWay(w)' => SerialInv')
  BY <1>1, <1>2, <1>4, <1>7, WayStep DEF Place
<1>9. row'[s].intent = StoredIntent(s)
  BY <1>3, GetKeepsPending DEF StoredIntent, PendingKept
<1>10. AsksPlainly => CarriesOn(StoredIntent(s), r)
  BY <1>1, <1>2 DEF SerialInv, OnTheWay
<1>11. OnTheWay(w)'
  BY <1>4, <1>7, <1>8, <1>9, <1>10 DEF OnTheWay, CarriesOn, StoredIntent
<1> QED
  BY <1>8, <1>11

LEMMA NoteSerial ==
    ASSUME ChatInv, SerialInv, NEW w \in Worker, OthersRun(w), Note(w) PROVE SerialInv'
<1>1. pc[w] = "note" /\ IsBusy(w) /\ pc' = [pc EXCEPT ![w] = "route"]
  BY DEF Note, Goto, IsBusy
<1>2. PICK s \in Session, r \in Request : s = job[w].session /\ r = job[w].request
  BY <1>1, Types
<1>3. PICK new \in Job : new = job[w]
  BY <1>1, AtWork
<1>4. s \in DOMAIN row /\ \A t \in Session : PendingKept(t)
  <2>1. PICK id, c : StoreAppend(s, "user", c, id)
    BY <1>2 DEF Note
  <2> QED
    BY <2>1, AppendKeepsPending
<1>5. pc'[w] = "route" /\ job'[w] = new /\ (OnTheWay(w)' => SerialInv')
  <2>1. job' = [job EXCEPT ![w] = new] /\ UNCHANGED <<response, last, root>>
    BY <1>3, Types DEF Note
  <2> QED
    BY <1>1, <1>3, <1>4, <2>1, WayStep DEF Place
<1>6. OnTheWay(w)
  BY DEF SerialInv
<1>7. OnTheWay(w)'
  BY <1>1, <1>2, <1>3, <1>4, <1>5, <1>6 DEF OnTheWay, CarriesOn, StoredIntent, PendingKept, Note
<1> QED
  BY <1>5, <1>7

(* Where nothing is stored. *)
LEMMA StoreKept ==
    ASSUME UNCHANGED storeVars PROVE \A s \in Session : PendingKept(s)
BY DEF storeVars, PendingKept

LEMMA RouteSerial ==
    ASSUME ChatInv, SerialInv, NEW w \in Worker, OthersRun(w), Route(w) PROVE SerialInv'
<1>1. pc[w] = "route" /\ IsBusy(w) /\ UNCHANGED <<storeVars, last, root>>
  BY DEF Route, Conclude, Goto, IsBusy
<1>2. PICK s \in Session, r \in Request : s = job[w].session /\ r = job[w].request
  BY <1>1, Types
<1>3. /\ s \in DOMAIN row /\ row' = row
      /\ AsksPlainly => CarriesOn(row[s].intent, r) /\ job[w].intent = row[s].intent
  BY <1>1, <1>2 DEF SerialInv, OnTheWay, StoredIntent, storeVars
<1>4. \A t \in Session \ {s} : PendingKept(t)
  BY <1>1, StoreKept
<1>5. CASE Conclude(w, "route", Outcome("error", "llm_error", ErrorText, Null, job[w].tokens))
           /\ UNCHANGED response
  <2>1. PICK out : out = Outcome("error", "llm_error", ErrorText, Null, job[w].tokens)
    OBVIOUS
  <2>2. out \in OutcomeSet /\ out.type = "error" /\ out.path = "llm_error"
    BY <1>1, <2>1, AtWork, PipelineAssumption DEF Outcome, OutcomeSet
  <2>3. Leaves(s, r, out)'
    BY <1>1, <1>3, <2>2 DEF Leaves, CarriesOn
  <2> QED
    BY <1>1, <1>2, <1>4, <1>5, <2>1, <2>2, <2>3, ConcludeSerial
<1>6. ASSUME NEW reply \in RouteReplies,
             LET parsed == Parse(reply)
             IN  /\ parsed.decision # "raise"
                 /\ Goto(w, "route", IF parsed.decision = "sql" THEN "resolve" ELSE "ask")
                 /\ job' = [job EXCEPT ![w].tokens = @ + 1, ![w].question = parsed.question]
                 /\ UNCHANGED response
      PROVE  SerialInv'
  <2>1. PICK q : q = Parse(reply).question
    OBVIOUS
  <2>2. /\ q \in Question \cup {Null}
        /\ AsksPlainly /\ Parse(reply).decision # "sql" /\ Parse(reply).decision # "raise"
              => Truthy(q)
    BY <2>1, PipelineAssumption, StoreAssumption DEF Parse, AsksPlainly, Truthy
  <2>0. PICK tokens \in Nat : tokens = job[w].tokens + 1
    <3>1. job[w].tokens \in Nat
      BY <1>1, AtWork
    <3> QED
      BY <3>1
  <2>3. PICK new : new = [job[w] EXCEPT !.tokens = tokens, !.question = q]
    OBVIOUS
  <2>4. /\ new \in Job /\ new.request = job[w].request /\ new.session = job[w].session
        /\ new.intent = job[w].intent /\ new.question = q
    <3>1. job[w] \in Job
      BY <1>1, AtWork
    <3> QED
      BY <2>2, <2>3, <3>1 DEF Job
  <2>5. PICK to : to = IF Parse(reply).decision = "sql" THEN "resolve" ELSE "ask"
    OBVIOUS
  <2>6. /\ to \in Place \ {"idle"} /\ pc' = [pc EXCEPT ![w] = to]
        /\ job' = [job EXCEPT ![w] = new] /\ UNCHANGED <<response, last, root>>
    BY <1>1, <1>6, <2>0, <2>1, <2>3, <2>5, Types DEF Goto, Place
  <2>7. pc'[w] = to /\ job'[w] = new /\ (OnTheWay(w)' => SerialInv')
    BY <1>1, <1>2, <1>4, <2>4, <2>6, WayStep
  <2>8. to \in {"resolve", "ask"} /\ (AsksPlainly /\ to = "ask" => Truthy(q))
    BY <1>6, <2>2, <2>5
  <2>9. OnTheWay(w)'
    BY <1>1, <1>2, <1>3, <2>4, <2>7, <2>8 DEF OnTheWay, CarriesOn, StoredIntent
  <2> QED
    BY <2>7, <2>9
<1>7. CASE Abandon(w, ParseError)
  <2>1. PICK as : as = ParseError
    OBVIOUS
  <2>2. as.type = "parse_error"
    BY <2>1 DEF ParseError
  <2>3. ~Ran(r, "route", FALSE)'
    <3>1. RanNothing(r) /\ executed' = executed
      BY <1>1, <1>2, AtWork DEF Route, WorkerOK, PlaceOK, FirstPass
    <3> QED
      BY <3>1 DEF RanNothing, Ran
  <2>4. EndsWell(s, r, as)'
    BY <2>2, <2>3 DEF EndsWell
  <2> QED
    BY <1>1, <1>2, <1>4, <1>7, <2>1, <2>2, <2>4, EndSerial
<1> QED
  BY <1>5, <1>6, <1>7 DEF Route

LEMMA AskSerial ==
    ASSUME ChatInv, SerialInv, NEW w \in Worker, OthersRun(w), Ask(w) \/ Reask(w) PROVE SerialInv'
<1>1. pc[w] \in {"ask", "reask"} /\ IsBusy(w) /\ UNCHANGED <<response, last, root>>
  BY DEF Ask, Reask, Conclude, Goto, IsBusy
<1>2. PICK s \in Session, r \in Request : s = job[w].session /\ r = job[w].request
  BY <1>1, Types
<1>3. PICK q, i, old : /\ q = job[w].question /\ old = job[w].intent
                       /\ i = IF pc[w] = "ask" /\ Truthy(old) THEN old ELSE r
  OBVIOUS
<1>4. StoreSetPending(s, q, i)
  BY <1>2, <1>3 DEF Ask, Reask, Conclude, Goto
<1>5. /\ s \in DOMAIN row
      /\ AsksPlainly => pc[w] = "ask" /\ Truthy(q) /\ CarriesOn(old, r)
  BY <1>1, <1>2, <1>3 DEF SerialInv, OnTheWay, StoredIntent
<1>6. /\ \A t \in Session \ {s} : PendingKept(t)
      /\ s \in DOMAIN row' /\ row'[s].pending = q /\ row'[s].intent = i
  BY <1>4, <1>5, SetKeepsPending
<1>7. PICK out : out = Outcome("clarification_needed", "clarification", q, Null, job[w].tokens)
  OBVIOUS
<1>8. Conclude(w, pc[w], out)
  BY <1>3, <1>7 DEF Ask, Reask, Conclude, Goto
<1>9. out \in OutcomeSet /\ out.type = "clarification_needed" /\ out.path = "clarification"
  <2>1. q \in Question /\ job[w].tokens \in Nat
    BY <1>1, <1>3, AtWork DEF WorkerOK, PlaceOK, HasQuestion
  <2> QED
    BY <1>7, <2>1, PipelineAssumption DEF Outcome, OutcomeSet
<1>10. AsksPlainly /\ root[r] # Null => i = root[r]
  <2>1. root[r] # Null => Truthy(root[r])
    BY Types DEF Truthy
  <2> QED
    BY <1>3, <1>5, <2>1 DEF CarriesOn
<1>11. Leaves(s, r, out)'
  BY <1>1, <1>5, <1>6, <1>9, <1>10 DEF Leaves, Truthy
<1> QED
  BY <1>1, <1>2, <1>6, <1>8, <1>9, <1>11, ConcludeSerial

LEMMA ResolveSerial ==
    ASSUME ChatInv, SerialInv, NEW w \in Worker, OthersRun(w), Resolve(w) PROVE SerialInv'
<1>1. pc[w] = "resolve" /\ IsBusy(w) /\ UNCHANGED <<response, last, root>>
  BY DEF Resolve, Conclude, Goto, IsBusy
<1>2. PICK s \in Session, r \in Request : s = job[w].session /\ r = job[w].request
  BY <1>1, Types
<1>3. s \in DOMAIN row
  BY <1>1, <1>2 DEF SerialInv, OnTheWay
<1>4. Cleared(s)' /\ \A t \in Session \ {s} : PendingKept(t)
  <2>1. StoreSetPending(s, Null, Null)
    BY <1>2 DEF Resolve, StoreClearPending
  <2> QED
    BY <1>3, <2>1, SetKeepsPending DEF Cleared
<1>5. CASE Goto(w, "resolve", "execute") /\ job' = [job EXCEPT ![w].sql = "route"]
  <2>1. PICK new : new = [job[w] EXCEPT !.sql = "route"]
    OBVIOUS
  <2>2. new \in Job /\ new.request = r /\ new.session = s
    <3>1. job[w] \in Job
      BY <1>1, AtWork
    <3> QED
      BY <1>2, <2>1, <3>1 DEF Job, Passes
  <2>3. pc' = [pc EXCEPT ![w] = "execute"] /\ job' = [job EXCEPT ![w] = new]
    BY <1>5, <2>1, Types DEF Goto
  <2>4. pc'[w] = "execute" /\ job'[w] = new /\ (OnTheWay(w)' => SerialInv')
    BY <1>1, <1>2, <1>4, <2>2, <2>3, WayStep DEF Place
  <2>5. OnTheWay(w)'
    BY <1>4, <2>2, <2>4 DEF OnTheWay, Cleared
  <2> QED
    BY <2>4, <2>5
<1>6. CASE Conclude(w, "resolve", Outcome("error", "guard_rejected", ErrorText, "route",
                                         job[w].tokens))
  <2>1. PICK out : out = Outcome("error", "guard_rejected", ErrorText, "route", job[w].tokens)
    OBVIOUS
  <2>2. out \in OutcomeSet /\ out.type = "error" /\ out.path = "guard_rejected"
    BY <1>1, <2>1, AtWork, PipelineAssumption DEF Outcome, OutcomeSet, Passes
  <2>3. Leaves(s, r, out)'
    BY <1>4, <2>2 DEF Leaves, Cleared
  <2> QED
    BY <1>1, <1>2, <1>4, <1>6, <2>1, <2>2, <2>3, ConcludeSerial
<1> QED
  BY <1>5, <1>6 DEF Resolve

(* After Resolve: a step that stores nothing, with whatever outcome but a   *)
(* question or a failed model call.                                         *)
LEMMA ClearedConcludes ==
    ASSUME ChatInv, SerialInv, NEW w \in Worker, OthersRun(w),
           pc[w] \in {"repair", "retry", "format"},
           NEW out \in OutcomeSet, out.type # "clarification_needed", out.path # "llm_error",
           Conclude(w, pc[w], out), UNCHANGED <<storeVars, response, last, root>>
    PROVE  SerialInv'
<1>1. IsBusy(w)
  BY DEF IsBusy
<1>2. PICK s \in Session, r \in Request : s = job[w].session /\ r = job[w].request
  BY <1>1, Types
<1>3. Cleared(s) /\ row' = row
  BY <1>2 DEF SerialInv, OnTheWay, storeVars
<1>4. Leaves(s, r, out)'
  BY <1>3 DEF Leaves, Cleared
<1> QED
  BY <1>1, <1>2, <1>4, StoreKept, ConcludeSerial

LEMMA ClearedGoesOn ==
    ASSUME ChatInv, SerialInv, NEW w \in Worker, OthersRun(w),
           pc[w] \in {"execute", "repair", "retry"},
           NEW to \in {"repair", "retry", "format", "reask"}, AsksPlainly => to # "reask",
           NEW new \in Job, new.request = job[w].request, new.session = job[w].session,
           pc' = [pc EXCEPT ![w] = to], job' = [job EXCEPT ![w] = new],
           UNCHANGED <<storeVars, response, last, root>>
    PROVE  SerialInv'
<1>1. IsBusy(w)
  BY DEF IsBusy
<1>2. PICK s \in Session : s = job[w].session
  BY <1>1, Types
<1>3. Cleared(s) /\ row' = row
  BY <1>2 DEF SerialInv, OnTheWay, storeVars
<1>4. pc'[w] = to /\ job'[w] = new /\ (OnTheWay(w)' => SerialInv')
  BY <1>1, StoreKept, WayStep DEF Place
<1>5. OnTheWay(w)'
  BY <1>2, <1>3, <1>4 DEF OnTheWay, Cleared
<1> QED
  BY <1>4, <1>5

LEMMA ExecuteSerial ==
    ASSUME ChatInv, SerialInv, NEW w \in Worker, OthersRun(w), Execute(w) PROVE SerialInv'
<1>1. pc[w] = "execute" /\ UNCHANGED <<storeVars, response, last, root>> /\ IsBusy(w)
  BY DEF Execute, Goto, IsBusy
<1>2. PICK to \in {"format", "repair"} : pc' = [pc EXCEPT ![w] = to]
  BY DEF Execute, Goto
<1>3. PICK new \in Job : new = job[w]
  BY <1>1, AtWork
<1>4. job' = [job EXCEPT ![w] = new]
  BY <1>3, Types DEF Execute
<1> QED
  BY <1>1, <1>2, <1>3, <1>4, ClearedGoesOn

LEMMA RepairSerial ==
    ASSUME ChatInv, SerialInv, NEW w \in Worker, OthersRun(w), Repair(w) PROVE SerialInv'
<1>1. pc[w] = "repair" /\ IsBusy(w) /\ UNCHANGED <<storeVars, last, root>>
  BY DEF Repair, Goto, Conclude, IsBusy
<1>2. PICK more \in Nat : more = job[w].tokens + 1
  <2>1. job[w].tokens \in Nat
    BY <1>1, AtWork
  <2> QED
    BY <2>1
<1>3. job[w] \in Job /\ job[w].tokens \in Nat
  BY <1>1, AtWork
<1>4. ASSUME NEW tokens \in Nat, Conclude(w, "repair", SqlFailure(tokens)), UNCHANGED response
      PROVE  SerialInv'
  <2> PICK out : out = SqlFailure(tokens)
    OBVIOUS
  <2>1. out \in OutcomeSet /\ out.type = "error" /\ out.path = "sql_error"
    BY PipelineAssumption DEF SqlFailure, Outcome, OutcomeSet, Passes
  <2> QED
    BY <1>1, <1>4, <2>1, ClearedConcludes
<1>5. ASSUME NEW reply \in RepairReplies, Parse(reply).decision = "clarify",
             Goto(w, "repair", "reask"), UNCHANGED response,
             job' = [job EXCEPT ![w].tokens = @ + 1, ![w].question = Parse(reply).question]
      PROVE  SerialInv'
  <2> PICK question : question = Parse(reply).question
    OBVIOUS
  <2> PICK new : new = [job[w] EXCEPT !.tokens = more, !.question = question]
    OBVIOUS
  <2>1. question \in Question /\ ~AsksPlainly
    BY <1>5, ParseType, ReplyAssumption DEF AsksPlainly
  <2>2. new \in Job /\ new.request = job[w].request /\ new.session = job[w].session
    BY <1>3, <2>1 DEF Job
  <2>3. job' = [job EXCEPT ![w] = new] /\ pc' = [pc EXCEPT ![w] = "reask"]
    BY <1>2, <1>5, Types DEF Goto
  <2> QED
    BY <1>1, <1>5, <2>1, <2>2, <2>3, ClearedGoesOn
<1>6. CASE /\ Goto(w, "repair", "retry") /\ UNCHANGED response
           /\ job' = [job EXCEPT ![w].tokens = @ + 1, ![w].sql = "repair"]
  <2> PICK new : new = [job[w] EXCEPT !.tokens = more, !.sql = "repair"]
    OBVIOUS
  <2>1. new \in Job /\ new.request = job[w].request /\ new.session = job[w].session
    BY <1>3 DEF Job, Passes
  <2>2. job' = [job EXCEPT ![w] = new] /\ pc' = [pc EXCEPT ![w] = "retry"]
    BY <1>2, <1>6, Types DEF Goto
  <2> QED
    BY <1>1, <1>6, <2>1, <2>2, ClearedGoesOn
<1>7. CASE Abandon(w, ParseError)
  <2>1. PICK s \in Session, r \in Request : s = job[w].session /\ r = job[w].request
    BY <1>1, Types
  <2>2. PICK as : as = ParseError
    OBVIOUS
  <2>3. as.type = "parse_error"
    BY <2>2 DEF ParseError
  <2>4. Cleared(s)'
    BY <1>1, <2>1 DEF SerialInv, OnTheWay, Cleared, storeVars
  <2>5. EndsWell(s, r, as)'
    BY <2>3, <2>4 DEF EndsWell
  <2> QED
    BY <1>1, <1>7, <2>1, <2>2, <2>3, <2>5, StoreKept, EndSerial
<1>8. CASE Conclude(w, "repair", SqlFailure(job[w].tokens + 1)) /\ UNCHANGED response
  BY <1>2, <1>4, <1>8
<1>9. CASE Conclude(w, "repair", SqlFailure(job[w].tokens)) /\ UNCHANGED response
  <2> PICK tokens \in Nat : tokens = job[w].tokens
    BY <1>3
  <2> QED
    BY <1>4, <1>9
<1> QED
  BY <1>5, <1>6, <1>7, <1>8, <1>9 DEF Repair

LEMMA RetrySerial ==
    ASSUME ChatInv, SerialInv, NEW w \in Worker, OthersRun(w), Retry(w) PROVE SerialInv'
<1>1. pc[w] = "retry" /\ IsBusy(w) /\ UNCHANGED <<storeVars, response, last, root>>
  BY DEF Retry, Goto, Conclude, IsBusy
<1>2. PICK new \in Job : new = job[w]
  BY <1>1, AtWork
<1>3. CASE Goto(w, "retry", "format") /\ UNCHANGED job
  <2>1. job' = [job EXCEPT ![w] = new] /\ pc' = [pc EXCEPT ![w] = "format"]
    BY <1>2, <1>3, Types DEF Goto
  <2> QED
    BY <1>1, <1>2, <2>1, ClearedGoesOn
<1>4. CASE Conclude(w, "retry", SqlFailure(job[w].tokens))
  <2> PICK out : out = SqlFailure(job[w].tokens)
    OBVIOUS
  <2>1. out \in OutcomeSet /\ out.type = "error" /\ out.path = "sql_error"
    BY <1>1, AtWork, PipelineAssumption DEF SqlFailure, Outcome, OutcomeSet, Passes
  <2> QED
    BY <1>1, <1>4, <2>1, ClearedConcludes
<1> QED
  BY <1>3, <1>4 DEF Retry

LEMMA FormatSerial ==
    ASSUME ChatInv, SerialInv, NEW w \in Worker, OthersRun(w), Format(w) PROVE SerialInv'
<1>1. pc[w] = "format" /\ IsBusy(w) /\ UNCHANGED <<storeVars, response, last, root>>
  BY DEF Format, Goto, Conclude, IsBusy
<1>2. PICK path : path = IF job[w].sql = "repair" THEN "repaired_answer" ELSE "direct_answer"
  OBVIOUS
<1>3. job[w] \in Job /\ job[w].tokens \in Nat /\ job[w].sql \in Passes
  BY <1>1, AtWork DEF WorkerOK, PlaceOK, HasRows
<1>4. PICK tokens \in Nat : Conclude(w, "format", Outcome("answer", path, AnswerText, job[w].sql,
                                                         tokens))
  BY <1>2, <1>3 DEF Format
<1>5. PICK out : out = Outcome("answer", path, AnswerText, job[w].sql, tokens)
  OBVIOUS
<1>6. out \in OutcomeSet /\ out.type = "answer" /\ out.path # "llm_error"
  BY <1>2, <1>3, <1>5, PipelineAssumption DEF Outcome, OutcomeSet
<1> QED
  BY <1>1, <1>4, <1>5, <1>6, ClearedConcludes

LEMMA LastStepSerial ==
    ASSUME ChatInv, SerialInv, NEW w \in Worker, OthersRun(w), Reply(w) \/ Fail(w) \/ Crash(w)
    PROVE  SerialInv'
<1>1. IsBusy(w) /\ UNCHANGED <<last, root>>
  BY DEF Reply, Fail, Crash, IsBusy
<1>2. PICK s \in Session, r \in Request : s = job[w].session /\ r = job[w].request
  BY <1>1, Types
<1>3. CASE Reply(w)
  <2>1. PICK as : as = job[w].outcome
    OBVIOUS
  <2>2. pc[w] = "reply" /\ Abandon(w, as)
    BY <1>3, <2>1 DEF Reply
  <2>3. as.type # "none"
    BY <1>1, <2>1, <2>2, AtWork DEF WorkerOK, PlaceOK, HasOutcome
  <2>4. \A t \in Session : PendingKept(t)
    <3>1. PICK id, c : StoreAppend(s, "assistant", c, id)
      BY <1>2, <1>3 DEF Reply
    <3> QED
      BY <3>1, AppendKeepsPending
  <2>5. Leaves(s, r, as)
    BY <1>2, <2>1, <2>2 DEF SerialInv, OnTheWay
  <2>6. Leaves(s, r, as)'
    BY <1>1, <2>4, <2>5 DEF Leaves, Cleared, PendingKept, CarriesOn
  <2>7. as # ParseError
    <3>1. as \in OutcomeSet /\ ParseError.type = "parse_error"
      BY <1>1, <2>1, AtWork DEF Job, ParseError
    <3> QED
      BY <3>1 DEF OutcomeSet
  <2>8. \A t \in Session \ {job[w].session} : PendingKept(t)
    BY <2>4
  <2>9. EndsWell(s, r, as)'
    BY <2>6, <2>7 DEF EndsWell
  <2> QED
    BY <1>1, <1>2, <2>2, <2>3, <2>8, <2>9, EndSerial
<1>4. CASE Fail(w) \/ Crash(w)
  <2>1. PICK as : as \in {InternalError, Lost} /\ Abandon(w, as)
    <3>1. Abandon(w, InternalError) \/ Abandon(w, Lost)
      BY <1>4 DEF Fail, Crash
    <3> QED
      BY <3>1
  <2>2. as.type \in {"internal_error", "lost"}
    <3>1. InternalError.type = "internal_error" /\ Lost.type = "lost"
      BY DEF InternalError, Lost
    <3> QED
      BY <2>1, <3>1
  <2>3. UNCHANGED storeVars
    BY <1>4 DEF Fail, Crash
  <2>4. as # ParseError
    <3>1. ParseError.type = "parse_error"
      BY DEF ParseError
    <3> QED
      BY <2>2, <3>1
  <2>5. EndsWell(s, r, as)'
    BY <2>2, <2>4 DEF EndsWell
  <2> QED
    BY <1>1, <1>2, <2>1, <2>2, <2>3, <2>5, StoreKept, EndSerial
<1> QED
  BY <1>3, <1>4

(* A new request continues what the last one of its session has left. *)
LEMMA ReceiveSerial ==
    ASSUME ~Overlap, ChatInv, SerialInv, NEW w \in Worker, NEW r \in Request, NEW s \in Session,
           Receive(w, r, s)
    PROVE  SerialInv'
<1> PICK new : new = [NoJob EXCEPT !.request = r, !.session = s, !.company = CompanyOf[r]]
  OBVIOUS
<1>1. /\ pc[w] = "idle" /\ pc' = [pc EXCEPT ![w] = "load"] /\ job' = [job EXCEPT ![w] = new]
      /\ response[r] = NoResponse /\ response' = [response EXCEPT ![r] = Waiting]
      /\ last' = [last EXCEPT ![s] = r] /\ root' = [root EXCEPT ![r] = IntentOf(s, r)]
      /\ row' = row /\ executed' = executed /\ InFlight(s) = {}
  BY DEF Receive, Goto, storeVars
<1>2. new.request = r /\ new.session = s
  BY DEF NoJob
<1>3. /\ pc'[w] = "load" /\ job'[w] = new /\ response'[r] = Waiting /\ last'[s] = r
      /\ root'[r] = IntentOf(s, r)
      /\ \A v \in Worker \ {w} : pc'[v] = pc[v] /\ job'[v] = job[v]
      /\ \A q \in Request \ {r} : response'[q] = response[q] /\ root'[q] = root[q]
      /\ \A t \in Session \ {s} : last'[t] = last[t]
  BY <1>1, Types
<1>4. Waiting # NoResponse
  <2>1. Waiting.type # NoResponse.type
    BY DEF Waiting, NoResponse
  <2> QED
    BY <2>1
<1>5. /\ last \in [Session -> Request \cup {Null}] /\ root \in [Request -> Request \cup {Null}]
      /\ r # Null /\ OneAtATime /\ \A w1 \in Worker : OnTheWay(w1)
      /\ \A t \in Session : AtRest(t)
  BY Types DEF SerialInv
<1>6. ASSUME NEW v \in Worker \ {w}, IsBusy(v)
      PROVE  job[v].request \in Request \ {r} /\ job[v].session \in Session \ {s}
  BY <1>1, <1>4, <1>6, Types DEF InFlight, IsBusy
<1>7. \A t \in Session : last[t] # r
  BY <1>1, <1>5 DEF OneAtATime
<1>8. \A q \in Request : root[q] # r
  BY <1>1, <1>5 DEF OneAtATime
<1>9. IntentOf(s, r) \in Request \cup {Null}
      /\ (IntentOf(s, r) \in {r, Null} \/ \E q \in Request : IntentOf(s, r) = root[q])
  BY <1>5 DEF IntentOf
<1>10. OneAtATime'
  <2>1. \A t \in Session : last'[t] # Null => response'[last'[t]] # NoResponse
    BY <1>3, <1>4, <1>5, <1>7 DEF OneAtATime
  <2>2. \A t, u \in Session : last'[t] # Null /\ last'[t] = last'[u] => t = u
    BY <1>3, <1>5, <1>7 DEF OneAtATime
  <2>0. /\ job'[w].session = s /\ job'[w].request = r
        /\ \A v \in Worker \ {w} : (IsBusy(v)' <=> IsBusy(v)) /\ job'[v] = job[v]
    BY <1>2, <1>3 DEF IsBusy
  <2>3. \A u, v \in Worker : IsBusy(u)' /\ IsBusy(v)' /\ job'[u].session = job'[v].session
                                => u = v
    BY <2>0, <1>5, <1>6 DEF OneAtATime
  <2>4. ASSUME NEW v \in Worker, IsBusy(v)' PROVE last'[job'[v].session] = job'[v].request
    <3>1. CASE v = w
      BY <1>3, <2>0, <3>1
    <3>2. CASE v # w
      <4>1. IsBusy(v) /\ job'[v] = job[v] /\ job[v].session \in Session \ {s}
        BY <1>6, <2>0, <2>4, <3>2
      <4>2. last[job[v].session] = job[v].request
        BY <1>5, <4>1 DEF OneAtATime
      <4> QED
        BY <1>3, <4>1, <4>2
    <3> QED
      BY <3>1, <3>2
  <2>5. ASSUME NEW q \in Request, root'[q] # Null PROVE response'[root'[q]] # NoResponse
    <3>1. root'[q] = r \/ \E p \in Request : root'[q] = root[p]
      BY <1>3, <1>9, <2>5
    <3> QED
      BY <1>3, <1>4, <1>5, <2>5, <3>1 DEF OneAtATime
  <2> QED
    BY <2>1, <2>2, <2>3, <2>4, <2>5 DEF OneAtATime
<1>11. AsksPlainly => CarriesOn(StoredIntent(s), r)'
  <2>1. SUFFICES ASSUME AsksPlainly, IntentOf(s, r) # Null
                 PROVE  IF IntentOf(s, r) = r THEN ~Truthy(StoredIntent(s))
                        ELSE StoredIntent(s) = IntentOf(s, r)
    BY <1>1, <1>3 DEF CarriesOn, StoredIntent
  <2>2. CASE last[s] = Null
    BY <1>5, <2>2 DEF IntentOf, AtRest, StoredIntent, Truthy
  <2>3. CASE last[s] # Null
    <3>1. Delivered(last[s]) /\ last[s] \in Request
      BY <1>5, <2>1, <2>3 DEF IntentOf, AskedBack, LlmFailed, Delivered
    <3>2. Leaves(s, last[s], response[last[s]])
      BY <1>5, <2>3, <3>1 DEF AtRest
    <3>3. StoredIntent(s) = row[s].intent /\ root[last[s]] # r
      BY <1>8, <3>1, <3>2 DEF Leaves, StoredIntent
    <3> QED
      BY <2>1, <2>3, <3>1, <3>2, <3>3 DEF Leaves, IntentOf, AskedBack, LlmFailed, CarriesOn,
         Cleared, Truthy
  <2> QED
    BY <2>2, <2>3
<1>12. ASSUME NEW v \in Worker PROVE OnTheWay(v)'
  <2>1. CASE v = w
    <3>1. pc'[w] = "load" /\ job'[w].session = s /\ job'[w].request = r
      BY <1>2, <1>3
    <3> QED
      BY <1>11, <2>1, <3>1 DEF OnTheWay, CarriesOn, StoredIntent
  <2>2. CASE v # w /\ IsBusy(v)
    BY <1>1, <1>3, <1>5, <1>6, <2>2 DEF OnTheWay, Leaves, Cleared, CarriesOn, StoredIntent
  <2>3. CASE v # w /\ ~IsBusy(v)
    BY <1>3, <2>3 DEF OnTheWay, IsBusy
  <2> QED
    BY <2>1, <2>2, <2>3
<1>13. ASSUME NEW t \in Session PROVE AtRest(t)'
  <2>1. CASE t = s
    <3>1. last'[s] # Null /\ response'[last'[s]] = Waiting /\ Waiting.type = "waiting"
      BY <1>3, <1>5 DEF Waiting
    <3> QED
      BY <2>1, <3>1, UnlikeResponses DEF AtRest, Delivered
  <2>2. CASE t # s
    <3>1. last'[t] = last[t] /\ AtRest(t) /\ (last[t] # Null => last[t] \in Request \ {r})
      BY <1>3, <1>5, <1>7, <2>2
    <3> QED
      BY <1>1, <1>3, <3>1 DEF AtRest, Leaves, Cleared, CarriesOn, Delivered, Ran
  <2> QED
    BY <2>1, <2>2
<1> QED
  BY <1>10, <1>12, <1>13 DEF SerialInv

LEMMA ExpireSerial ==
    ASSUME ChatInv, SerialInv, NEW s \in Session, Expire(s) PROVE SerialInv'
<1>1. /\ UNCHANGED <<pc, job, response, executed, root>> /\ last' = [last EXCEPT ![s] = Null]
      /\ row' = [t \in DOMAIN row \ {s} |-> row[t]] /\ InFlight(s) = {}
  BY DEF Expire, StorePurge
<1>2. last'[s] = Null /\ \A t \in Session \ {s} : last'[t] = last[t] /\ PendingKept(t)
  BY <1>1, Types DEF PendingKept
<1>3. s \notin DOMAIN row'
  BY <1>1
<1>4. \A v \in Worker : IsBusy(v) => job[v].session \in Session \ {s}
  BY <1>1, Types DEF InFlight, IsBusy
<1>5. OneAtATime'
  BY <1>1, <1>2, <1>4 DEF SerialInv, OneAtATime, IsBusy
<1>6. ASSUME NEW v \in Worker PROVE OnTheWay(v)'
  <2>1. CASE IsBusy(v)
    <3>1. PendingKept(job[v].session) /\ OnTheWay(v)
      BY <1>2, <1>4, <2>1 DEF SerialInv
    <3> QED
      BY <1>1, <3>1 DEF OnTheWay, Leaves, Cleared, PendingKept, CarriesOn, StoredIntent
  <2>2. CASE ~IsBusy(v)
    BY <1>1, <2>2 DEF OnTheWay, IsBusy
  <2> QED
    BY <2>1, <2>2
<1>7. ASSUME NEW t \in Session PROVE AtRest(t)'
  <2>1. CASE t = s
    BY <1>2, <1>3, <2>1 DEF AtRest
  <2>2. CASE t # s
    <3>1. last'[t] = last[t] /\ PendingKept(t) /\ AtRest(t)
      BY <1>2, <2>2 DEF SerialInv
    <3> QED
      BY <1>1, <3>1 DEF AtRest, Leaves, Cleared, PendingKept, CarriesOn, Delivered, Ran
  <2> QED
    BY <2>1, <2>2
<1> QED
  BY <1>5, <1>6, <1>7 DEF SerialInv
-----------------------------------------------------------------------------
LEMMA SerialInit == ChatInit => SerialInv
<1> SUFFICES ASSUME ChatInit PROVE SerialInv
  OBVIOUS
<1>1. OneAtATime
  BY DEF ChatInit, OneAtATime, IsBusy
<1>2. \A w \in Worker : OnTheWay(w)
  BY DEF ChatInit, OnTheWay
<1>3. \A s \in Session : AtRest(s)
  BY DEF ChatInit, StoreInit, AtRest
<1> QED
  BY <1>1, <1>2, <1>3 DEF SerialInv

LEMMA SerialNext ==
    ASSUME ~Overlap, ChatInv, ChatInv', SerialInv, [ChatNext]_vars PROVE SerialInv'
<1>1. CASE UNCHANGED vars
  BY <1>1 DEF vars, storeVars, chatVars, SerialInv, OneAtATime, OnTheWay, AtRest, Leaves, Cleared,
     CarriesOn, StoredIntent, Delivered, Ran, IsBusy
<1>2. CASE ChatNext
  <2>1. StoreInv'
    BY DEF ChatInv
  <2>2. ASSUME NEW w \in Worker, Step(w) \/ Fail(w) \/ Crash(w) PROVE SerialInv'
    BY <2>1, <2>2, RunsItsOwn, LoadSerial, NoteSerial, RouteSerial, AskSerial, ResolveSerial,
       ExecuteSerial,
       RepairSerial, RetrySerial, FormatSerial, LastStepSerial DEF Step
  <2> QED
    BY <1>2, <2>2, ReceiveSerial, ExpireSerial DEF ChatNext
<1> QED
  BY <1>1, <1>2

LEMMA SerialInvariant == ASSUME ~Overlap PROVE ChatSpec => []SerialInv
<1>1. ChatInv /\ ChatInv' /\ SerialInv /\ [ChatNext]_vars => SerialInv'
  BY SerialNext
<1> QED
  BY <1>1, SerialInit, ChatInvariant, PTL DEF ChatSpec

(* For users who wait for a reply before they send again, an answer or an   *)
(* error that is not the model's leaves no clarification pending, whatever  *)
(* failed or died on the way and however many processes share the store.    *)
THEOREM ChatNoStale == ASSUME ~Overlap PROVE ChatSpec => []NoStaleClarification
<1>1. ChatInv /\ SerialInv => NoStaleClarification
  <2> SUFFICES ASSUME ChatInv, SerialInv, NEW s \in Session, last[s] # Null,
                      \/ Delivered(last[s]) /\ ~AskedBack(last[s]) /\ ~LlmFailed(last[s])
                      \/ response[last[s]] = ParseError /\ Ran(last[s], "route", FALSE)
               PROVE  s \in DOMAIN row /\ row[s].pending = Null /\ row[s].intent = Null
    BY DEF NoStaleClarification
  <2> QED
    BY DEF SerialInv, AtRest, Leaves, AskedBack, LlmFailed, Cleared
<1> QED
  BY <1>1, ChatInvariant, SerialInvariant, PTL

(* For users who wait for a reply, and a model that asks no blank question  *)
(* and does not ask back instead of repairing, the question just asked is   *)
(* pending, with the message the chain of questions started from.           *)
THEOREM ChatResumes ==
    ASSUME ~Overlap, AsksPlainly PROVE ChatSpec => []ClarificationResumes
<1>1. ChatInv /\ SerialInv => ClarificationResumes
  <2> SUFFICES ASSUME ChatInv, SerialInv, NEW s \in Session, last[s] # Null, AskedBack(last[s])
               PROVE  /\ s \in DOMAIN row /\ Truthy(row[s].pending)
                      /\ root[last[s]] # Null => row[s].intent = root[last[s]]
    BY DEF ClarificationResumes
  <2> QED
    BY DEF SerialInv, AtRest, Leaves, AskedBack, Delivered
<1> QED
  BY <1>1, ChatInvariant, SerialInvariant, PTL
-----------------------------------------------------------------------------
(* Every message the store has had. *)
AllMessages == UNION {Transcript(s) : s \in Session}

(* The message of a request is in the history from Note on. *)
Noted(w) ==
    pc[w] \notin {"idle", "load", "note"} /\ expiries = 0 =>
        \E m \in Transcript(job[w].session) : m.role = "user" /\ m.content = job[w].request

HistoryInv ==
    /\ \A w \in Worker : Noted(w)
    /\ RepliesAreRemembered

Told == {r \in Request : Delivered(r)}

(* reply is the assistant message of each request that was answered. *)
Remembers(reply) ==
    /\ reply \in [Told -> AllMessages]
    /\ \A q, r \in Told : reply[q] = reply[r] => q = r
    /\ \A r \in Told :
          /\ reply[r].role = "assistant" /\ reply[r].content = response[r].text
          /\ \E m \in Transcript(reply[r].session) :
                m.role = "user" /\ m.content = r /\ m.id < reply[r].id

LEMMA HasReplies ==
    ASSUME RepliesAreRemembered, expiries = 0 PROVE \E reply : Remembers(reply)
<1>1. PICK reply \in Injection(Told, AllMessages) :
         \A r \in DOMAIN reply :
              /\ reply[r].role = "assistant" /\ reply[r].content = response[r].text
              /\ \E m \in Transcript(reply[r].session) :
                    m.role = "user" /\ m.content = r /\ m.id < reply[r].id
  BY DEF RepliesAreRemembered, Told, AllMessages
<1>2. reply \in [Told -> AllMessages] /\ \A q, r \in Told : reply[q] = reply[r] => q = r
  BY <1>1 DEF Injection, IsInjective
<1> QED
  BY <1>1, <1>2 DEF Remembers

LEMMA RepliesFound == ASSUME NEW reply, Remembers(reply) PROVE RepliesAreRemembered
<1>1. reply \in Injection(Told, AllMessages) /\ DOMAIN reply = Told
  BY DEF Remembers, Injection, IsInjective
<1> QED
  BY <1>1 DEF Remembers, RepliesAreRemembered, Told, AllMessages

LEMMA RepliesFoundNext ==
    ASSUME NEW reply, Remembers(reply)' PROVE RepliesAreRemembered'
<1>1. (reply \in Injection(Told, AllMessages))' /\ DOMAIN reply = Told'
  BY DEF Remembers, Injection, IsInjective
<1> QED
  BY <1>1 DEF Remembers, RepliesAreRemembered, Told, AllMessages

(* What an append adds to the history. *)
LEMMA AppendAdds ==
    ASSUME ChatInv, NEW s \in Session, NEW role, NEW c, NEW id, StoreAppend(s, role, c, id)
    PROVE  \E m : /\ m = [session |-> s, id |-> id, role |-> role, content |-> c]
                  /\ Transcript(s)' = Transcript(s) \cup {m}
                  /\ \A t \in Session \ {s} : /\ Transcript(t)' = Transcript(t)
                                             /\ MessagesOf(t)' = MessagesOf(t)
                  /\ AllMessages' = AllMessages \cup {m}
                  /\ MessagesOf(s)' = (MessagesOf(s) \cup {m})
                                       \ OutsideWindow(MessagesOf(s) \cup {m})
<1> PICK m : m = [session |-> s, id |-> id, role |-> role, content |-> c]
  OBVIOUS
<1> PICK out : out = OutsideWindow(MessagesOf(s) \cup {m})
  OBVIOUS
<1>1. messages' = (messages \cup {m}) \ out /\ evicted' = [evicted EXCEPT ![s] = evicted[s] \cup out]
  BY DEF StoreAppend
<1>2. out \subseteq MessagesOf(s) \cup {m} /\ m.session = s
  BY DEF OutsideWindow
<1>3. evicted'[s] = evicted[s] \cup out /\ \A t \in Session \ {s} : evicted'[t] = evicted[t]
  BY <1>1 DEF ChatInv, StoreInv, TablesOK
<1>4. Transcript(s)' = Transcript(s) \cup {m}
  BY <1>1, <1>2, <1>3 DEF Transcript, MessagesOf
<1>5. \A t \in Session \ {s} : Transcript(t)' = Transcript(t) /\ MessagesOf(t)' = MessagesOf(t)
  BY <1>1, <1>2, <1>3 DEF Transcript, MessagesOf
<1>6. AllMessages' = AllMessages \cup {m}
  <2>1. \A n : n \in AllMessages' <=> \E t \in Session : n \in Transcript(t)'
    BY DEF AllMessages
  <2>2. \A n : n \in AllMessages <=> \E t \in Session : n \in Transcript(t)
    BY DEF AllMessages
  <2>3. \A n : n \in AllMessages' <=> n \in AllMessages \/ n = m
    BY <1>4, <1>5, <2>1, <2>2
  <2> QED
    BY <2>3
<1>7. MessagesOf(s)' = (MessagesOf(s) \cup {m}) \ out
  BY <1>1, <1>2 DEF MessagesOf
<1> QED
  BY <1>4, <1>5, <1>6, <1>7

(* n is appended to s, newer than all there are. *)
Appended(s, n) ==
    /\ n.session = s /\ n.id \in Nat /\ \A m \in AllMessages : m.id < n.id
    /\ Transcript(s)' = Transcript(s) \cup {n} /\ AllMessages' = AllMessages \cup {n}
    /\ MessagesOf(s)' = (MessagesOf(s) \cup {n}) \ OutsideWindow(MessagesOf(s) \cup {n})
    /\ \A t \in Session \ {s} : /\ Transcript(t)' = Transcript(t)
                               /\ MessagesOf(t)' = MessagesOf(t)

LEMMA AppendIsNewest ==
    ASSUME ChatInv, NEW s \in Session, NEW role, NEW c, NEW id \in MessageId, IsNextId(id),
           StoreAppend(s, role, c, id)
    PROVE  \E n : n.role = role /\ n.content = c /\ Appended(s, n)
<1>1. \A n \in AllMessages : n.id < id
  BY DEF IsNextId, AllMessages
<1>2. id \in Nat
  BY StoreAssumption
<1>3. PICK n : /\ n = [session |-> s, id |-> id, role |-> role, content |-> c]
               /\ Transcript(s)' = Transcript(s) \cup {n}
               /\ \A t \in Session \ {s} : /\ Transcript(t)' = Transcript(t)
                                          /\ MessagesOf(t)' = MessagesOf(t)
               /\ AllMessages' = AllMessages \cup {n}
               /\ MessagesOf(s)' = (MessagesOf(s) \cup {n})
                                    \ OutsideWindow(MessagesOf(s) \cup {n})
  BY AppendAdds
<1>4. n.session = s /\ n.id = id /\ n.role = role /\ n.content = c
  BY <1>3
<1> QED
  BY <1>1, <1>2, <1>3, <1>4 DEF Appended

(* What is remembered stays so while nothing is taken away. *)
LEMMA RepliesKept ==
    ASSUME RepliesAreRemembered, UNCHANGED expiries,
           \A t \in Session : Transcript(t) \subseteq Transcript(t)',
           \A q \in Request : response'[q] = response[q] \/ ~Delivered(q)',
           \A t \in Session : \A m \in Transcript(t) : m.session = t
    PROVE  RepliesAreRemembered'
<1>1. SUFFICES ASSUME expiries = 0 PROVE RepliesAreRemembered'
  BY DEF RepliesAreRemembered
<1>2. PICK reply : Remembers(reply)
  BY <1>1, HasReplies
<1>3. /\ Told' \subseteq Told /\ \A r \in Told' : response'[r] = response[r]
      /\ AllMessages \subseteq AllMessages'
  BY DEF Told, Delivered, AllMessages
<1> PICK new : new = [r \in Told' |-> reply[r]]
  OBVIOUS
<1>4. ASSUME NEW r \in Told'
      PROVE  /\ new[r] = reply[r] /\ reply[r] \in AllMessages'
             /\ reply[r].role = "assistant" /\ reply[r].content = response'[r].text
             /\ \E m \in Transcript(reply[r].session)' :
                   m.role = "user" /\ m.content = r /\ m.id < reply[r].id
  <2>1. r \in Told /\ response'[r] = response[r]
    BY <1>3
  <2>2. reply[r] \in AllMessages
    BY <1>2, <2>1 DEF Remembers
  <2>3. reply[r].session \in Session
    BY <2>2 DEF AllMessages
  <2> QED
    BY <1>2, <1>3, <2>1, <2>2, <2>3 DEF Remembers
<1>5. \A q, r \in Told' : new[q] = new[r] => q = r
  BY <1>2, <1>3, <1>4 DEF Remembers
<1>6. new \in [Told' -> AllMessages']
  BY <1>4
<1>7. Remembers(new)'
  BY <1>4, <1>5, <1>6 DEF Remembers
<1> QED
  BY <1>7, RepliesFoundNext

(* Messages are in the transcript of their session. *)
LEMMA OwnTranscript ==
    ASSUME ChatInv PROVE \A t \in Session : \A m \in Transcript(t) : m.session = t
BY DEF ChatInv, StoreInv, TablesOK, Transcript, MessagesOf

(* A step that appends nothing. *)
Quiet(w) ==
    /\ UNCHANGED <<messages, evicted, expiries>>
    /\ \A v \in Worker \ {w} : pc'[v] = pc[v] /\ job'[v] = job[v]
    /\ pc'[w] \notin {"idle", "load", "note"} =>
          /\ pc[w] \notin {"idle", "load", "note"}
          /\ job'[w].request = job[w].request /\ job'[w].session = job[w].session
    /\ \A q \in Request : response'[q] = response[q] \/ ~Delivered(q)'

LEMMA QuietHistory ==
    ASSUME ChatInv, HistoryInv, NEW w \in Worker, Quiet(w) PROVE HistoryInv'
<1>1. \A t \in Session : Transcript(t)' = Transcript(t)
  BY DEF Quiet, Transcript, MessagesOf
<1>2. ASSUME NEW v \in Worker PROVE Noted(v)'
  <2>1. Noted(v)
    BY DEF HistoryInv
  <2> QED
    BY <2>1 DEF Noted, Quiet, Transcript, MessagesOf
<1>3. RepliesAreRemembered'
  BY <1>1, OwnTranscript, RepliesKept DEF HistoryInv, Quiet
<1> QED
  BY <1>2, <1>3 DEF HistoryInv

(* The steps of a request that append nothing, failures included. *)
LEMMA WorkIsQuiet ==
    ASSUME ChatInv, NEW w \in Worker,
           \/ Load(w) \/ Route(w) \/ Ask(w) \/ Resolve(w) \/ Execute(w) \/ Repair(w) \/ Reask(w)
           \/ Retry(w) \/ Format(w) \/ Fail(w) \/ Crash(w)
    PROVE  Quiet(w)
<1>1. /\ IsBusy(w) /\ UNCHANGED <<messages, evicted, expiries>>
  BY DEF Load, Route, Ask, Resolve, Execute, Repair, Reask, Retry, Format, Fail, Crash, Goto,
     Conclude, IsBusy, storeVars, StoreGet, StoreSetPending, StoreClearPending
<1>2. job[w] \in Job /\ job \in [Worker -> Job] /\ pc \in [Worker -> Place]
  BY <1>1, AtWork, Types
<1>3. ASSUME NEW as, Abandon(w, as), as.type \notin {"answer", "clarification_needed", "error"}
      PROVE  Quiet(w)
  <2>1. pc'[w] = "idle" /\ \A v \in Worker \ {w} : pc'[v] = pc[v] /\ job'[v] = job[v]
    BY <1>2, <1>3 DEF Abandon
  <2>2. \A q \in Request : response'[q] = response[q] \/ response'[q] = as
    BY <1>3, Types DEF Abandon
  <2> QED
    BY <1>1, <1>3, <2>1, <2>2 DEF Quiet, Delivered
<1>4. ASSUME NEW to \in {"note", "route", "ask", "resolve", "execute", "repair", "reask", "retry",
                         "format", "reply"},
             pc[w] \notin {"load", "note"} \/ to = "note",
             pc' = [pc EXCEPT ![w] = to], response' = response,
             \A v \in Worker \ {w} : job'[v] = job[v],
             job'[w].request = job[w].request, job'[w].session = job[w].session
      PROVE  Quiet(w)
  BY <1>1, <1>2, <1>4 DEF Quiet, IsBusy
<1>5. CASE Load(w)
  <2>1. /\ pc' = [pc EXCEPT ![w] = "note"] /\ response' = response
        /\ job' = [job EXCEPT ![w].pending = row'[job[w].session].pending,
                              ![w].intent = row'[job[w].session].intent]
    BY <1>5 DEF Load, Goto
  <2>2. /\ \A v \in Worker \ {w} : job'[v] = job[v]
        /\ job'[w].request = job[w].request /\ job'[w].session = job[w].session
    BY <1>2, <2>1 DEF Job
  <2> QED
    BY <1>4, <2>1, <2>2
<1>6. ASSUME NEW from \in Place \ {"load", "note"}, NEW out, Conclude(w, from, out),
             response' = response
      PROVE  Quiet(w)
  <2>1. pc[w] = from /\ pc' = [pc EXCEPT ![w] = "reply"]
    BY <1>6 DEF Conclude, Goto
  <2>2. /\ \A v \in Worker \ {w} : job'[v] = job[v]
        /\ job'[w].request = job[w].request /\ job'[w].session = job[w].session
    BY <1>2, <1>6 DEF Conclude, Job
  <2> QED
    BY <1>4, <1>6, <2>1, <2>2
<1>7. ASSUME NEW from \in Place \ {"load", "note"},
             NEW to \in {"ask", "resolve", "execute", "repair", "reask", "retry", "format"},
             Goto(w, from, to), response' = response,
             \/ UNCHANGED job
             \/ job' = [job EXCEPT ![w].sql = "route"]
             \/ job' = [job EXCEPT ![w].tokens = @ + 1, ![w].sql = "repair"]
             \/ \E q : job' = [job EXCEPT ![w].tokens = @ + 1, ![w].question = q]
      PROVE  Quiet(w)
  <2>1. pc[w] = from /\ pc' = [pc EXCEPT ![w] = to]
    BY <1>7 DEF Goto
  <2>2. /\ \A v \in Worker \ {w} : job'[v] = job[v]
        /\ job'[w].request = job[w].request /\ job'[w].session = job[w].session
    BY <1>2, <1>7 DEF Job
  <2> QED
    BY <1>4, <1>7, <2>1, <2>2
<1>8. ParseError.type = "parse_error" /\ InternalError.type = "internal_error" /\ Lost.type = "lost"
  BY DEF ParseError, InternalError, Lost
<1>9. CASE Route(w)
  BY <1>3, <1>6, <1>7, <1>8, <1>9 DEF Route, Place
<1>10. CASE Ask(w) \/ Reask(w)
  BY <1>6, <1>10 DEF Ask, Reask, Place
<1>11. CASE Resolve(w) \/ Execute(w) \/ Retry(w)
  BY <1>6, <1>7, <1>11 DEF Resolve, Execute, Retry, Place
<1>12. CASE Repair(w)
  BY <1>3, <1>6, <1>7, <1>8, <1>12 DEF Repair, Place
<1>13. CASE Format(w)
  BY <1>6, <1>13 DEF Format, Place
<1>14. CASE Fail(w) \/ Crash(w)
  BY <1>3, <1>8, <1>14 DEF Fail, Crash
<1> QED
  BY <1>5, <1>9, <1>10, <1>11, <1>12, <1>13, <1>14

LEMMA ReceiveIsQuiet ==
    ASSUME ChatInv, NEW w \in Worker, NEW r \in Request, NEW s \in Session, Receive(w, r, s)
    PROVE  Quiet(w)
<1>1. /\ UNCHANGED <<messages, evicted, expiries>> /\ pc' = [pc EXCEPT ![w] = "load"]
      /\ \A v \in Worker \ {w} : job'[v] = job[v]
      /\ response' = [response EXCEPT ![r] = Waiting]
  BY Types DEF Receive, Goto, storeVars
<1>2. pc'[w] = "load" /\ \A v \in Worker \ {w} : pc'[v] = pc[v]
  BY <1>1, Types
<1>3. \A q \in Request : response'[q] = response[q] \/ response'[q] = Waiting
  BY <1>1, Types
<1> QED
  BY <1>1, <1>2, <1>3 DEF Quiet, Delivered, Waiting

(* A step that appends for w: what the others rely on stays. *)
LEMMA OthersNoted ==
    ASSUME ChatInv, HistoryInv, \A t \in Session : Transcript(t) \subseteq Transcript(t)',
           UNCHANGED expiries, NEW w \in Worker,
           \A v \in Worker \ {w} : pc'[v] = pc[v] /\ job'[v] = job[v]
    PROVE  \A v \in Worker \ {w} : Noted(v)'
<1>1. SUFFICES ASSUME NEW v \in Worker \ {w}, IsBusy(v) PROVE Noted(v)'
  BY DEF Noted, IsBusy
<1>2. job[v].session \in Session /\ Noted(v)
  BY <1>1, Types DEF HistoryInv
<1> QED
  BY <1>2 DEF Noted

LEMMA NoteHistory ==
    ASSUME ChatInv, HistoryInv, NEW w \in Worker, Note(w) PROVE HistoryInv'
<1>1. IsBusy(w) /\ pc' = [pc EXCEPT ![w] = "route"] /\ UNCHANGED <<job, response, expiries>>
  BY DEF Note, Goto, IsBusy
<1>2. PICK s \in Session, r \in Request : s = job[w].session /\ r = job[w].request
  BY <1>1, Types
<1>3. PICK id \in MessageId : IsNextId(id) /\ StoreAppend(s, "user", r, id)
  BY <1>2 DEF Note
<1>4. PICK n : n.role = "user" /\ n.content = r /\ Appended(s, n)
  BY <1>3, AppendIsNewest
<1>5. \A t \in Session : Transcript(t) \subseteq Transcript(t)'
  BY <1>4 DEF Appended
<1>6. Noted(w)'
  <2>1. n \in Transcript(s)'
    BY <1>4 DEF Appended
  <2> QED
    BY <1>1, <1>2, <1>4, <2>1 DEF Noted
<1>7. \A v \in Worker \ {w} : pc'[v] = pc[v] /\ job'[v] = job[v]
  BY <1>1, Types
<1>8. RepliesAreRemembered'
  BY <1>1, <1>5, OwnTranscript, RepliesKept DEF HistoryInv
<1> QED
  BY <1>1, <1>5, <1>6, <1>7, <1>8, OthersNoted DEF HistoryInv

(* The new assistant message is the one of its request. *)
LEMMA ReplyHistory ==
    ASSUME ChatInv, HistoryInv, NEW w \in Worker, Reply(w) PROVE HistoryInv'
<1>1. /\ IsBusy(w) /\ pc[w] = "reply" /\ UNCHANGED expiries
      /\ pc' = [pc EXCEPT ![w] = "idle"]
  BY DEF Reply, Abandon, IsBusy
<1>2. PICK s \in Session, r \in Request : s = job[w].session /\ r = job[w].request
  BY <1>1, Types
<1>3. PICK out : out = job[w].outcome
  OBVIOUS
<1>4. PICK id \in MessageId : /\ IsNextId(id) /\ StoreAppend(s, "assistant", out.text, id)
                              /\ response' = [response EXCEPT ![r] = out]
                              /\ job' = [job EXCEPT ![w] = NoJob]
  BY <1>2, <1>3 DEF Reply, Abandon
<1>5. PICK n : /\ n.session = s /\ n.role = "assistant" /\ n.content = out.text
               /\ \A m \in AllMessages : m.id < n.id
               /\ n.id \in Nat
               /\ Transcript(s)' = Transcript(s) \cup {n}
               /\ \A t \in Session \ {s} : Transcript(t)' = Transcript(t)
               /\ AllMessages' = AllMessages \cup {n}
  <2>1. PICK n : n.role = "assistant" /\ n.content = out.text /\ Appended(s, n)
    BY <1>4, AppendIsNewest
  <2> QED
    BY <2>1 DEF Appended
<1>6. \A t \in Session : Transcript(t) \subseteq Transcript(t)'
  BY <1>5
<1>7. /\ pc'[w] = "idle" /\ response'[r] = out
      /\ \A v \in Worker \ {w} : pc'[v] = pc[v] /\ job'[v] = job[v]
      /\ \A q \in Request \ {r} : response'[q] = response[q]
  BY <1>1, <1>4, Types
<1>8. Noted(w)'
  BY <1>7 DEF Noted
<1>9. RepliesAreRemembered'
  <2>1. SUFFICES ASSUME expiries = 0 PROVE RepliesAreRemembered'
    BY <1>1 DEF RepliesAreRemembered
  <2>2. PICK reply : Remembers(reply)
    BY <2>1, HasReplies DEF HistoryInv
  <2>3. PICK m \in Transcript(s) : m.role = "user" /\ m.content = r
    BY <1>1, <1>2, <2>1 DEF HistoryInv, Noted
  <2>4. m \in AllMessages /\ m \in Transcript(s)' /\ n \notin AllMessages /\ n \in AllMessages'
    <3>1. n \notin AllMessages
      BY <1>5
    <3> QED
      BY <1>5, <2>3, <3>1 DEF AllMessages
  <2>5. \A q \in Told' : q = r \/ (q # r /\ q \in Told /\ response'[q] = response[q])
    BY <1>7 DEF Told, Delivered
  <2> PICK new : new = [q \in Told' |-> IF q = r THEN n ELSE reply[q]]
    OBVIOUS
  <2>6. ASSUME NEW q \in Told', q # r
        PROVE  /\ new[q] = reply[q] /\ reply[q] \in AllMessages /\ q \in Told
               /\ reply[q].role = "assistant" /\ reply[q].content = response'[q].text
               /\ \E k \in Transcript(reply[q].session)' :
                     k.role = "user" /\ k.content = q /\ k.id < reply[q].id
    <3>1. q \in Told /\ response'[q] = response[q]
      BY <2>5, <2>6
    <3>2. reply[q] \in AllMessages
      BY <2>2, <3>1 DEF Remembers
    <3>3. reply[q].session \in Session
      BY <3>2, OwnTranscript DEF AllMessages
    <3>4. PICK k \in Transcript(reply[q].session) :
             k.role = "user" /\ k.content = q /\ k.id < reply[q].id
      BY <2>2, <3>1 DEF Remembers
    <3>5. k \in Transcript(reply[q].session)'
      BY <1>6, <3>3, <3>4
    <3> QED
      BY <2>2, <2>6, <3>1, <3>2, <3>4, <3>5 DEF Remembers
  <2>7. r \in Told' => new[r] = n
    OBVIOUS
  <2>8. new \in [Told' -> AllMessages']
    BY <1>5, <2>4, <2>6, <2>7
  <2>9. ASSUME NEW p \in Told', NEW q \in Told', new[p] = new[q] PROVE p = q
    <3>1. CASE p = r /\ q # r
      BY <2>4, <2>6, <2>7, <2>9, <3>1
    <3>2. CASE p # r /\ q = r
      BY <2>4, <2>6, <2>7, <2>9, <3>2
    <3>3. CASE p # r /\ q # r
      <4>1. reply[p] = reply[q] /\ p \in Told /\ q \in Told
        BY <2>6, <2>9, <3>3
      <4> QED
        BY <2>2, <4>1 DEF Remembers
    <3> QED
      BY <3>1, <3>2, <3>3
  <2>10. ASSUME NEW q \in Told'
         PROVE  /\ new[q].role = "assistant" /\ new[q].content = response'[q].text
                /\ \E k \in Transcript(new[q].session)' :
                      k.role = "user" /\ k.content = q /\ k.id < new[q].id
    <3>1. CASE q = r
      BY <1>5, <1>7, <2>3, <2>4, <2>7, <2>10, <3>1
    <3>2. CASE q # r
      BY <2>6, <2>10, <3>2
    <3> QED
      BY <3>1, <3>2
  <2>11. Remembers(new)'
    BY <2>8, <2>9, <2>10 DEF Remembers
  <2> QED
    BY <2>11, RepliesFoundNext
<1> QED
  BY <1>1, <1>6, <1>7, <1>8, <1>9, OthersNoted DEF HistoryInv
-----------------------------------------------------------------------------
LEMMA HistoryInit == ChatInit => HistoryInv
<1> SUFFICES ASSUME ChatInit PROVE HistoryInv
  OBVIOUS
<1>1. \A w \in Worker : Noted(w)
  BY DEF ChatInit, Noted
<1>2. Told = {}
  BY DEF ChatInit, Told, Delivered, NoResponse
<1>3. PICK reply : reply = [r \in {} |-> r]
  OBVIOUS
<1>4. Remembers(reply)
  BY <1>2, <1>3 DEF Remembers
<1> QED
  BY <1>1, <1>4, RepliesFound DEF HistoryInv

LEMMA HistoryNext == ASSUME ChatInv, HistoryInv, [ChatNext]_vars PROVE HistoryInv'
<1>1. CASE UNCHANGED vars
  <2>1. UNCHANGED <<messages, evicted, pc, job, response, expiries>>
    BY <1>1 DEF vars, storeVars, chatVars
  <2>2. \A w \in Worker : Noted(w)'
    BY <2>1 DEF HistoryInv, Noted, Transcript, MessagesOf
  <2>3. \A t \in Session : Transcript(t)' = Transcript(t)
    BY <2>1 DEF Transcript, MessagesOf
  <2>4. RepliesAreRemembered'
    BY <2>1, <2>3, OwnTranscript, RepliesKept DEF HistoryInv
  <2> QED
    BY <2>2, <2>4 DEF HistoryInv
<1>2. CASE ChatNext
  <2>1. ASSUME NEW w \in Worker, Step(w) \/ Fail(w) \/ Crash(w) PROVE HistoryInv'
    <3>1. Quiet(w) \/ Note(w) \/ Reply(w)
      BY <2>1, WorkIsQuiet DEF Step
    <3> QED
      BY <3>1, QuietHistory, NoteHistory, ReplyHistory
  <2>2. ASSUME NEW s \in Session, Expire(s) PROVE HistoryInv'
    <3>1. expiries' # 0
      BY <2>2 DEF Expire, ChatInv, ChatTypeOK
    <3> QED
      BY <3>1 DEF HistoryInv, Noted, RepliesAreRemembered
  <2> QED
    BY <1>2, <2>1, <2>2, ReceiveIsQuiet, QuietHistory DEF ChatNext
<1> QED
  BY <1>1, <1>2

(* However the requests of a session interleave, fail or die, until a       *)
(* session expires every reply a user has got has an assistant message of   *)
(* its own in the session, after the message it answers.                    *)
THEOREM ChatRemembers == ChatSpec => []RepliesAreRemembered
<1>1. ChatInv /\ HistoryInv /\ [ChatNext]_vars => HistoryInv'
  BY HistoryNext
<1>2. HistoryInv => RepliesAreRemembered
  BY DEF HistoryInv
<1> QED
  BY <1>1, <1>2, HistoryInit, ChatInvariant, PTL DEF ChatSpec
-----------------------------------------------------------------------------
(* m is the newest of the messages ms. *)
Newest(m, ms) == m \in ms /\ \A k \in ms : k.id <= m.id

(* From Note on the newest message of the session is the one of the request. *)
ShowsMessage(w) ==
    pc[w] \notin {"idle", "load", "note"} =>
        \E m : /\ Newest(m, MessagesOf(job[w].session))
               /\ m.role = "user" /\ m.content = job[w].request

(* The two newest messages are the last message and its reply. *)
ShowsExchange(s) ==
    last[s] # Null /\ Delivered(last[s]) =>
        \E m, n : /\ Newest(n, MessagesOf(s)) /\ Newest(m, MessagesOf(s) \ {n})
                  /\ m.role = "user" /\ m.content = last[s]
                  /\ n.role = "assistant" /\ n.content = response[last[s]].text
                  /\ m.id < n.id

LatestInv ==
    /\ \A w \in Worker : ShowsMessage(w)
    /\ \A s \in Session : ShowsExchange(s)

(* What an append leaves of the newest messages. *)
LEMMA AppendShows ==
    ASSUME Window >= 2, ChatInv, NEW s \in Session, NEW role, NEW c, NEW id \in MessageId,
           IsNextId(id), StoreAppend(s, role, c, id)
    PROVE  \E n : /\ n.role = role /\ n.content = c /\ Newest(n, MessagesOf(s)')
                  /\ \A m : Newest(m, MessagesOf(s)) =>
                        Newest(m, MessagesOf(s)' \ {n}) /\ m.id < n.id
                  /\ \A t \in Session \ {s} : MessagesOf(t)' = MessagesOf(t)
<1>0. PICK n : n.role = role /\ n.content = c /\ Appended(s, n)
  BY AppendIsNewest
<1>1. /\ n.id \in Nat /\ \A k \in AllMessages : k.id < n.id
      /\ \A t \in Session \ {s} : MessagesOf(t)' = MessagesOf(t)
      /\ MessagesOf(s)' = (MessagesOf(s) \cup {n}) \ OutsideWindow(MessagesOf(s) \cup {n})
  BY <1>0 DEF Appended
<1>2. PICK ms : ms = MessagesOf(s) \cup {n}
  OBVIOUS
<1>3. MessagesOf(s) \subseteq AllMessages /\ \A k \in MessagesOf(s) : k.id \in Nat
  <2>1. MessagesOf(s) \subseteq AllMessages
    BY DEF AllMessages, Transcript
  <2>2. \A k \in MessagesOf(s) : k.id \in MessageId
    BY DEF MessagesOf, ChatInv, StoreInv, TablesOK
  <2> QED
    BY <2>1, <2>2, StoreAssumption
<1>4. \A k \in MessagesOf(s) : k.id \in Nat /\ k.id < n.id
  BY <1>1, <1>3
<1>5. n \notin OutsideWindow(ms)
  <2>1. {k \in ms : k.id > n.id} = {}
    BY <1>1, <1>2, <1>4
  <2> QED
    BY <2>1, StoreAssumption, FS_EmptySet DEF OutsideWindow
<1>6. ASSUME NEW m, Newest(m, MessagesOf(s))
      PROVE  m \notin OutsideWindow(ms)
  <2>1. {k \in ms : k.id > m.id} = {n}
    BY <1>1, <1>2, <1>4, <1>6 DEF Newest
  <2>2. Cardinality({n}) = 1
    BY FS_Singleton
  <2> QED
    BY <2>1, <2>2, StoreAssumption DEF OutsideWindow
<1>7. MessagesOf(s)' = ms \ OutsideWindow(ms)
  BY <1>1, <1>2
<1>8. Newest(n, MessagesOf(s)')
  BY <1>1, <1>2, <1>4, <1>5, <1>7 DEF Newest
<1>9. ASSUME NEW m, Newest(m, MessagesOf(s))
      PROVE  Newest(m, MessagesOf(s)' \ {n}) /\ m.id < n.id
  <2>1. m \in MessagesOf(s) /\ m.id < n.id /\ m.id \in Nat /\ m # n
    BY <1>1, <1>4, <1>9 DEF Newest
  <2>2. m \in MessagesOf(s)'
    BY <1>2, <1>6, <1>7, <1>9, <2>1
  <2>3. \A k \in MessagesOf(s)' \ {n} : k.id <= m.id
    BY <1>2, <1>7, <1>9 DEF Newest
  <2> QED
    BY <2>1, <2>2, <2>3 DEF Newest
<1> QED
  BY <1>0, <1>1, <1>8, <1>9

LEMMA QuietShows ==
    ASSUME ChatInv, LatestInv, NEW w \in Worker, Quiet(w),
           \A s \in Session : last'[s] = last[s] \/ ~Delivered(last[s])'
    PROVE  LatestInv'
<1>1. \A s : MessagesOf(s)' = MessagesOf(s)
  BY DEF Quiet, MessagesOf
<1>2. ASSUME NEW v \in Worker PROVE ShowsMessage(v)'
  <2>1. ShowsMessage(v)
    BY DEF LatestInv
  <2> QED
    BY <1>1, <2>1 DEF ShowsMessage, Quiet
<1>3. ASSUME NEW s \in Session PROVE ShowsExchange(s)'
  <2>1. SUFFICES ASSUME last'[s] # Null, Delivered(last[s])' PROVE ShowsExchange(s)'
    BY DEF ShowsExchange
  <2>2. last'[s] = last[s] /\ last[s] \in Request
    BY <2>1, Types
  <2>3. response'[last[s]] = response[last[s]] /\ Delivered(last[s])
    BY <2>1, <2>2 DEF Quiet, Delivered
  <2>4. ShowsExchange(s)
    BY DEF LatestInv
  <2> QED
    BY <1>1, <2>1, <2>2, <2>3, <2>4 DEF ShowsExchange
<1> QED
  BY <1>2, <1>3 DEF LatestInv

(* An append for w changes what is shown of its own session only. *)
LEMMA AppendLatest ==
    ASSUME ChatInv, SerialInv, LatestInv, NEW w \in Worker, IsBusy(w),
           NEW s \in Session, s = job[w].session, NEW r \in Request, r = job[w].request,
           \A t \in Session \ {s} : MessagesOf(t)' = MessagesOf(t),
           \A v \in Worker \ {w} : pc'[v] = pc[v] /\ job'[v] = job[v],
           \A q \in Request \ {r} : response'[q] = response[q], UNCHANGED last,
           ShowsMessage(w)', ShowsExchange(s)'
    PROVE  LatestInv'
<1>1. ASSUME NEW v \in Worker \ {w} PROVE ShowsMessage(v)'
  <2>1. CASE IsBusy(v)
    <3>1. job[v].session \in Session \ {s}
      BY <1>1, <2>1, Types DEF SerialInv, OneAtATime
    <3>2. ShowsMessage(v)
      BY DEF LatestInv
    <3> QED
      BY <3>1, <3>2 DEF ShowsMessage
  <2>2. CASE ~IsBusy(v)
    BY <2>2 DEF ShowsMessage, IsBusy
  <2> QED
    BY <2>1, <2>2
<1>2. ASSUME NEW t \in Session \ {s} PROVE ShowsExchange(t)'
  <2>1. last[s] = r /\ (last[t] # Null => last[t] \in Request \ {r})
    BY Types DEF SerialInv, OneAtATime
  <2>2. ShowsExchange(t) /\ last'[t] = last[t]
    BY DEF LatestInv
  <2> QED
    BY <2>1, <2>2 DEF ShowsExchange, Delivered
<1> QED
  BY <1>1, <1>2 DEF LatestInv

LEMMA NoteShows ==
    ASSUME Window >= 2, ChatInv, SerialInv, LatestInv, NEW w \in Worker, Note(w)
    PROVE  LatestInv'
<1>1. /\ IsBusy(w) /\ pc' = [pc EXCEPT ![w] = "route"]
      /\ UNCHANGED <<job, response, last>>
  BY DEF Note, Goto, IsBusy
<1>2. PICK s \in Session, r \in Request : s = job[w].session /\ r = job[w].request
  BY <1>1, Types
<1>3. PICK id \in MessageId : IsNextId(id) /\ StoreAppend(s, "user", r, id)
  BY <1>2 DEF Note
<1>4. PICK n : /\ n.role = "user" /\ n.content = r /\ Newest(n, MessagesOf(s)')
               /\ \A m : Newest(m, MessagesOf(s)) =>
                     Newest(m, MessagesOf(s)' \ {n}) /\ m.id < n.id
               /\ \A t \in Session \ {s} : MessagesOf(t)' = MessagesOf(t)
  BY <1>3, AppendShows
<1>5. ShowsMessage(w)'
  BY <1>1, <1>2, <1>4 DEF ShowsMessage
<1>6. last[s] = r /\ response[r] = Waiting
  BY <1>1, <1>2, Types DEF SerialInv, OneAtATime
<1>7. ShowsExchange(s)'
  BY <1>1, <1>6 DEF ShowsExchange, Delivered, Waiting
<1>8. \A v \in Worker \ {w} : pc'[v] = pc[v] /\ job'[v] = job[v]
  BY <1>1, Types
<1> QED
  BY <1>1, <1>2, <1>4, <1>5, <1>7, <1>8, AppendLatest

LEMMA ReplyShows ==
    ASSUME Window >= 2, ChatInv, SerialInv, LatestInv, NEW w \in Worker, Reply(w)
    PROVE  LatestInv'
<1>1. /\ IsBusy(w) /\ pc[w] = "reply" /\ pc' = [pc EXCEPT ![w] = "idle"]
      /\ UNCHANGED last
  BY DEF Reply, Abandon, IsBusy
<1>2. PICK s \in Session, r \in Request : s = job[w].session /\ r = job[w].request
  BY <1>1, Types
<1>3. PICK out : out = job[w].outcome
  OBVIOUS
<1>4. PICK id \in MessageId : /\ IsNextId(id) /\ StoreAppend(s, "assistant", out.text, id)
                              /\ response' = [response EXCEPT ![r] = out]
                              /\ job' = [job EXCEPT ![w] = NoJob]
  BY <1>2, <1>3 DEF Reply, Abandon
<1>5. PICK n : /\ n.role = "assistant" /\ n.content = out.text /\ Newest(n, MessagesOf(s)')
               /\ \A m : Newest(m, MessagesOf(s)) =>
                     Newest(m, MessagesOf(s)' \ {n}) /\ m.id < n.id
               /\ \A t \in Session \ {s} : MessagesOf(t)' = MessagesOf(t)
  BY <1>4, AppendShows
<1>6. PICK m : Newest(m, MessagesOf(s)) /\ m.role = "user" /\ m.content = r
  BY <1>1, <1>2 DEF LatestInv, ShowsMessage
<1>7. /\ pc'[w] = "idle" /\ response'[r] = out
      /\ \A v \in Worker \ {w} : pc'[v] = pc[v] /\ job'[v] = job[v]
      /\ \A q \in Request \ {r} : response'[q] = response[q]
  BY <1>1, <1>4, Types
<1>8. last[s] = r
  BY <1>1, <1>2, Types DEF SerialInv, OneAtATime
<1>9. ShowsExchange(s)'
  BY <1>1, <1>5, <1>6, <1>7, <1>8 DEF ShowsExchange
<1>10. ShowsMessage(w)'
  BY <1>7 DEF ShowsMessage
<1> QED
  BY <1>1, <1>2, <1>5, <1>7, <1>9, <1>10, AppendLatest

LEMMA ExpireShows ==
    ASSUME ChatInv, LatestInv, NEW s \in Session, Expire(s) PROVE LatestInv'
<1>1. /\ UNCHANGED <<pc, job, response>> /\ last' = [last EXCEPT ![s] = Null]
      /\ InFlight(s) = {} /\ \A t \in Session \ {s} : MessagesOf(t)' = MessagesOf(t)
  BY DEF Expire, StorePurge, MessagesOf
<1>2. last'[s] = Null /\ \A t \in Session \ {s} : last'[t] = last[t]
  BY <1>1, Types
<1>3. ASSUME NEW v \in Worker PROVE ShowsMessage(v)'
  <2>1. CASE IsBusy(v)
    <3>1. job[v].session \in Session \ {s}
      BY <1>1, <2>1, Types DEF InFlight, IsBusy
    <3> QED
      BY <1>1, <3>1 DEF ShowsMessage, LatestInv
  <2>2. CASE ~IsBusy(v)
    BY <1>1, <2>2 DEF ShowsMessage, IsBusy
  <2> QED
    BY <2>1, <2>2
<1>4. ASSUME NEW t \in Session PROVE ShowsExchange(t)'
  <2>1. CASE t = s
    BY <1>2, <2>1 DEF ShowsExchange
  <2>2. CASE t # s
    BY <1>1, <1>2, <2>2 DEF ShowsExchange, LatestInv, Delivered, Newest
  <2> QED
    BY <2>1, <2>2
<1> QED
  BY <1>3, <1>4 DEF LatestInv

LEMMA LatestNext ==
    ASSUME Window >= 2, ChatInv, SerialInv, LatestInv, [ChatNext]_vars PROVE LatestInv'
<1>1. CASE UNCHANGED vars
  BY <1>1 DEF vars, storeVars, chatVars, LatestInv, ShowsMessage, ShowsExchange, MessagesOf,
     Delivered, Newest
<1>2. CASE ChatNext
  <2>1. ASSUME NEW w \in Worker, Step(w) \/ Fail(w) \/ Crash(w) PROVE LatestInv'
    <3>1. Quiet(w) \/ Note(w) \/ Reply(w)
      BY <2>1, WorkIsQuiet DEF Step
    <3>2. UNCHANGED last
      BY <2>1 DEF Step, Load, Note, Route, Ask, Resolve, Execute, Repair, Reask, Retry, Format,
         Reply, Fail, Crash
    <3> QED
      BY <3>1, <3>2, QuietShows, NoteShows, ReplyShows
  <2>2. ASSUME NEW w \in Worker, NEW r \in Request, NEW s \in Session, Receive(w, r, s)
        PROVE  LatestInv'
    <3>1. last' = [last EXCEPT ![s] = r] /\ response' = [response EXCEPT ![r] = Waiting]
      BY <2>2 DEF Receive
    <3>2. \A t \in Session : last'[t] = last[t] \/ ~Delivered(last[t])'
      BY <3>1, Types DEF Delivered, Waiting
    <3> QED
      BY <2>2, <3>2, ReceiveIsQuiet, QuietShows
  <2> QED
    BY <1>2, <2>1, <2>2, ExpireShows DEF ChatNext
<1> QED
  BY <1>1, <1>2

(* For users who wait for a reply, with a window of one exchange or more,   *)
(* the two newest messages the next get returns are the last message and    *)
(* its reply, in this order.                                                *)
THEOREM ChatShowsExchange ==
    ASSUME ~Overlap, Window >= 2 PROVE ChatSpec => []PromptShowsExchange
<1>1. ChatInit => LatestInv
  <2>1. \A r \in Request : ChatInit => ~Delivered(r)
    BY DEF ChatInit, Delivered, NoResponse
  <2> QED
    BY <2>1 DEF ChatInit, LatestInv, ShowsMessage, ShowsExchange
<1>2. ChatInv /\ SerialInv /\ LatestInv /\ [ChatNext]_vars => LatestInv'
  BY LatestNext
<1>3. LatestInv => PromptShowsExchange
  <2> SUFFICES ASSUME LatestInv, NEW s \in Session, last[s] # Null, Delivered(last[s])
               PROVE  \E m, n \in MessagesOf(s) :
                         /\ m.role = "user" /\ m.content = last[s]
                         /\ n.role = "assistant" /\ n.content = response[last[s]].text
                         /\ m.id < n.id
                         /\ \A k \in MessagesOf(s) \ {n} : k.id <= m.id
    BY DEF PromptShowsExchange
  <2>1. PICK m, n : /\ Newest(n, MessagesOf(s)) /\ Newest(m, MessagesOf(s) \ {n})
                    /\ m.role = "user" /\ m.content = last[s]
                    /\ n.role = "assistant" /\ n.content = response[last[s]].text
                    /\ m.id < n.id
    BY DEF LatestInv, ShowsExchange
  <2>2. m \in MessagesOf(s) /\ n \in MessagesOf(s)
    BY <2>1 DEF Newest
  <2> QED
    BY <2>1, <2>2 DEF Newest
<1> QED
  BY <1>1, <1>2, <1>3, ChatInvariant, SerialInvariant, PTL DEF ChatSpec
=============================================================================
