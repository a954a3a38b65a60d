-------------------------- MODULE RedisSessionStore --------------------------
(***************************************************************************)
(* RedisSessionStore (app/session/redis_store.py): a hash and a list per   *)
(* session, and operations that are several Redis commands with nothing    *)
(* around them, so that commands of different service instances interleave *)
(* and an instance may die between two commands.                           *)
(*                                                                         *)
(* Each step below is one command; an operation begins with its first.     *)
(* Left out: what get returns, which no later command depends on (that it  *)
(* turns a blank question or intent into None matters to its caller, and   *)
(* is modelled there, in ChatPipeline), and payloads that are not JSON,    *)
(* since append_message is the only writer.                                *)
(***************************************************************************)
EXTENDS TopicDigest

CONSTANTS
    Session, User, Question, Null,
    Window,          \* history_max_turns * 2
    MessageId,       \* history only: the order of the RPUSHes
    Client,          \* service instances
    MaxCrashes,      \* bound: instances that die in mid operation
    KeysMayExpire    \* whether the TTL can run out in the behaviours considered

ASSUME RedisAssumption ==
    /\ Window \in Nat \ {0}
    /\ Null \notin User \cup Question \cup Content
    /\ MessageId \subseteq Nat
    /\ IsFiniteSet(Client)
    /\ MaxCrashes \in Nat
    /\ KeysMayExpire \in BOOLEAN

VARIABLES
    meta,            \* the ...:meta hashes; NoKey or the fields with their defaults
    list,            \* the ...:messages lists; <<>> is no key
    ttl,             \* the keys that have an expiry, as <<session, "meta" or "list">>
    op,              \* the operation each client is in the middle of
    crashes,
    torn,            \* history: keys without expiry when an instance died, until touched
    lastId,          \* history: number of RPUSHes
    evicted, topics, \* history: what LTRIM removed, as in SessionStore
    before           \* history: the store when the operation in progress began

redisVars == <<meta, list, ttl, op, crashes, torn, lastId, evicted, topics, before>>

(* A bare hash has no field but those of a clarification. *)
NoKey == [key |-> "none"]
DefaultMeta == [key |-> "hash", bare |-> TRUE, user |-> Null, digest |-> <<>>, turns |-> 0,
                pending |-> Null, intent |-> Null]
Meta == [key : {"hash"}, bare : BOOLEAN, user : User \cup {Null}, digest : Seq(Topic),
         turns : Nat, pending : Question \cup {Null}, intent : Content \cup {Null}]
Entry == [session : Session, id : MessageId, role : {"user", "assistant"},
          content : Content]

Idle == [pc |-> "idle"]
Busy == {c \in Client : op[c] # Idle}

(* A hash command on a missing key creates the hash. *)
Hash(s) == IF meta[s] = NoKey THEN DefaultMeta ELSE meta[s]

(* The keys there are. *)
Keys == {<<s, "meta">> : s \in {t \in Session : meta[t] # NoKey}}
           \cup {<<s, "list">> : s \in {t \in Session : list[t] # <<>>}}

(* The pipeline calls get on a session before anything else, and only a    *)
(* TTL can then remove it.                                                 *)
Obtained(s) == meta[s] # NoKey \/ KeysMayExpire

(* Mutant: one message too many is kept. *)
SurplusOffByOne(s) == Len(list[s]) - Window - 1

Surplus(s) == Len(list[s]) - Window

(* The store as SessionStore describes it, when nothing is in progress. *)
Now == [row |-> [s \in {t \in Session : meta[t] # NoKey} |->
                   [user |-> meta[s].user, pending |-> meta[s].pending,
                    intent |-> meta[s].intent, turns |-> meta[s].turns]],
        digest |-> [s \in Session |-> Hash(s).digest],
        messages |-> UNION {ToSet(list[s]) : s \in Session},
        evicted |-> evicted, topics |-> topics]

RedisInit ==
    /\ meta = [s \in Session |-> NoKey]
    /\ list = [s \in Session |-> <<>>]
    /\ ttl = {}
    /\ op = [c \in Client |-> Idle]
    /\ crashes = 0
    /\ torn = {}
    /\ lastId = 0
    /\ evicted = [s \in Session |-> {}]
    /\ topics = [s \in Session |-> <<>>]
    /\ before = Now

Begin(c, o) == op[c] = Idle /\ op' = [op EXCEPT ![c] = o] /\ before' = Now
At(c, pc) == op[c] # Idle /\ op[c].pc = pc
Goto(c, pc) == op' = [op EXCEPT ![c].pc = pc] /\ UNCHANGED before

history == <<torn, lastId, evicted, topics>>

(* get: HGETALL, then HSET only for a new session or its first user id. *)
GetBegin(c, s, u) ==
    /\ Begin(c, [session |-> s, user |-> u,
                 pc |-> CASE meta[s] = NoKey -> "create"
                          [] meta[s] # NoKey /\ u # Null /\ meta[s].user = Null -> "set_user"
                          [] OTHER -> "touch_meta"])
    /\ UNCHANGED <<meta, list, ttl, crashes, history>>

(* HSET of the initial fields: resets those a faster client has counted. *)
GetCreate(c) ==
    /\ At(c, "create")
    /\ meta' = [meta EXCEPT ![op[c].session] =
          [Hash(op[c].session) EXCEPT !.bare = FALSE, !.user = op[c].user,
                                      !.digest = <<>>, !.turns = 0]]
    /\ Goto(c, "touch_meta")
    /\ UNCHANGED <<list, ttl, crashes, history>>

GetSetUser(c) ==
    /\ At(c, "set_user")
    /\ meta' = [meta EXCEPT ![op[c].session] =
          [Hash(op[c].session) EXCEPT !.bare = FALSE, !.user = op[c].user]]
    /\ Goto(c, "touch_meta")
    /\ UNCHANGED <<list, ttl, crashes, history>>

(* append_message: RPUSH *)
AppendPush(c, s, role, content) ==
    /\ Obtained(s)
    /\ lastId + 1 \in MessageId
    /\ Begin(c, [session |-> s, pc |-> IF role = "user" THEN "count" ELSE "measure"])
    /\ list' = [list EXCEPT ![s] = Append(@,
          [session |-> s, id |-> lastId + 1, role |-> role, content |-> content])]
    /\ lastId' = lastId + 1
    /\ UNCHANGED <<meta, ttl, crashes, torn, evicted, topics>>

(* HINCRBY turn_count *)
AppendCount(c) ==
    /\ At(c, "count")
    /\ meta' = [meta EXCEPT ![op[c].session] =
          [Hash(op[c].session) EXCEPT !.bare = FALSE, !.turns = @ + 1]]
    /\ Goto(c, "measure")
    /\ UNCHANGED <<list, ttl, crashes, history>>

(* LLEN *)
AppendMeasure(c) ==
    /\ At(c, "measure")
    /\ op' = [op EXCEPT ![c] =
          IF Surplus(@.session) > 0
          THEN [session |-> @.session, pc |-> "read_out", surplus |-> Surplus(@.session)]
          ELSE [@ EXCEPT !.pc = "touch_meta"]]
    /\ UNCHANGED <<meta, list, ttl, crashes, history, before>>

(* Mutant: LRANGE 0 .. overflow - 2, as if its end were exclusive. *)
AppendReadOutShort(c) ==
    /\ At(c, "read_out")
    /\ op' = [op EXCEPT ![c] =
          [session |-> @.session, pc |-> "read_digest", surplus |-> @.surplus,
           out |-> SubSeq(list[@.session], 1,
                          IF @.surplus - 1 <= Len(list[@.session])
                          THEN @.surplus - 1 ELSE Len(list[@.session]))]]
    /\ UNCHANGED <<meta, list, ttl, crashes, history, before>>

(* LRANGE 0 .. overflow - 1, then HGET topic_digest *)
AppendReadOut(c) ==
    /\ At(c, "read_out")
    /\ op' = [op EXCEPT ![c] =
          [session |-> @.session, pc |-> "read_digest", surplus |-> @.surplus,
           out |-> SubSeq(list[@.session], 1,
                          IF @.surplus <= Len(list[@.session])
                          THEN @.surplus ELSE Len(list[@.session]))]]
    /\ UNCHANGED <<meta, list, ttl, crashes, history, before>>

AppendReadDigest(c) ==
    /\ At(c, "read_digest")
    /\ op' = [op EXCEPT ![c] =
          [session |-> @.session, pc |-> "write_digest", surplus |-> @.surplus,
           digest |-> BuildTopicDigest(Hash(@.session).digest, @.out)]]
    /\ UNCHANGED <<meta, list, ttl, crashes, history, before>>

(* HSET topic_digest *)
AppendWriteDigest(c) ==
    /\ At(c, "write_digest")
    /\ meta' = [meta EXCEPT ![op[c].session] =
          [Hash(op[c].session) EXCEPT !.bare = FALSE, !.digest = op[c].digest]]
    /\ Goto(c, "trim")
    /\ UNCHANGED <<list, ttl, crashes, history>>

(* LTRIM overflow -1: removes that many from the front, whatever they are by now. *)
AppendTrim(c) ==
    LET s    == op[c].session
        n    == IF op[c].surplus <= Len(list[s]) THEN op[c].surplus ELSE Len(list[s])
        gone == SubSeq(list[s], 1, n)
    IN  /\ At(c, "trim")
        /\ list' = [list EXCEPT ![s] = SubSeq(@, n + 1, Len(@))]
        /\ ttl' = IF n = Len(list[s]) THEN ttl \ {<<s, "list">>} ELSE ttl
        /\ evicted' = [evicted EXCEPT ![s] = @ \cup ToSet(gone)]
        /\ topics' = [topics EXCEPT ![s] = @ \o TopicsIn(gone)]
        /\ Goto(c, "touch_meta")
        /\ UNCHANGED <<meta, crashes, torn, lastId>>

(* _touch: EXPIRE of the hash, then of the list; nothing on a missing key. *)
TouchMeta(c) ==
    /\ At(c, "touch_meta")
    /\ ttl' = IF meta[op[c].session] = NoKey THEN ttl
              ELSE ttl \cup {<<op[c].session, "meta">>}
    /\ torn' = torn \ ttl'
    /\ Goto(c, "touch_list")
    /\ UNCHANGED <<meta, list, crashes, lastId, evicted, topics>>

(* Mutants: only the hash gets a TTL; a TTL on a list that does not exist. *)
TouchListNot(c) ==
    /\ At(c, "touch_list")
    /\ op' = [op EXCEPT ![c] = Idle]
    /\ UNCHANGED <<meta, list, ttl, crashes, history, before>>

TouchListAlways(c) ==
    /\ At(c, "touch_list")
    /\ ttl' = ttl \cup {<<op[c].session, "list">>}
    /\ op' = [op EXCEPT ![c] = Idle]
    /\ UNCHANGED <<meta, list, crashes, history, before>>

TouchList(c) ==
    /\ At(c, "touch_list")
    /\ ttl' = IF list[op[c].session] = <<>> THEN ttl
              ELSE ttl \cup {<<op[c].session, "list">>}
    /\ torn' = torn \ ttl'
    /\ op' = [op EXCEPT ![c] = Idle]
    /\ UNCHANGED <<meta, list, crashes, lastId, evicted, topics, before>>

(* set_pending_clarification: one HSET of both fields, then _touch. *)
SetPending(c, s, question, intent) ==
    /\ Obtained(s)
    /\ Begin(c, [session |-> s, pc |-> "touch_meta"])
    /\ meta' = [meta EXCEPT ![s] = [Hash(s) EXCEPT !.pending = question, !.intent = intent]]
    /\ UNCHANGED <<list, ttl, crashes, history>>

(* clear_pending_clarification: one HDEL, and no _touch.  A hash goes with  *)
(* its last field, and its expiry with it.                                 *)
ClearPending(c, s) ==
    /\ op[c] = Idle
    /\ Obtained(s)
    /\ meta' = [meta EXCEPT ![s] = IF Hash(s).bare THEN NoKey
                                   ELSE [Hash(s) EXCEPT !.pending = Null, !.intent = Null]]
    /\ ttl' = IF Hash(s).bare THEN ttl \ {<<s, "meta">>} ELSE ttl
    /\ UNCHANGED <<list, op, crashes, history, before>>

(* A key whose TTL runs out goes by itself; purge_expired does nothing. *)
ExpireMeta(s) ==
    /\ KeysMayExpire
    /\ <<s, "meta">> \in ttl
    /\ meta' = [meta EXCEPT ![s] = NoKey]
    /\ ttl' = ttl \ {<<s, "meta">>}
    /\ evicted' = [evicted EXCEPT ![s] = {}]
    /\ topics' = [topics EXCEPT ![s] = <<>>]
    /\ UNCHANGED <<list, op, crashes, torn, lastId, before>>

ExpireList(s) ==
    /\ KeysMayExpire
    /\ <<s, "list">> \in ttl
    /\ list' = [list EXCEPT ![s] = <<>>]
    /\ ttl' = ttl \ {<<s, "list">>}
    /\ UNCHANGED <<meta, op, crashes, history, before>>

(* The instance dies, or Redis does not answer, between two commands. *)
Crash(c) ==
    /\ op[c] # Idle
    /\ crashes < MaxCrashes
    /\ crashes' = crashes + 1
    /\ torn' = torn \cup ({<<op[c].session, "meta">>, <<op[c].session, "list">>}
                              \cap (Keys \ ttl))
    /\ op' = [op EXCEPT ![c] = Idle]
    /\ UNCHANGED <<meta, list, ttl, lastId, evicted, topics, before>>

AppendContinues(c) ==
    \/ AppendCount(c) \/ AppendMeasure(c) \/ AppendReadOut(c) \/ AppendReadDigest(c)
    \/ AppendWriteDigest(c) \/ AppendTrim(c)

RedisNext ==
    \/ \E c \in Client, s \in Session :
          \/ \E u \in User \cup {Null} : GetBegin(c, s, u)
          \/ \E role \in {"user", "assistant"}, t \in Content : AppendPush(c, s, role, t)
          \/ \E q \in Question, t \in Content : SetPending(c, s, q, t)
          \/ ClearPending(c, s)
    \/ \E c \in Client : \/ GetCreate(c) \/ GetSetUser(c)
                         \/ AppendContinues(c)
                         \/ TouchMeta(c) \/ TouchList(c)
                         \/ Crash(c)
    \/ \E s \in Session : ExpireMeta(s) \/ ExpireList(s)

RedisSpec == RedisInit /\ [][RedisNext]_redisVars
------------------------------------------------------------------------------
(* The messages beyond the window that are still in the list. *)
Leaving(s) == SubSeq(list[s], 1, Surplus(s))

RedisTypeOK ==
    /\ meta \in [Session -> {NoKey} \cup Meta]
    /\ list \in [Session -> Seq(Entry)]
    /\ ttl \subseteq Keys
    /\ \A c \in Busy : op[c].session \in Session
    /\ evicted \in [Session -> SUBSET Entry]

(* "evicted turns should survive as a topic digest" (tests/test_session.py): *)
(* a user message that LTRIM removed has its topics in the digest, as long   *)
(* as all of them fit, and with them those of the messages about to be       *)
(* removed, which the digest takes in first.  One instance keeps this even   *)
(* if it dies anywhere, because the digest is written before the list is     *)
(* trimmed; dying between the two may fold the same turns in once more.      *)
NothingForgotten ==
    \A s \in Session :
        LET folded == topics[s] \o TopicsIn(Leaving(s))
        IN  (1 + crashes) * (JoinedLength(folded) + SeparatorLength) <= DigestLimit =>
               \A m \in evicted[s] :
                  m.role = "user" => ToSet(TopicsOf[m.content]) \subseteq ToSet(Hash(s).digest)

(* "Redis expires keys itself; nothing to sweep" (redis_store.py): once the *)
(* operations in progress are over, every key that is left will expire,    *)
(* whether it expired under an operation, was created again by a late      *)
(* command, or was trimmed by another instance.  The one exception: a key  *)
(* that had no expiry when an instance died in an operation on its session *)
(* stays without one until an operation on that session touches it.        *)
KeysExpire == Busy = {} => Keys \ ttl \subseteq torn

(* Concurrent appends may trim too much, never too little: between         *)
(* operations the list is beyond the window by at most one message for     *)
(* every instance that has died, and so not at all while none has, although *)
(* each append measures the list once and trims by that measure later.     *)
TrimmedBetweenOperations ==
    Busy = {} => \A s \in Session : Len(list[s]) <= Window + crashes

(* One instance implements SessionStore, its operations taking effect when *)
(* they end, until it dies in the middle of one.                           *)
Abstract == IF Busy = {} THEN Now ELSE before
Store == INSTANCE SessionStore WITH
            row <- Abstract.row, digest <- Abstract.digest,
            messages <- Abstract.messages, evicted <- Abstract.evicted,
            topics <- Abstract.topics
ImplementsStore ==
    Store!StoreInit /\ [][crashes' = 0 => Store!StoreNext]_(Store!storeVars)
==============================================================================
