---------------------------- MODULE SessionStore ----------------------------
(***************************************************************************)
(* What a session store promises its callers (app/session/base.py): each   *)
(* operation of the SessionStore interface as one atomic step on the       *)
(* tables chat_sessions and chat_messages.  The bodies are those of        *)
(* PostgresSessionStore, whose operations are single transactions;         *)
(* PostgresSessionStore.tla shows that the transactions, interleaved,      *)
(* implement this module, and RedisSessionStore.tla models the other       *)
(* backend, whose operations are several commands.                         *)
(*                                                                         *)
(* The chat_messages id comes from a sequence that is read before the      *)
(* session row is locked, so ids may be committed out of order: an append  *)
(* here takes any id the session has not used.                             *)
(***************************************************************************)
EXTENDS TopicDigest

CONSTANTS
    Session,        \* session ids
    User,           \* ERP user ids
    Question,       \* clarifying questions
    Null,           \* SQL NULL
    Window,         \* history_max_turns * 2 messages are kept
    MessageId       \* values the chat_messages sequence hands out

ASSUME StoreAssumption ==
    /\ Null \notin User \cup Question \cup Content
    /\ Window \in Nat
    /\ MessageId \subseteq Nat

VARIABLES
    row,            \* chat_sessions: a record per session that exists
    digest,         \* its topic_digest column, <<>> where there is no row
    messages,       \* chat_messages: the set of rows
    evicted,        \* history variable: the messages each session has rolled out
    topics          \* history variable: their topics, in the order they left

storeVars == <<row, digest, messages, evicted, topics>>

Role == {"user", "assistant"}
Message == [session : Session, id : MessageId, role : Role, content : Content]
SessionRow == [user : User \cup {Null}, pending : Question \cup {Null},
               intent : Content \cup {Null}, turns : Nat]

NewRow(u) == [user |-> u, pending |-> Null, intent |-> Null, turns |-> 0]

MessagesOf(s) == {m \in messages : m.session = s}

(* Every message of the session: those kept and those rolled out. *)
Transcript(s) == MessagesOf(s) \cup evicted[s]

(* Mutant: ORDER BY id without DESC, so the newest are rolled out. *)
OutsideWindowAscending(ms) ==
    {m \in ms : Cardinality({n \in ms : n.id < m.id}) >= Window}

(* The messages with Window or more newer ones: id <= the id at OFFSET Window. *)
OutsideWindow(ms) ==
    {m \in ms : Cardinality({n \in ms : n.id > m.id}) >= Window}

InIdOrder(ms) ==
    CHOOSE seq \in SetToSeqs(ms) : \A i, j \in DOMAIN seq : i < j => seq[i].id < seq[j].id

StoreInit ==
    /\ row = [s \in {} |-> NewRow(Null)]
    /\ digest = [s \in Session |-> <<>>]
    /\ messages = {}
    /\ evicted = [s \in Session |-> {}]
    /\ topics = [s \in Session |-> <<>>]

(* Mutant: the upsert overwrites the row of a session that exists. *)
StoreGetOverwrites(s, u) ==
    /\ row' = [t \in DOMAIN row \cup {s} |->
                 IF t \notin DOMAIN row THEN NewRow(u)
                 ELSE IF t = s /\ row[t].user = Null THEN NewRow(u) ELSE row[t]]
    /\ UNCHANGED <<digest, messages, evicted, topics>>

(* get: upsert the row; the first user id seen stays. *)
StoreGet(s, u) ==
    /\ row' = [t \in DOMAIN row \cup {s} |->
                 IF t \notin DOMAIN row THEN NewRow(u)
                 ELSE IF t = s /\ row[t].user = Null THEN [row[t] EXCEPT !.user = u]
                 ELSE row[t]]
    /\ UNCHANGED <<digest, messages, evicted, topics>>

(* append_message on an existing session: insert, count the turn, and roll *)
(* what falls outside the window into the digest.                          *)
StoreAppend(s, role, content, id) ==
    LET m   == [session |-> s, id |-> id, role |-> role, content |-> content]
        out == OutsideWindow(MessagesOf(s) \cup {m})
    IN  /\ s \in DOMAIN row
        /\ \A n \in Transcript(s) : n.id # id
        /\ messages' = (messages \cup {m}) \ out
        /\ row' = IF role = "user" THEN [row EXCEPT ![s].turns = @ + 1] ELSE row
        /\ digest' = IF out = {} THEN digest
                     ELSE [digest EXCEPT ![s] = BuildTopicDigest(@, InIdOrder(out))]
        /\ evicted' = [evicted EXCEPT ![s] = @ \cup out]
        /\ topics' = [topics EXCEPT ![s] = @ \o TopicsIn(InIdOrder(out))]

(* set_pending_clarification / clear_pending_clarification: updates that   *)
(* match no row when the session is gone.                                  *)
StoreSetPending(s, question, intent) ==
    /\ row' = IF s \in DOMAIN row
              THEN [row EXCEPT ![s].pending = question, ![s].intent = intent]
              ELSE row
    /\ UNCHANGED <<digest, messages, evicted, topics>>

StoreClearPending(s) == StoreSetPending(s, Null, Null)

(* purge_expired: one DELETE of every expired session, its messages going  *)
(* with it (ON DELETE CASCADE).  Which sessions have expired is left open. *)
StorePurge(gone) ==
    /\ gone \subseteq DOMAIN row
    /\ row' = [s \in DOMAIN row \ gone |-> row[s]]
    /\ messages' = {m \in messages : m.session \notin gone}
    /\ digest' = [s \in Session |-> IF s \in gone THEN <<>> ELSE digest[s]]
    /\ evicted' = [s \in Session |-> IF s \in gone THEN {} ELSE evicted[s]]
    /\ topics' = [s \in Session |-> IF s \in gone THEN <<>> ELSE topics[s]]

StoreNext ==
    \/ \E s \in Session, u \in User \cup {Null} : StoreGet(s, u)
    \/ \E s \in Session, role \in Role, c \in Content, id \in MessageId :
          StoreAppend(s, role, c, id)
    \/ \E s \in Session, q \in Question, c \in Content : StoreSetPending(s, q, c)
    \/ \E s \in Session : StoreClearPending(s)
    \/ \E gone \in SUBSET Session : StorePurge(gone)

StoreSpec == StoreInit /\ [][StoreNext]_storeVars
-----------------------------------------------------------------------------
(* The tables hold rows of their declared types, every message belongs to  *)
(* a session that exists (the foreign key) and no id is used twice in one. *)
TablesOK ==
    /\ DOMAIN row \subseteq Session
    /\ row \in [DOMAIN row -> SessionRow]
    /\ messages \subseteq [session : DOMAIN row, id : MessageId, role : Role,
                           content : Content]
    /\ evicted \in [Session -> SUBSET Message]
    /\ \A s \in Session :
          /\ s \notin DOMAIN row => evicted[s] = {}
          /\ \A m \in evicted[s] : m.session = s
          /\ \A m, n \in Transcript(s) : m.id = n.id => m = n

StoreTypeOK ==
    /\ TablesOK
    /\ digest \in [Session -> Seq(Topic)]
    /\ topics \in [Session -> Seq(Topic)]

(* The history that get returns is the newest Window messages of the       *)
(* session, whatever the order their ids were committed in: nothing kept   *)
(* is older than something rolled out, and nothing is rolled out before    *)
(* the window is full.                                                     *)
WindowIsNewest ==
    \A s \in Session :
        /\ Cardinality(MessagesOf(s)) <= Window
        /\ \A kept \in MessagesOf(s), old \in evicted[s] : old.id < kept.id
        /\ evicted[s] # {} => Cardinality(MessagesOf(s)) = Window

(* turn_count counts every message the user sent, those rolled out of the  *)
(* history included.                                                       *)
TurnsCounted ==
    \A s \in DOMAIN row :
        row[s].turns = Cardinality({m \in Transcript(s) : m.role = "user"})

(* Folding evictions into the digest one append at a time, truncating each *)
(* time, gives what one truncation of all the topics ever rolled out would *)
(* give: no topic is lost, doubled or reordered except by the limit.  It   *)
(* would do so after the next eviction too, whatever its topics are, those *)
(* of one message or two of any text (build_topic_digest).                 *)
DigestComplete ==
    \A s \in DOMAIN row :
        /\ digest[s] = KeepRecent(topics[s])
        /\ \A more \in BoundedSeq(Topic, 2) :
              KeepRecent(digest[s] \o more) = KeepRecent(topics[s] \o more)
=============================================================================
