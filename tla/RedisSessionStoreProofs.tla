----------------------- MODULE RedisSessionStoreProofs -----------------------
(***************************************************************************)
(* What the Redis backend keeps although its operations are several        *)
(* commands: for any number of instances whose commands interleave, and    *)
(* for keys that may expire between any two of them.                       *)
(***************************************************************************)
EXTENDS RedisSessionStore, TopicDigestProofs

(* An operation in progress knows its session and, once it has measured    *)
(* the list, by how much it is too long.                                   *)
Getting(o) ==
    /\ o \in [session : Session, user : {o.user}, pc : {o.pc}]
    /\ o.pc \in {"create", "set_user", "touch_meta", "touch_list"}
Writing(o) ==
    /\ o \in [session : Session, pc : {o.pc}]
    /\ o.pc \in {"count", "measure", "touch_meta", "touch_list"}
Reading(o) == o \in [session : Session, pc : {"read_out"}, surplus : Nat]
Folding(o) == o \in [session : Session, pc : {"read_digest"}, surplus : Nat, out : {o.out}]
Trimming(o) ==
    /\ o \in [session : Session, pc : {o.pc}, surplus : Nat, digest : {o.digest}]
    /\ o.pc \in {"write_digest", "trim", "touch_meta", "touch_list"}

InProgress(o) == Getting(o) \/ Writing(o) \/ Reading(o) \/ Folding(o) \/ Trimming(o)
OpOK(o) == o = Idle \/ InProgress(o)

(* A hash has all its fields, and is not bare unless keys expire: get has  *)
(* written it first.                                                       *)
Fields(m) == m \in [key : {"hash"}, bare : BOOLEAN, user : {m.user}, digest : {m.digest},
                    turns : {m.turns}, pending : {m.pending}, intent : {m.intent}]
Lasting(m) == KeysMayExpire \/ m.bare = FALSE
MetaOK(m) == m # NoKey => Fields(m) /\ Lasting(m)

(* What an operation on s has still to do: set the expiry of the hash, of  *)
(* the list, and bring a list that is n too long back into the window.     *)
OwesMeta(o, s) == o # Idle /\ o.session = s /\ o.pc # "touch_list"
OwesList(o, s) == o # Idle /\ o.session = s
OwesTrim(o, s, n) ==
    /\ o # Idle /\ o.session = s
    /\ \/ o.pc \in {"count", "measure"}
       \/ o.pc \in {"read_out", "read_digest", "write_digest", "trim"} /\ o.surplus >= n

(* Whatever is missing, somebody is about to do it, or died over it. *)
MetaOwed(s) == meta[s] # NoKey => \/ <<s, "meta">> \in ttl \cup torn
                                  \/ \E c \in Client : OwesMeta(op[c], s)
ListOwed(s) == list[s] # <<>> => \/ <<s, "list">> \in ttl \cup torn
                                 \/ \E c \in Client : OwesList(op[c], s)

(* Every message beyond the window has an instance of its own to remove    *)
(* it: counted from any length j on, as many operations will trim j or     *)
(* more as there are messages from the j-th surplus one on, but for those  *)
(* that died.                                                              *)
Trimmers(s, j) == {c \in Client : OwesTrim(op[c], s, j)}
TrimOwed(s) ==
    \A j \in Nat \ {0} : Cardinality(Trimmers(s, j)) + crashes >= Surplus(s) - j + 1

Shape ==
    /\ meta = [s \in Session |-> meta[s]] /\ \A s \in Session : MetaOK(meta[s])
    /\ list \in [Session -> Seq(Entry)]
    /\ op = [c \in Client |-> op[c]] /\ \A c \in Client : OpOK(op[c])
    /\ crashes \in Nat
    /\ lastId \in Nat
Owed == \A s \in Session : MetaOwed(s) /\ ListOwed(s) /\ TrimOwed(s)

RedisInv == Shape /\ Owed
------------------------------------------------------------------------------
(* An operation in progress is not idle. *)
LEMMA InProgressNotIdle == ASSUME NEW o, InProgress(o) PROVE o # Idle
BY DEF InProgress, Getting, Writing, Reading, Folding, Trimming, Idle

(* The hash a command finds or creates. *)
LEMMA HashOK ==
  ASSUME Shape, NEW s \in Session
  PROVE  /\ Fields(Hash(s)) /\ Hash(s) # NoKey
         /\ Obtained(s) => Lasting(Hash(s))
BY DEF Shape, MetaOK, Fields, Lasting, Obtained, Hash, DefaultMeta, NoKey

(* The lengths the code reckons with are numbers. *)
LEMMA SurplusIsInt ==
  ASSUME Shape, NEW s \in Session
  PROVE  Surplus(s) \in Int /\ Len(list[s]) \in Nat
BY RedisAssumption DEF Shape, Surplus

(* There are finitely many instances, so those that owe a trim are counted. *)
LEMMA TrimmersCounted ==
  ASSUME NEW s, NEW j
  PROVE  IsFiniteSet(Trimmers(s, j)) /\ Cardinality(Trimmers(s, j)) \in Nat
BY RedisAssumption, FS_Subset, FS_CardinalityType DEF Trimmers

(* Client c at operation o: who owes a trim of j now. *)
LEMMA TrimmersStep ==
  ASSUME Shape, NEW c \in Client, NEW o, op' = [op EXCEPT ![c] = o], NEW s, NEW j
  PROVE  /\ Cardinality(Trimmers(s, j)) \in Nat /\ Cardinality(Trimmers(s, j)') \in Nat
         /\ Cardinality(Trimmers(s, j)') >= Cardinality(Trimmers(s, j)) - 1
         /\ (OwesTrim(op[c], s, j) => OwesTrim(o, s, j)) =>
               Cardinality(Trimmers(s, j)') >= Cardinality(Trimmers(s, j))
         /\ OwesTrim(o, s, j) /\ ~OwesTrim(op[c], s, j) =>
               Cardinality(Trimmers(s, j)') = Cardinality(Trimmers(s, j)) + 1
<1>1. op'[c] = o /\ \A d \in Client \ {c} : op'[d] = op[d]
  BY DEF Shape
<1>2. IsFiniteSet(Trimmers(s, j)) /\ Cardinality(Trimmers(s, j)) \in Nat
  BY TrimmersCounted
<1>3. c \in Trimmers(s, j) <=> OwesTrim(op[c], s, j)
  BY DEF Trimmers
<1>4. Trimmers(s, j)' = IF OwesTrim(o, s, j) THEN Trimmers(s, j) \cup {c}
                                            ELSE Trimmers(s, j) \ {c}
  BY <1>1 DEF Trimmers
<1>5. Cardinality(Trimmers(s, j) \cup {c}) \in Nat /\ Cardinality(Trimmers(s, j) \ {c}) \in Nat
  BY <1>2, FS_AddElement, FS_RemoveElement, FS_CardinalityType
<1>6. /\ Cardinality(Trimmers(s, j) \cup {c}) =
            IF c \in Trimmers(s, j) THEN Cardinality(Trimmers(s, j))
                                    ELSE Cardinality(Trimmers(s, j)) + 1
      /\ Cardinality(Trimmers(s, j) \ {c}) =
            IF c \in Trimmers(s, j) THEN Cardinality(Trimmers(s, j)) - 1
                                    ELSE Cardinality(Trimmers(s, j))
  BY <1>2, FS_AddElement, FS_RemoveElement
<1>7. CASE OwesTrim(o, s, j)
  <2>1. Trimmers(s, j)' = Trimmers(s, j) \cup {c}
    BY <1>4, <1>7
  <2> QED
    BY <1>2, <1>3, <1>5, <1>6, <1>7, <2>1
<1>8. CASE ~OwesTrim(o, s, j)
  <2>1. Trimmers(s, j)' = Trimmers(s, j) \ {c}
    BY <1>4, <1>8
  <2> QED
    BY <1>2, <1>3, <1>5, <1>6, <1>8, <2>1
<1> QED
  BY <1>7, <1>8

(* The trims owed are owed still: the list is no longer than it was and     *)
(* those who would trim j still would, or it is shorter, or it is longer   *)
(* by one message and there is one more who will measure it.               *)
KeepsTrim(c, o, s, j) ==
    \/ Surplus(s)' < j
    \/ Surplus(s)' <= Surplus(s) /\ (OwesTrim(op[c], s, j) => OwesTrim(o, s, j))
    \/ Surplus(s)' < Surplus(s)
    \/ Surplus(s)' = Surplus(s) + 1 /\ OwesTrim(o, s, j) /\ ~OwesTrim(op[c], s, j)

LEMMA StillOwed ==
  ASSUME Shape, Shape', NEW s \in Session, TrimOwed(s), NEW c \in Client, NEW o,
         op' = [op EXCEPT ![c] = o], crashes' = crashes,
         \A j \in Nat \ {0} : KeepsTrim(c, o, s, j)
  PROVE  TrimOwed(s)'
<1>1. Surplus(s) \in Int /\ Surplus(s)' \in Int /\ crashes \in Nat
  BY SurplusIsInt, RedisAssumption DEF Shape, Surplus
<1>2. ASSUME NEW j \in Nat \ {0}
      PROVE  Cardinality(Trimmers(s, j)') + crashes >= Surplus(s)' - j + 1
  <2>1. PICK n, m, a, b : /\ n = Cardinality(Trimmers(s, j)) /\ m = Cardinality(Trimmers(s, j)')
                          /\ a = Surplus(s) /\ b = Surplus(s)'
    OBVIOUS
  <2>2. n \in Nat /\ m \in Nat /\ a \in Int /\ b \in Int
    BY <1>1, <2>1, TrimmersStep
  <2>3. n + crashes >= a - j + 1
    BY <2>1 DEF TrimOwed
  <2>4. m >= n - 1
    BY <2>1, TrimmersStep
  <2>5. (OwesTrim(op[c], s, j) => OwesTrim(o, s, j)) => m >= n
    BY <2>1, TrimmersStep, Zenon
  <2>6. OwesTrim(o, s, j) /\ ~OwesTrim(op[c], s, j) => m = n + 1
    BY <2>1, TrimmersStep, Zenon
  <2>7. KeepsTrim(c, o, s, j)
    OBVIOUS
  <2>8. \/ b < j
        \/ b <= a /\ m >= n
        \/ b < a
        \/ b = a + 1 /\ m = n + 1
    BY <2>1, <2>5, <2>6, <2>7, Zenon DEF KeepsTrim
  <2>9. m + crashes >= b - j + 1
    BY <1>1, <2>2, <2>3, <2>4, <2>8
  <2> QED
    BY <2>1, <2>9
<1> QED
  BY <1>2, <1>1 DEF TrimOwed

(* A step of client c to operation o keeps the invariant when it settles   *)
(* what it stops owing.                                                    *)
Settled == ttl \cup torn
LEMMA ClientStep ==
  ASSUME RedisInv, NEW c \in Client, NEW o, OpOK(o), op' = [op EXCEPT ![c] = o],
         crashes' = crashes, lastId' \in Nat,
         meta' = [s \in Session |-> meta'[s]], \A s \in Session : MetaOK(meta'[s]),
         list' \in [Session -> Seq(Entry)],
         \A s \in Session :
            /\ \/ meta'[s] = NoKey \/ <<s, "meta">> \in Settled' \/ OwesMeta(o, s)
               \/ meta[s] # NoKey /\ <<s, "meta">> \notin Settled /\ ~OwesMeta(op[c], s)
            /\ \/ list'[s] = <<>> \/ <<s, "list">> \in Settled' \/ OwesList(o, s)
               \/ list[s] # <<>> /\ <<s, "list">> \notin Settled /\ ~OwesList(op[c], s)
            /\ \A j \in Nat \ {0} : KeepsTrim(c, o, s, j)
  PROVE  RedisInv'
<1>1. op' = [d \in Client |-> op'[d]] /\ op'[c] = o /\ \A d \in Client \ {c} : op'[d] = op[d]
  BY DEF RedisInv, Shape
<1>2. Shape'
  BY <1>1 DEF RedisInv, Shape
<1>3. ASSUME NEW s \in Session PROVE MetaOwed(s)' /\ ListOwed(s)' /\ TrimOwed(s)'
  <2>1. MetaOwed(s) /\ ListOwed(s) /\ TrimOwed(s)
    BY <1>3 DEF RedisInv, Owed
  <2>2. MetaOwed(s)'
    BY <1>1, <2>1 DEF MetaOwed, Settled
  <2>3. ListOwed(s)'
    BY <1>1, <2>1 DEF ListOwed, Settled
  <2>4. TrimOwed(s)'
    BY <1>2, <2>1, StillOwed DEF RedisInv
  <2> QED
    BY <2>2, <2>3, <2>4
<1> QED
  BY <1>2, <1>3 DEF RedisInv, Owed

(* An idle client starts an operation: it owes what it leaves undone. *)
LEMMA OperationBegins ==
  ASSUME RedisInv, NEW c \in Client, NEW o, InProgress(o), Begin(c, o),
         o.pc # "touch_list", UNCHANGED crashes, lastId' \in Nat,
         meta' = [s \in Session |-> meta'[s]], \A s \in Session : MetaOK(meta'[s]),
         list' \in [Session -> Seq(Entry)], ttl' = ttl, torn' = torn,
         \A s \in Session : s # o.session => meta'[s] = meta[s] /\ list'[s] = list[s],
         \/ list'[o.session] = list[o.session]
         \/ o.pc \in {"count", "measure"} /\ Len(list'[o.session]) = Len(list[o.session]) + 1
  PROVE  RedisInv'
<1>1. op[c] = Idle /\ op' = [op EXCEPT ![c] = o] /\ o # Idle /\ OpOK(o)
  BY InProgressNotIdle DEF Begin, OpOK
<1>2. \A s, n : ~OwesMeta(op[c], s) /\ ~OwesList(op[c], s) /\ ~OwesTrim(op[c], s, n)
  BY <1>1 DEF OwesMeta, OwesList, OwesTrim
<1>3. OwesMeta(o, o.session) /\ OwesList(o, o.session)
  BY <1>1 DEF OwesMeta, OwesList
<1>4. ASSUME NEW s \in Session
      PROVE  /\ \/ meta'[s] = NoKey \/ <<s, "meta">> \in Settled' \/ OwesMeta(o, s)
                \/ meta[s] # NoKey /\ <<s, "meta">> \notin Settled /\ ~OwesMeta(op[c], s)
             /\ \/ list'[s] = <<>> \/ <<s, "list">> \in Settled' \/ OwesList(o, s)
                \/ list[s] # <<>> /\ <<s, "list">> \notin Settled /\ ~OwesList(op[c], s)
  BY <1>2, <1>3 DEF Settled
<1>5. ASSUME NEW s \in Session, NEW j \in Nat \ {0}
      PROVE  KeepsTrim(c, o, s, j)
  <2>0. Surplus(s) \in Int /\ Len(list[s]) \in Nat
    BY SurplusIsInt DEF RedisInv
  <2>1. CASE list'[s] = list[s]
    <3>1. Surplus(s)' = Surplus(s)
      BY <2>1 DEF Surplus
    <3> QED
      BY <1>2, <2>0, <3>1 DEF KeepsTrim
  <2>2. CASE /\ s = o.session /\ o.pc \in {"count", "measure"}
             /\ Len(list'[o.session]) = Len(list[o.session]) + 1
    <3>1. Surplus(s)' = Surplus(s) + 1
      BY <2>0, <2>2, RedisAssumption DEF Surplus
    <3>2. OwesTrim(o, s, j)
      BY <1>1, <2>2 DEF OwesTrim
    <3> QED
      BY <1>2, <3>1, <3>2 DEF KeepsTrim
  <2> QED
    BY <2>1, <2>2
<1> QED
  BY <1>1, <1>4, <1>5, ClientStep

(* An operation goes on, to o, without touching list or keys: what it owed *)
(* it still owes or has done.                                              *)
LEMMA OperationGoesOn ==
  ASSUME RedisInv, NEW c \in Client, NEW o, OpOK(o), op[c] # Idle,
         op' = [op EXCEPT ![c] = o], UNCHANGED <<list, crashes, lastId>>,
         meta' = [s \in Session |-> meta'[s]], \A s \in Session : MetaOK(meta'[s]),
         \A s \in Session : s # op[c].session => meta'[s] = meta[s],
         Settled \subseteq Settled',
         o # Idle => o.session = op[c].session,
         \/ op[c].pc # "touch_list" /\ OwesMeta(o, op[c].session)
         \/ /\ meta'[op[c].session] = meta[op[c].session]
            /\ op[c].pc = "touch_list" \/ meta[op[c].session] = NoKey
                  \/ <<op[c].session, "meta">> \in Settled',
         \/ OwesList(o, op[c].session)
         \/ list[op[c].session] = <<>> \/ <<op[c].session, "list">> \in Settled',
         \A j \in Nat \ {0} :
            \/ Surplus(op[c].session) < j
            \/ OwesTrim(op[c], op[c].session, j) => OwesTrim(o, op[c].session, j)
  PROVE  RedisInv'
<1>1. ASSUME NEW s \in Session
      PROVE  /\ \/ meta'[s] = NoKey \/ <<s, "meta">> \in Settled' \/ OwesMeta(o, s)
                \/ meta[s] # NoKey /\ <<s, "meta">> \notin Settled /\ ~OwesMeta(op[c], s)
             /\ \/ list'[s] = <<>> \/ <<s, "list">> \in Settled' \/ OwesList(o, s)
                \/ list[s] # <<>> /\ <<s, "list">> \notin Settled /\ ~OwesList(op[c], s)
  BY DEF OwesMeta, OwesList
<1>2. ASSUME NEW s \in Session, NEW j \in Nat \ {0}
      PROVE  KeepsTrim(c, o, s, j)
  <2>1. Surplus(s)' = Surplus(s) /\ Surplus(s) \in Int
    BY SurplusIsInt DEF Surplus, RedisInv
  <2>2. Surplus(s) < j \/ (OwesTrim(op[c], s, j) => OwesTrim(o, s, j))
    <3>1. CASE s = op[c].session
      BY <3>1
    <3>2. CASE s # op[c].session
      BY <3>2 DEF OwesTrim
    <3> QED
      BY <3>1, <3>2
  <2>3. PICK k, l : k = Surplus(s) /\ l = Surplus(s)'
    OBVIOUS
  <2>4. k \in Int /\ l = k /\ l <= k
    BY <2>1, <2>3
  <2> QED
    BY <2>2, <2>3, <2>4 DEF KeepsTrim
<1> QED
  BY <1>1, <1>2, ClientStep DEF RedisInv, Shape
(* A write to the hash leaves it a hash; only a clarification leaves it    *)
(* bare.                                                                   *)
LEMMA HashWrites ==
  ASSUME NEW m, Fields(m), NEW u, NEW d, NEW q, NEW t,
         NEW h, \/ h = [m EXCEPT !.bare = FALSE, !.user = u, !.digest = <<>>, !.turns = 0]
                \/ h = [m EXCEPT !.bare = FALSE, !.user = u]
                \/ h = [m EXCEPT !.bare = FALSE, !.turns = @ + 1]
                \/ h = [m EXCEPT !.bare = FALSE, !.digest = d]
                \/ Lasting(m) /\ h = [m EXCEPT !.pending = q, !.intent = t]
  PROVE  MetaOK(h) /\ h # NoKey
<1>1. ASSUME h = [m EXCEPT !.pending = q, !.intent = t]
      PROVE  Fields(h) /\ h.bare = m.bare
  <2>1. h \in [key : {"hash"}, bare : {m.bare}, user : {m.user}, digest : {m.digest},
               turns : {m.turns}, pending : {q}, intent : {t}] /\ m.bare \in BOOLEAN
    BY <1>1 DEF Fields
  <2> QED
    BY <2>1 DEF Fields
<1>2. ASSUME h = [m EXCEPT !.bare = FALSE, !.user = u, !.digest = <<>>, !.turns = 0]
      PROVE  Fields(h) /\ h.bare = FALSE
  BY <1>2 DEF Fields
<1>3. ASSUME h = [m EXCEPT !.bare = FALSE, !.user = u]
      PROVE  Fields(h) /\ h.bare = FALSE
  BY <1>3 DEF Fields
<1>4. ASSUME h = [m EXCEPT !.bare = FALSE, !.turns = @ + 1]
      PROVE  Fields(h) /\ h.bare = FALSE
  BY <1>4 DEF Fields
<1>5. ASSUME h = [m EXCEPT !.bare = FALSE, !.digest = d]
      PROVE  Fields(h) /\ h.bare = FALSE
  BY <1>5 DEF Fields
<1>6. Fields(h) /\ Lasting(h)
  BY <1>1, <1>2, <1>3, <1>4, <1>5 DEF Lasting
<1>7. h # NoKey
  BY <1>6 DEF Fields, NoKey
<1> QED
  BY <1>6, <1>7 DEF MetaOK

(* Writing one hash leaves the others. *)
LEMMA OneHashWritten ==
  ASSUME Shape, NEW s \in Session, NEW h, MetaOK(h), meta' = [meta EXCEPT ![s] = h]
  PROVE  /\ meta' = [r \in Session |-> meta'[r]] /\ \A r \in Session : MetaOK(meta'[r])
         /\ meta'[s] = h /\ \A r \in Session : r # s => meta'[r] = meta[r]
BY DEF Shape

(* get begins, and decides by what it has read. *)
LEMMA GetBeginPreserves ==
  ASSUME RedisInv, NEW c \in Client, NEW s \in Session, NEW u \in User \cup {Null},
         GetBegin(c, s, u)
  PROVE  RedisInv'
<1>1. PICK k : /\ k = CASE meta[s] = NoKey -> "create"
                        [] meta[s] # NoKey /\ u # Null /\ meta[s].user = Null -> "set_user"
                        [] OTHER -> "touch_meta"
               /\ Begin(c, [session |-> s, user |-> u, pc |-> k])
  BY Zenon DEF GetBegin
<1>2. k \in {"create", "set_user", "touch_meta"}
  BY <1>1, Zenon
<1>3. PICK o : o = [session |-> s, user |-> u, pc |-> k]
  OBVIOUS
<1>4. Begin(c, o) /\ InProgress(o) /\ o.session = s /\ o.pc # "touch_list"
  BY <1>1, <1>2, <1>3 DEF InProgress, Getting
<1> QED
  BY <1>4, OperationBegins DEF GetBegin, history, RedisInv, Shape

(* RPUSH: the list may get too long, which the operation has yet to measure. *)
LEMMA AppendPushPreserves ==
  ASSUME RedisInv, NEW c \in Client, NEW s \in Session, NEW role \in {"user", "assistant"},
         NEW t \in Content, AppendPush(c, s, role, t)
  PROVE  RedisInv'
<1>1. PICK o : /\ o = [session |-> s, pc |-> IF role = "user" THEN "count" ELSE "measure"]
               /\ Begin(c, o)
  BY DEF AppendPush
<1>2. InProgress(o) /\ o.session = s /\ o.pc # "touch_list" /\ o.pc \in {"count", "measure"}
  BY <1>1 DEF InProgress, Writing
<1>3. PICK e : e = [session |-> s, id |-> lastId + 1, role |-> role, content |-> t]
  OBVIOUS
<1>4. e \in Entry /\ lastId' \in Nat
  BY <1>3 DEF AppendPush, Entry, RedisInv, Shape
<1>5. list' = [list EXCEPT ![s] = Append(@, e)]
  BY <1>3 DEF AppendPush
<1>6. /\ list' \in [Session -> Seq(Entry)] /\ \A r \in Session : r # s => list'[r] = list[r]
      /\ Len(list'[s]) = Len(list[s]) + 1
  BY <1>4, <1>5 DEF RedisInv, Shape
<1>7. UNCHANGED <<meta, ttl, torn, crashes>>
  BY DEF AppendPush
<1> QED
  BY <1>1, <1>2, <1>4, <1>6, <1>7, OperationBegins DEF RedisInv, Shape

(* HSET of question and intent: bare only where the hash had expired. *)
LEMMA SetPendingPreserves ==
  ASSUME RedisInv, NEW c \in Client, NEW s \in Session, NEW q \in Question, NEW t \in Content,
         SetPending(c, s, q, t)
  PROVE  RedisInv'
<1>1. PICK o : Begin(c, o) /\ o = [session |-> s, pc |-> "touch_meta"]
  BY DEF SetPending
<1>2. InProgress(o) /\ o.session = s /\ o.pc # "touch_list"
  BY <1>1 DEF InProgress, Writing
<1>3. PICK h : h = [Hash(s) EXCEPT !.pending = q, !.intent = t]
  OBVIOUS
<1>4. meta' = [meta EXCEPT ![s] = h] /\ UNCHANGED <<list, ttl, torn, crashes, lastId>>
  BY <1>3 DEF SetPending, history
<1>5. MetaOK(h)
  <2>1. PICK m : m = Hash(s)
    OBVIOUS
  <2>2. Fields(m) /\ Lasting(m)
    BY <2>1, HashOK DEF RedisInv, SetPending
  <2>3. h = [m EXCEPT !.pending = q, !.intent = t]
    BY <1>3, <2>1
  <2> QED
    BY <2>2, <2>3, HashWrites, Zenon
<1>6. /\ meta' = [r \in Session |-> meta'[r]] /\ \A r \in Session : MetaOK(meta'[r])
      /\ \A r \in Session : r # s => meta'[r] = meta[r]
  <2>1. Shape /\ meta' = [meta EXCEPT ![s] = h]
    BY <1>4 DEF RedisInv
  <2> QED
    BY <1>5, <2>1, OneHashWritten
<1> QED
  BY <1>1, <1>2, <1>4, <1>6, OperationBegins DEF RedisInv, Shape

(* HDEL of both fields, and no touch: nothing is created. *)
LEMMA ClearPendingPreserves ==
  ASSUME RedisInv, NEW c \in Client, NEW s \in Session, ClearPending(c, s)
  PROVE  RedisInv'
<1>1. UNCHANGED <<list, op, crashes, torn, lastId>>
  BY DEF ClearPending, history
<1>2. PICK h : h = IF Hash(s).bare THEN NoKey
                   ELSE [Hash(s) EXCEPT !.pending = Null, !.intent = Null]
  OBVIOUS
<1>3. MetaOK(h) /\ (meta[s] = NoKey => h = NoKey)
  <2>1. CASE Hash(s).bare
    BY <1>2, <2>1 DEF MetaOK
  <2>2. CASE ~Hash(s).bare
    <3>1. PICK m : m = Hash(s)
      OBVIOUS
    <3>2. Fields(m) /\ Lasting(m) /\ meta[s] # NoKey
      BY <2>2, <3>1, HashOK DEF RedisInv, ClearPending, Hash, DefaultMeta
    <3>3. h = [m EXCEPT !.pending = Null, !.intent = Null]
      BY <1>2, <2>2, <3>1
    <3> QED
      BY <3>2, <3>3, HashWrites, Zenon
  <2> QED
    BY <2>1, <2>2
<1>4. meta' = [meta EXCEPT ![s] = h]
  BY <1>2 DEF ClearPending
<1>5. /\ meta' = [r \in Session |-> meta'[r]] /\ \A r \in Session : MetaOK(meta'[r])
      /\ meta'[s] = h /\ \A r \in Session : r # s => meta'[r] = meta[r]
  BY <1>3, <1>4, OneHashWritten DEF RedisInv
<1>6. Shape'
  BY <1>1, <1>5 DEF RedisInv, Shape
<1>7. ttl' = IF Hash(s).bare THEN ttl \ {<<s, "meta">>} ELSE ttl
  BY DEF ClearPending
<1>8. ASSUME NEW r \in Session PROVE MetaOwed(r)' /\ ListOwed(r)' /\ TrimOwed(r)'
  <2>1. MetaOwed(r) /\ ListOwed(r) /\ TrimOwed(r)
    BY <1>8 DEF RedisInv, Owed
  <2>2. MetaOwed(r)'
    <3>1. CASE r # s
      BY <1>1, <1>5, <1>7, <2>1, <3>1 DEF MetaOwed
    <3>2. CASE r = s /\ Hash(s).bare
      BY <1>2, <1>5, <3>2 DEF MetaOwed
    <3>3. CASE r = s /\ ~Hash(s).bare
      BY <1>1, <1>3, <1>5, <1>7, <2>1, <3>3 DEF MetaOwed
    <3> QED
      BY <3>1, <3>2, <3>3
  <2>3. ListOwed(r)'
    BY <1>1, <1>7, <2>1 DEF ListOwed
  <2>4. TrimOwed(r)'
    BY <1>1, <2>1 DEF TrimOwed, Trimmers, Surplus
  <2> QED
    BY <2>2, <2>3, <2>4
<1> QED
  BY <1>6, <1>8 DEF RedisInv, Owed

(* What an operation at a command of get or append, or of _touch, is like. *)
LEMMA AtCommand ==
  ASSUME RedisInv, NEW c \in Client, op[c] # Idle
  PROVE  /\ InProgress(op[c]) /\ op[c].session \in Session
         /\ \A pc : At(c, pc) <=> op[c].pc = pc
BY DEF RedisInv, Shape, OpOK, At, InProgress, Getting, Writing, Reading, Folding, Trimming

(* Going to another command leaves the rest of the operation as it is. *)
LEMMA GoesTo ==
  ASSUME NEW o, InProgress(o), NEW pc, NEW p, p = [o EXCEPT !.pc = pc],
         \/ Getting(o) /\ pc \in {"touch_meta", "touch_list"}
         \/ Writing(o) /\ pc \in {"measure", "touch_meta", "touch_list"}
         \/ Trimming(o) /\ pc \in {"trim", "touch_meta", "touch_list"}
  PROVE  /\ InProgress(p) /\ p.session = o.session /\ p.pc = pc /\ p # Idle
         /\ Trimming(o) => p.surplus = o.surplus
<1>1. CASE Getting(o)
  BY <1>1 DEF InProgress, Getting, Writing, Trimming, Idle
<1>2. CASE Writing(o)
  BY <1>2 DEF InProgress, Getting, Writing, Trimming, Idle
<1>3. CASE Trimming(o)
  BY <1>3 DEF InProgress, Getting, Writing, Trimming, Idle
<1> QED
  BY <1>1, <1>2, <1>3
(* The place an operation is at tells what it is and what it has measured. *)
LEMMA PlaceTells ==
  ASSUME NEW o, InProgress(o)
  PROVE  /\ o.pc \in {"create", "set_user"} => Getting(o)
         /\ o.pc \in {"count", "measure"} => Writing(o)
         /\ o.pc = "read_out" => Reading(o)
         /\ o.pc = "read_digest" => Folding(o)
         /\ o.pc \in {"write_digest", "trim"} => Trimming(o)
BY DEF InProgress, Getting, Writing, Reading, Folding, Trimming

(* A command that writes the hash and goes on: the expiry of the hash it   *)
(* may have created is still to come.                                      *)
LEMMA HashCommand ==
  ASSUME RedisInv, NEW c \in Client, NEW pc, NEW h, MetaOK(h), op[c] # Idle,
         \/ op[c].pc \in {"create", "set_user"} /\ pc = "touch_meta"
         \/ op[c].pc = "count" /\ pc = "measure"
         \/ op[c].pc = "write_digest" /\ pc = "trim",
         op' = [op EXCEPT ![c].pc = pc], meta' = [meta EXCEPT ![op[c].session] = h],
         UNCHANGED <<list, ttl, torn, crashes, lastId>>
  PROVE  RedisInv'
<1>1. PICK p : p = [op[c] EXCEPT !.pc = pc]
  OBVIOUS
<1>2. InProgress(op[c]) /\ op[c].session \in Session
  BY <1>1, AtCommand
<1>3. InProgress(p) /\ p.session = op[c].session /\ p.pc = pc /\ p # Idle
      /\ (Trimming(op[c]) => p.surplus = op[c].surplus)
  BY <1>1, <1>2, PlaceTells, GoesTo
<1>4. op' = [op EXCEPT ![c] = p]
  BY <1>1
<1>5. /\ meta' = [r \in Session |-> meta'[r]] /\ \A r \in Session : MetaOK(meta'[r])
      /\ \A r \in Session : r # op[c].session => meta'[r] = meta[r]
  BY <1>1, <1>2, OneHashWritten DEF RedisInv
<1>6. OwesMeta(p, op[c].session) /\ OwesList(p, op[c].session) /\ op[c].pc # "touch_list"
  BY <1>1, <1>3 DEF OwesMeta, OwesList
<1>7. \A j \in Nat \ {0} : OwesTrim(op[c], op[c].session, j) => OwesTrim(p, op[c].session, j)
  BY <1>1, <1>2, <1>3, PlaceTells DEF OwesTrim
<1> QED
  BY <1>3, <1>4, <1>5, <1>6, <1>7, OperationGoesOn DEF OpOK, Settled
(* HSET by get: a new hash, or its first user. *)
LEMMA GetWritesPreserve ==
  ASSUME RedisInv, NEW c \in Client, GetCreate(c) \/ GetSetUser(c)
  PROVE  RedisInv'
<1>1. op[c] # Idle /\ op[c].session \in Session /\ op[c].pc \in {"create", "set_user"}
  BY AtCommand DEF GetCreate, GetSetUser, At
<1>2. PICK h : /\ meta' = [meta EXCEPT ![op[c].session] = h]
               /\ \/ h = [Hash(op[c].session) EXCEPT !.bare = FALSE, !.user = op[c].user,
                                                     !.digest = <<>>, !.turns = 0]
                  \/ h = [Hash(op[c].session) EXCEPT !.bare = FALSE, !.user = op[c].user]
  BY DEF GetCreate, GetSetUser
<1>3. MetaOK(h)
  BY <1>1, <1>2, HashOK, HashWrites, Zenon DEF RedisInv
<1> QED
  BY <1>1, <1>2, <1>3, HashCommand DEF GetCreate, GetSetUser, Goto, history

(* HINCRBY and HSET by append: the hash may have expired before them. *)
LEMMA AppendWritesPreserve ==
  ASSUME RedisInv, NEW c \in Client, AppendCount(c) \/ AppendWriteDigest(c)
  PROVE  RedisInv'
<1>1. op[c] # Idle /\ op[c].session \in Session
  BY AtCommand DEF AppendCount, AppendWriteDigest, At
<1>2. PICK h : /\ meta' = [meta EXCEPT ![op[c].session] = h]
               /\ \/ h = [Hash(op[c].session) EXCEPT !.bare = FALSE, !.turns = @ + 1]
                  \/ h = [Hash(op[c].session) EXCEPT !.bare = FALSE, !.digest = op[c].digest]
  BY DEF AppendCount, AppendWriteDigest
<1>3. MetaOK(h)
  BY <1>1, <1>2, HashOK, HashWrites, Zenon DEF RedisInv
<1> QED
  BY <1>1, <1>2, <1>3, HashCommand DEF AppendCount, AppendWriteDigest, At, Goto, history

(* A command that only reads, and goes on to p with what it has seen. *)
LEMMA ReadCommand ==
  ASSUME RedisInv, NEW c \in Client, NEW p, InProgress(p), op' = [op EXCEPT ![c] = p],
         op[c] # Idle, op[c].pc # "touch_list", p.pc # "touch_list",
         p.session = op[c].session, UNCHANGED <<meta, list, ttl, torn, crashes, lastId>>,
         \/ Surplus(p.session) <= 0
         \/ /\ p.pc \in {"read_out", "read_digest", "write_digest"}
            /\ op[c].pc = "measure" \/ p.surplus = op[c].surplus
            /\ op[c].pc = "measure" => p.surplus = Surplus(p.session)
            /\ op[c].pc \in {"measure", "read_out", "read_digest"}
  PROVE  RedisInv'
<1>1. InProgress(op[c]) /\ op[c].session \in Session /\ p # Idle
  BY AtCommand, InProgressNotIdle
<1>2. OwesMeta(p, op[c].session) /\ OwesList(p, op[c].session)
  BY <1>1 DEF OwesMeta, OwesList
<1>3. ASSUME NEW j \in Nat \ {0}
      PROVE  \/ Surplus(op[c].session) < j
             \/ OwesTrim(op[c], op[c].session, j) => OwesTrim(p, op[c].session, j)
  <2>1. PICK k : k = Surplus(op[c].session)
    OBVIOUS
  <2>2. k \in Int
    BY <1>1, <2>1, SurplusIsInt DEF RedisInv
  <2>3. CASE op[c].pc = "measure" /\ k > 0
    <3>1. p.pc \in {"read_out", "read_digest", "write_digest"} /\ p.surplus = k
      BY <1>1, <2>1, <2>2, <2>3
    <3> QED
      BY <1>1, <2>1, <2>2, <3>1 DEF OwesTrim
  <2>4. CASE ~(k > 0)
    BY <2>1, <2>2, <2>4
  <2>5. CASE op[c].pc # "measure" /\ k > 0
    <3>1. /\ p.pc \in {"read_out", "read_digest", "write_digest"} /\ p.surplus = op[c].surplus
          /\ op[c].pc \in {"read_out", "read_digest"}
      BY <1>1, <2>1, <2>2, <2>5
    <3> QED
      BY <1>1, <3>1 DEF OwesTrim
  <2> QED
    BY <2>2, <2>3, <2>4, <2>5
<1>4. meta' = [s \in Session |-> meta'[s]] /\ \A s \in Session : MetaOK(meta'[s])
  BY DEF RedisInv, Shape
<1> QED
  BY <1>2, <1>3, <1>4, OperationGoesOn DEF OpOK, Settled

(* LLEN, LRANGE and HGET of append. *)
LEMMA AppendReadsPreserve ==
  ASSUME RedisInv, NEW c \in Client,
         AppendMeasure(c) \/ AppendReadOut(c) \/ AppendReadDigest(c)
  PROVE  RedisInv'
<1>1. /\ op[c] # Idle /\ InProgress(op[c]) /\ op[c].session \in Session
      /\ UNCHANGED <<meta, list, ttl, torn, crashes, lastId>>
  BY AtCommand DEF AppendMeasure, AppendReadOut, AppendReadDigest, At, history
<1>2. Surplus(op[c].session) \in Int
  BY <1>1, SurplusIsInt DEF RedisInv
<1>3. CASE AppendMeasure(c) /\ Surplus(op[c].session) > 0
  <2>1. PICK p : p = [session |-> op[c].session, pc |-> "read_out",
                      surplus |-> Surplus(op[c].session)]
    OBVIOUS
  <2>2. op' = [op EXCEPT ![c] = p] /\ op[c].pc = "measure"
    BY <1>3, <2>1 DEF AppendMeasure, At
  <2>3. InProgress(p) /\ p.session = op[c].session /\ p.pc = "read_out"
        /\ p.surplus = Surplus(op[c].session)
    BY <1>1, <1>2, <1>3, <2>1 DEF InProgress, Reading
  <2> QED
    BY <1>1, <2>2, <2>3, ReadCommand
<1>4. CASE AppendMeasure(c) /\ ~(Surplus(op[c].session) > 0)
  <2>1. PICK p : p = [op[c] EXCEPT !.pc = "touch_meta"]
    OBVIOUS
  <2>2. op' = [op EXCEPT ![c] = p] /\ op[c].pc = "measure"
    BY <1>4, <2>1 DEF AppendMeasure, At
  <2>3. InProgress(p) /\ p.session = op[c].session /\ p.pc = "touch_meta"
    BY <1>1, <2>1, <2>2, PlaceTells, GoesTo
  <2>4. Surplus(p.session) <= 0 /\ p.pc # "touch_list" /\ op[c].pc # "touch_list"
    BY <1>2, <1>4, <2>2, <2>3
  <2> QED
    BY <1>1, <2>2, <2>3, <2>4, ReadCommand
<1>5. CASE AppendReadOut(c)
  <2>1. PICK out : op' = [op EXCEPT ![c] =
                            [session |-> op[c].session, pc |-> "read_digest",
                             surplus |-> op[c].surplus, out |-> out]]
    BY <1>5 DEF AppendReadOut
  <2>2. PICK p : p = [session |-> op[c].session, pc |-> "read_digest",
                      surplus |-> op[c].surplus, out |-> out]
    OBVIOUS
  <2>3. op[c].pc = "read_out" /\ op[c].surplus \in Nat
    BY <1>1, <1>5, PlaceTells DEF AppendReadOut, At, Reading
  <2>4. InProgress(p) /\ p.session = op[c].session /\ p.pc = "read_digest"
        /\ p.surplus = op[c].surplus
    BY <1>1, <2>2, <2>3 DEF InProgress, Folding
  <2> QED
    BY <1>1, <2>1, <2>2, <2>3, <2>4, ReadCommand
<1>6. CASE AppendReadDigest(c)
  <2>1. PICK d : op' = [op EXCEPT ![c] =
                          [session |-> op[c].session, pc |-> "write_digest",
                           surplus |-> op[c].surplus, digest |-> d]]
    BY <1>6 DEF AppendReadDigest
  <2>2. PICK p : p = [session |-> op[c].session, pc |-> "write_digest",
                      surplus |-> op[c].surplus, digest |-> d]
    OBVIOUS
  <2>3. op[c].pc = "read_digest" /\ op[c].surplus \in Nat
    BY <1>1, <1>6, PlaceTells DEF AppendReadDigest, At, Folding
  <2>4. InProgress(p) /\ p.session = op[c].session /\ p.pc = "write_digest"
        /\ p.surplus = op[c].surplus
    BY <1>1, <2>2, <2>3 DEF InProgress, Trimming
  <2> QED
    BY <1>1, <2>1, <2>2, <2>3, <2>4, ReadCommand
<1> QED
  BY <1>3, <1>4, <1>5, <1>6
(* EXPIRE of the hash, then of the list: what was owed is done. *)
LEMMA TouchPreserves ==
  ASSUME RedisInv, NEW c \in Client, TouchMeta(c) \/ TouchList(c)
  PROVE  RedisInv'
<1>1. /\ op[c] # Idle /\ InProgress(op[c]) /\ op[c].session \in Session
      /\ UNCHANGED <<meta, list, crashes, lastId>>
  BY AtCommand DEF TouchMeta, TouchList, At, history
<1>2. \A j : ~OwesTrim(op[c], op[c].session, j)
  BY <1>1 DEF TouchMeta, TouchList, At, OwesTrim
<1>3. /\ meta' = [s \in Session |-> meta'[s]] /\ \A s \in Session : MetaOK(meta'[s])
      /\ Settled \subseteq Settled'
  BY <1>1 DEF RedisInv, Shape, TouchMeta, TouchList, Settled
<1>4. CASE TouchMeta(c)
  <2>1. PICK p : p = [op[c] EXCEPT !.pc = "touch_list"]
    OBVIOUS
  <2>2. op' = [op EXCEPT ![c] = p] /\ op[c].pc = "touch_meta"
        /\ (meta[op[c].session] = NoKey \/ <<op[c].session, "meta">> \in Settled')
    BY <1>4, <2>1 DEF TouchMeta, At, Goto, Settled
  <2>3. InProgress(p) /\ p.session = op[c].session /\ p # Idle
    <3>1. Getting(op[c]) \/ Writing(op[c]) \/ Trimming(op[c])
      BY <1>1, <2>2 DEF InProgress, Reading, Folding
    <3> QED
      BY <1>1, <2>1, <3>1, GoesTo
  <2>4. OwesList(p, op[c].session)
    BY <2>3 DEF OwesList
  <2> QED
    BY <1>1, <1>2, <1>3, <2>2, <2>3, <2>4, OperationGoesOn DEF OpOK
<1>5. CASE TouchList(c)
  <2>1. op' = [op EXCEPT ![c] = Idle] /\ op[c].pc = "touch_list"
        /\ (list[op[c].session] = <<>> \/ <<op[c].session, "list">> \in Settled')
    BY <1>5 DEF TouchList, At, Settled
  <2>2. OpOK(Idle)
    BY DEF OpOK
  <2> QED
    BY <1>1, <1>2, <1>3, <2>1, <2>2, OperationGoesOn
<1> QED
  BY <1>4, <1>5

(* LTRIM by what was measured: the list may have grown since, but whoever  *)
(* let it grow has yet to measure it.                                      *)
LEMMA TrimPreserves ==
  ASSUME RedisInv, NEW c \in Client, AppendTrim(c)
  PROVE  RedisInv'
<1>1. /\ op[c] # Idle /\ InProgress(op[c]) /\ op[c].session \in Session /\ op[c].pc = "trim"
      /\ UNCHANGED <<meta, torn, crashes, lastId>>
  BY AtCommand DEF AppendTrim, At
<1>2. op[c].surplus \in Nat
  BY <1>1, PlaceTells DEF Trimming
<1>3. PICK p, s, n : /\ p = [op[c] EXCEPT !.pc = "touch_meta"] /\ s = op[c].session
                     /\ n = IF op[c].surplus <= Len(list[s]) THEN op[c].surplus ELSE Len(list[s])
  OBVIOUS
<1>4. InProgress(p) /\ p.session = s /\ p.pc = "touch_meta" /\ p # Idle
  BY <1>1, <1>3, PlaceTells, GoesTo
<1>5. /\ op' = [op EXCEPT ![c] = p]
      /\ list' = [list EXCEPT ![s] = SubSeq(@, n + 1, Len(@))]
      /\ ttl' = IF n = Len(list[s]) THEN ttl \ {<<s, "list">>} ELSE ttl
  BY <1>3 DEF AppendTrim, Goto
<1>6. /\ list[s] \in Seq(Entry) /\ Len(list[s]) \in Nat /\ n \in 0 .. Len(list[s])
  BY <1>1, <1>2, <1>3, SurplusIsInt DEF RedisInv, Shape
<1>7. SubSeq(list[s], n + 1, Len(list[s])) \in Seq(Entry)
      /\ Len(SubSeq(list[s], n + 1, Len(list[s]))) = Len(list[s]) - n
  BY <1>6, SubSeqProperties
<1>8. /\ list' \in [Session -> Seq(Entry)] /\ \A r \in Session : r # s => list'[r] = list[r]
      /\ Len(list'[s]) = Len(list[s]) - n
  BY <1>1, <1>3, <1>5, <1>7 DEF RedisInv, Shape
<1>9. OwesMeta(p, s) /\ OwesList(p, s)
  BY <1>4 DEF OwesMeta, OwesList
<1>10. ASSUME NEW r \in Session
       PROVE  /\ \/ meta'[r] = NoKey \/ <<r, "meta">> \in Settled' \/ OwesMeta(p, r)
                 \/ meta[r] # NoKey /\ <<r, "meta">> \notin Settled /\ ~OwesMeta(op[c], r)
              /\ \/ list'[r] = <<>> \/ <<r, "list">> \in Settled' \/ OwesList(p, r)
                 \/ list[r] # <<>> /\ <<r, "list">> \notin Settled /\ ~OwesList(op[c], r)
  BY <1>1, <1>3, <1>5, <1>8, <1>9 DEF OwesMeta, OwesList, Settled
<1>11. ASSUME NEW r \in Session, NEW j \in Nat \ {0}
       PROVE  KeepsTrim(c, p, r, j)
  <2>1. CASE r # s
    <3>1. Surplus(r)' = Surplus(r) /\ Surplus(r) \in Int
      BY <1>8, <2>1, SurplusIsInt DEF Surplus, RedisInv
    <3>2. ~OwesTrim(op[c], r, j)
      BY <1>3, <2>1 DEF OwesTrim
    <3>3. PICK k, l : k = Surplus(r) /\ l = Surplus(r)'
      OBVIOUS
    <3>4. l <= k
      BY <3>1, <3>3
    <3> QED
      BY <3>2, <3>3, <3>4 DEF KeepsTrim
  <2>2. CASE r = s
    <3>1. Surplus(s)' = Surplus(s) - n /\ Surplus(s) = Len(list[s]) - Window
      BY <1>6, <1>8, RedisAssumption DEF Surplus
    <3>2. PICK k, l : k = Surplus(s) /\ l = Surplus(s)'
      OBVIOUS
    <3>3. k \in Int /\ l = k - n /\ k = Len(list[s]) - Window
      BY <1>6, <3>1, <3>2, RedisAssumption
    <3>4. CASE n > 0
      BY <1>6, <2>2, <3>2, <3>3, <3>4 DEF KeepsTrim
    <3>5. CASE n = 0 /\ Len(list[s]) = 0
      BY <2>2, <3>2, <3>3, <3>5, RedisAssumption DEF KeepsTrim
    <3>6. CASE n = 0 /\ Len(list[s]) # 0
      <4>1. op[c].surplus = 0
        BY <1>2, <1>3, <1>6, <3>6
      <4>2. ~OwesTrim(op[c], s, j)
        BY <1>1, <4>1 DEF OwesTrim
      <4> QED
        BY <2>2, <3>2, <3>3, <3>6, <4>2 DEF KeepsTrim
    <3> QED
      BY <1>6, <3>4, <3>5, <3>6
  <2> QED
    BY <2>1, <2>2
<1>12. /\ meta' = [r \in Session |-> meta'[r]] /\ \A r \in Session : MetaOK(meta'[r])
       /\ lastId' \in Nat /\ OpOK(p)
  BY <1>1, <1>4 DEF RedisInv, Shape, OpOK
<1> QED
  BY <1>1, <1>5, <1>8, <1>10, <1>11, <1>12, ClientStep
(* An expired hash takes nothing along that is owed to another key. *)
LEMMA ExpireMetaPreserves ==
  ASSUME RedisInv, NEW s \in Session, ExpireMeta(s)
  PROVE  RedisInv'
<1>1. /\ UNCHANGED <<list, op, crashes, torn, lastId>>
      /\ meta' = [meta EXCEPT ![s] = NoKey] /\ ttl' = ttl \ {<<s, "meta">>}
  BY DEF ExpireMeta
<1>2. Shape' /\ meta'[s] = NoKey /\ \A r \in Session : r # s => meta'[r] = meta[r]
  BY <1>1 DEF RedisInv, Shape, MetaOK
<1>3. ASSUME NEW r \in Session PROVE MetaOwed(r)' /\ ListOwed(r)' /\ TrimOwed(r)'
  <2>1. MetaOwed(r) /\ ListOwed(r) /\ TrimOwed(r)
    BY <1>3 DEF RedisInv, Owed
  <2>2. /\ r # s => (<<r, "meta">> \in ttl' <=> <<r, "meta">> \in ttl)
        /\ <<r, "list">> \in ttl' <=> <<r, "list">> \in ttl
    BY <1>1
  <2> QED
    BY <1>1, <1>2, <2>1, <2>2 DEF MetaOwed, ListOwed, TrimOwed, Trimmers, Surplus
<1> QED
  BY <1>1, <1>2, <1>3 DEF RedisInv, Owed

(* An expired list is short, and a later push owes its expiry anew. *)
LEMMA ExpireListPreserves ==
  ASSUME RedisInv, NEW s \in Session, ExpireList(s)
  PROVE  RedisInv'
<1>1. /\ UNCHANGED <<meta, op, crashes, torn, lastId>>
      /\ list' = [list EXCEPT ![s] = <<>>] /\ ttl' = ttl \ {<<s, "list">>}
  BY DEF ExpireList, history
<1>2. Shape' /\ list'[s] = <<>> /\ \A r \in Session : r # s => list'[r] = list[r]
  BY <1>1 DEF RedisInv, Shape
<1>3. ASSUME NEW r \in Session PROVE MetaOwed(r)' /\ ListOwed(r)' /\ TrimOwed(r)'
  <2>1. MetaOwed(r) /\ ListOwed(r) /\ TrimOwed(r)
    BY <1>3 DEF RedisInv, Owed
  <2>2. /\ <<r, "meta">> \in ttl' <=> <<r, "meta">> \in ttl
        /\ r # s => (<<r, "list">> \in ttl' <=> <<r, "list">> \in ttl)
    BY <1>1
  <2>3. MetaOwed(r)' /\ ListOwed(r)'
    BY <1>1, <1>2, <2>1, <2>2 DEF MetaOwed, ListOwed
  <2>4. TrimOwed(r)'
    <3>1. CASE r # s
      BY <1>1, <1>2, <2>1, <3>1 DEF TrimOwed, Trimmers, Surplus
    <3>2. CASE r = s
      <4>1. Surplus(s)' <= 0 /\ Surplus(s)' \in Int /\ crashes' \in Nat
        BY <1>1, <1>2, RedisAssumption DEF Surplus, RedisInv, Shape
      <4>2. ASSUME NEW j \in Nat \ {0}
            PROVE  Cardinality(Trimmers(s, j)') + crashes' >= Surplus(s)' - j + 1
        <5>1. Trimmers(s, j)' = Trimmers(s, j)
          BY <1>1 DEF Trimmers
        <5>2. Cardinality(Trimmers(s, j)') \in Nat
          BY <5>1, TrimmersCounted
        <5> QED
          BY <4>1, <5>2
      <4> QED
        BY <3>2, <4>2 DEF TrimOwed
    <3> QED
      BY <3>1, <3>2
  <2> QED
    BY <2>3, <2>4
<1> QED
  BY <1>1, <1>2, <1>3 DEF RedisInv, Owed

(* An instance that dies leaves what it owed undone: the keys without an   *)
(* expiry are torn, and one message more may stay beyond the window.       *)
LEMMA CrashPreserves ==
  ASSUME RedisInv, NEW c \in Client, Crash(c)
  PROVE  RedisInv'
<1>1. UNCHANGED <<meta, list, ttl, lastId>> /\ crashes' = crashes + 1
      /\ op' = [op EXCEPT ![c] = Idle]
      /\ torn' = torn \cup ({<<op[c].session, "meta">>, <<op[c].session, "list">>}
                                \cap (Keys \ ttl))
  BY DEF Crash
<1>2. /\ op' = [d \in Client |-> op'[d]] /\ OpOK(Idle)
      /\ \A d \in Client : op'[d] = IF d = c THEN Idle ELSE op[d]
  BY <1>1 DEF RedisInv, Shape, OpOK
<1>3. Shape'
  BY <1>1, <1>2 DEF RedisInv, Shape
<1>4. ASSUME NEW s \in Session PROVE MetaOwed(s)' /\ ListOwed(s)' /\ TrimOwed(s)'
  <2>1. MetaOwed(s) /\ ListOwed(s) /\ TrimOwed(s)
    BY <1>4 DEF RedisInv, Owed
  <2>2. /\ meta[s] # NoKey => <<s, "meta">> \in Keys
        /\ list[s] # <<>> => <<s, "list">> \in Keys
    BY DEF Keys
  <2>3. MetaOwed(s)'
    BY <1>1, <1>2, <2>1, <2>2 DEF MetaOwed, OwesMeta
  <2>4. ListOwed(s)'
    BY <1>1, <1>2, <2>1, <2>2 DEF ListOwed, OwesList
  <2>5. ASSUME NEW j \in Nat \ {0}
        PROVE  Cardinality(Trimmers(s, j)') + crashes' >= Surplus(s)' - j + 1
    <3>1. Surplus(s)' = Surplus(s) /\ Surplus(s) \in Int /\ crashes \in Nat
      BY <1>1, SurplusIsInt DEF Surplus, RedisInv, Shape
    <3>2. PICK n, m : n = Cardinality(Trimmers(s, j)) /\ m = Cardinality(Trimmers(s, j)')
      OBVIOUS
    <3>3. n \in Nat /\ m \in Nat /\ m >= n - 1
      <4>1. Shape /\ op' = [op EXCEPT ![c] = Idle]
        BY <1>1 DEF RedisInv
      <4> QED
        BY <3>2, <4>1, TrimmersStep
    <3>4. n + crashes >= Surplus(s) - j + 1
      BY <2>1, <3>2 DEF TrimOwed
    <3>5. m + (crashes + 1) >= Surplus(s) - j + 1
      BY <3>1, <3>3, <3>4
    <3> QED
      BY <1>1, <3>1, <3>2, <3>5
  <2> QED
    BY <2>3, <2>4, <2>5 DEF TrimOwed
<1> QED
  BY <1>3, <1>4 DEF RedisInv, Owed

LEMMA RedisInitInv == RedisInit => RedisInv
<1> SUFFICES ASSUME RedisInit PROVE RedisInv
  OBVIOUS
<1>1. Shape
  BY DEF RedisInit, Shape, MetaOK, OpOK
<1>2. ASSUME NEW s \in Session PROVE MetaOwed(s) /\ ListOwed(s) /\ TrimOwed(s)
  <2>1. MetaOwed(s) /\ ListOwed(s)
    BY DEF RedisInit, MetaOwed, ListOwed
  <2>2. Surplus(s) \in Int /\ Surplus(s) <= 0 /\ crashes = 0
    BY RedisAssumption DEF RedisInit, Surplus
  <2>3. ASSUME NEW j \in Nat \ {0}
        PROVE  Cardinality(Trimmers(s, j)) + crashes >= Surplus(s) - j + 1
    BY <2>2, TrimmersCounted
  <2> QED
    BY <2>1, <2>3 DEF TrimOwed
<1> QED
  BY <1>1, <1>2 DEF RedisInv, Owed

LEMMA RedisNextInv == RedisInv /\ [RedisNext]_redisVars => RedisInv'
<1> SUFFICES ASSUME RedisInv, [RedisNext]_redisVars PROVE RedisInv'
  OBVIOUS
<1>1. ASSUME NEW c \in Client, NEW s \in Session, NEW u \in User \cup {Null}, GetBegin(c, s, u)
      PROVE  RedisInv'
  BY <1>1, GetBeginPreserves
<1>2. ASSUME NEW c \in Client, NEW s \in Session, NEW role \in {"user", "assistant"},
             NEW t \in Content, AppendPush(c, s, role, t)
      PROVE  RedisInv'
  BY <1>2, AppendPushPreserves
<1>3. ASSUME NEW c \in Client, NEW s \in Session, NEW q \in Question, NEW t \in Content,
             SetPending(c, s, q, t)
      PROVE  RedisInv'
  BY <1>3, SetPendingPreserves
<1>4. ASSUME NEW c \in Client, NEW s \in Session, ClearPending(c, s)
      PROVE  RedisInv'
  BY <1>4, ClearPendingPreserves
<1>5. ASSUME NEW c \in Client, GetCreate(c) \/ GetSetUser(c)
      PROVE  RedisInv'
  BY <1>5, GetWritesPreserve
<1>6. ASSUME NEW c \in Client, AppendContinues(c)
      PROVE  RedisInv'
  BY <1>6, AppendWritesPreserve, AppendReadsPreserve, TrimPreserves DEF AppendContinues
<1>7. ASSUME NEW c \in Client, TouchMeta(c) \/ TouchList(c)
      PROVE  RedisInv'
  BY <1>7, TouchPreserves
<1>8. ASSUME NEW c \in Client, Crash(c)
      PROVE  RedisInv'
  BY <1>8, CrashPreserves
<1>9. ASSUME NEW s \in Session, ExpireMeta(s) \/ ExpireList(s)
      PROVE  RedisInv'
  BY <1>9, ExpireMetaPreserves, ExpireListPreserves
<1>10. CASE UNCHANGED redisVars
  <2>1. UNCHANGED <<meta, list, ttl, op, crashes, torn, lastId>>
    BY <1>10 DEF redisVars
  <2>2. Shape'
    BY <2>1 DEF RedisInv, Shape
  <2>3. Owed => Owed'
    BY <2>1 DEF Owed, MetaOwed, ListOwed, TrimOwed, Trimmers, Surplus
  <2> QED
    BY <2>1, <2>2, <2>3 DEF RedisInv
<1> QED
  BY <1>1, <1>2, <1>3, <1>4, <1>5, <1>6, <1>7, <1>8, <1>9, <1>10 DEF RedisNext

LEMMA RedisInvariant == RedisSpec => []RedisInv
BY RedisInitInv, RedisNextInv, PTL DEF RedisSpec

(* A client that is not busy owes nothing. *)
LEMMA NothingOwedAtRest ==
  ASSUME Busy = {}, NEW c \in Client
  PROVE  \A s, n : ~OwesMeta(op[c], s) /\ ~OwesList(op[c], s) /\ ~OwesTrim(op[c], s, n)
BY DEF Busy, OwesMeta, OwesList, OwesTrim
------------------------------------------------------------------------------
(* Types.  The keys that can have an expiry are those that exist, and what *)
(* a command will write is of the type of what it writes to.               *)
OpTyped(o) ==
    /\ o.pc \in {"create", "set_user"} => o.user \in User \cup {Null}
    /\ o.pc = "read_digest" => o.out \in Seq(Entry)
    /\ o.pc = "write_digest" => o.digest \in Seq(Topic)

Typed ==
    /\ meta \in [Session -> {NoKey} \cup Meta]
    /\ ttl \subseteq Keys
    /\ evicted \in [Session -> SUBSET Entry]
    /\ topics \in [Session -> Seq(Topic)]
    /\ \A c \in Client : OpTyped(op[c])

(* The hash that a command finds or creates is typed, and stays so. *)
LEMMA HashIsTyped ==
  ASSUME Typed, NEW s \in Session
  PROVE  /\ Hash(s) \in Meta
         /\ \A u \in User \cup {Null} :
               /\ [Hash(s) EXCEPT !.bare = FALSE, !.user = u, !.digest = <<>>, !.turns = 0] \in Meta
               /\ [Hash(s) EXCEPT !.bare = FALSE, !.user = u] \in Meta
         /\ [Hash(s) EXCEPT !.bare = FALSE, !.turns = @ + 1] \in Meta
         /\ \A d \in Seq(Topic) : [Hash(s) EXCEPT !.bare = FALSE, !.digest = d] \in Meta
         /\ \A q \in Question \cup {Null}, t \in Content \cup {Null} :
               [Hash(s) EXCEPT !.pending = q, !.intent = t] \in Meta
<1>1. DefaultMeta \in Meta
  BY DEF DefaultMeta, Meta
<1>2. Hash(s) \in Meta
  BY <1>1 DEF Hash, Typed
<1>3. PICK h \in Meta : h = Hash(s)
  BY <1>2
<1>4. <<>> \in Seq(Topic)
  OBVIOUS
<1>5. \A u \in User \cup {Null} :
         /\ [h EXCEPT !.bare = FALSE, !.user = u, !.digest = <<>>, !.turns = 0] \in Meta
         /\ [h EXCEPT !.bare = FALSE, !.user = u] \in Meta
  <2>1. \A u \in User \cup {Null} :
           [h EXCEPT !.bare = FALSE, !.user = u, !.digest = <<>>, !.turns = 0] \in Meta
    BY <1>4 DEF Meta
  <2>2. \A u \in User \cup {Null} : [h EXCEPT !.bare = FALSE, !.user = u] \in Meta
    BY DEF Meta
  <2> QED
    BY <2>1, <2>2
<1>6. [h EXCEPT !.bare = FALSE, !.turns = @ + 1] \in Meta
  <2>1. PICK n \in Nat : n = h.turns + 1
    BY DEF Meta
  <2>2. [h EXCEPT !.bare = FALSE, !.turns = n] \in Meta
    BY DEF Meta
  <2> QED
    BY <2>1, <2>2
<1>7. \A d \in Seq(Topic) : [h EXCEPT !.bare = FALSE, !.digest = d] \in Meta
  BY DEF Meta
<1>8. \A q \in Question \cup {Null}, t \in Content \cup {Null} :
         [h EXCEPT !.pending = q, !.intent = t] \in Meta
  BY DEF Meta
<1> QED
  BY <1>3, <1>5, <1>6, <1>7, <1>8

(* A hash is not a missing key, and a key once there is not taken away. *)
LEMMA MetaIsKey == \A h \in Meta : h # NoKey
BY DEF Meta, NoKey

(* A write to one hash keeps the types. *)
LEMMA HashWriteTyped ==
  ASSUME Typed, NEW s \in Session, NEW h \in Meta, meta' = [meta EXCEPT ![s] = h],
         UNCHANGED <<list, ttl, evicted, topics>>, \A c \in Client : OpTyped(op'[c])
  PROVE  Typed'
<1>1. meta' \in [Session -> {NoKey} \cup Meta]
  BY DEF Typed
<1>2. \A t \in Session : meta[t] # NoKey => meta'[t] # NoKey
  BY MetaIsKey DEF Typed
<1>3. Keys \subseteq Keys'
  BY <1>2 DEF Keys
<1> QED
  BY <1>1, <1>3 DEF Typed

(* A change of one operation. *)
LEMMA OneOpTyped ==
  ASSUME RedisInv, Typed, NEW c \in Client, NEW o, op' = [op EXCEPT ![c] = o], OpTyped(o)
  PROVE  \A d \in Client : OpTyped(op'[d])
BY DEF RedisInv, Shape, Typed

(* The operation begins, with what it will write. *)
LEMMA BeginsTyped ==
  ASSUME RedisInv, Typed, NEW c \in Client, NEW o, Begin(c, o), OpTyped(o)
  PROVE  \A d \in Client : OpTyped(op'[d])
BY OneOpTyped DEF Begin

(* Only the operation changes, and perhaps before. *)
LEMMA OpStepTyped ==
  ASSUME Typed, UNCHANGED <<meta, list, ttl, evicted, topics>>,
         \A c \in Client : OpTyped(op'[c])
  PROVE  Typed'
BY DEF Typed, Keys

(* Going on to a command that writes nothing of its own. *)
LEMMA GoesOnTyped ==
  ASSUME NEW o, OpOK(o), o # Idle, NEW pc,
         pc \in {"measure", "trim", "touch_meta", "touch_list"}
  PROVE  OpTyped([o EXCEPT !.pc = pc])
<1>1. [o EXCEPT !.pc = pc].pc = pc
  BY DEF OpOK, InProgress, Getting, Writing, Reading, Folding, Trimming
<1> QED
  BY <1>1 DEF OpTyped

(* get, SetPending and ClearPending. *)
LEMMA CallsTyped ==
  ASSUME RedisInv, Typed, NEW c \in Client, NEW s \in Session,
         \/ \E u \in User \cup {Null} : GetBegin(c, s, u)
         \/ \E q \in Question, t \in Content : SetPending(c, s, q, t)
         \/ ClearPending(c, s)
  PROVE  Typed'
<1>1. ASSUME NEW u \in User \cup {Null}, GetBegin(c, s, u) PROVE Typed'
  <2>1. PICK o : o.user = u /\ o.pc \in {"create", "set_user", "touch_meta"} /\ Begin(c, o)
    <3>1. PICK k : /\ k = CASE meta[s] = NoKey -> "create"
                            [] meta[s] # NoKey /\ u # Null /\ meta[s].user = Null -> "set_user"
                            [] OTHER -> "touch_meta"
                   /\ Begin(c, [session |-> s, user |-> u, pc |-> k])
      BY <1>1, Zenon DEF GetBegin
    <3>2. k \in {"create", "set_user", "touch_meta"}
      BY <3>1, Zenon
    <3>3. PICK o : o = [session |-> s, user |-> u, pc |-> k]
      OBVIOUS
    <3>4. o.user = u /\ o.pc = k /\ Begin(c, o)
      BY <3>1, <3>3
    <3> QED
      BY <3>2, <3>4
  <2>2. OpTyped(o)
    BY <2>1 DEF OpTyped
  <2> QED
    BY <1>1, <2>1, <2>2, BeginsTyped, OpStepTyped DEF GetBegin, history
<1>2. ASSUME NEW q \in Question, NEW t \in Content, SetPending(c, s, q, t) PROVE Typed'
  <2>1. PICK o : o.pc = "touch_meta" /\ Begin(c, o)
    BY <1>2 DEF SetPending
  <2>2. \A d \in Client : OpTyped(op'[d])
    BY <2>1, BeginsTyped DEF OpTyped
  <2>3. PICK h \in Meta : meta' = [meta EXCEPT ![s] = h]
    BY <1>2, HashIsTyped DEF SetPending
  <2> QED
    BY <1>2, <2>2, <2>3, HashWriteTyped DEF SetPending, history
<1>3. CASE ClearPending(c, s)
  <2>1. \A d \in Client : OpTyped(op'[d])
    BY <1>3 DEF ClearPending, Typed
  <2>2. CASE Hash(s).bare
    <3>1. /\ meta' = [meta EXCEPT ![s] = NoKey] /\ ttl' = ttl \ {<<s, "meta">>}
          /\ UNCHANGED <<list, evicted, topics>>
      BY <1>3, <2>2 DEF ClearPending, history
    <3>2. /\ meta' \in [Session -> {NoKey} \cup Meta]
          /\ \A r \in Session : r # s => meta'[r] = meta[r]
      BY <3>1 DEF Typed
    <3>3. Keys \ {<<s, "meta">>} \subseteq Keys'
      BY <3>1, <3>2 DEF Keys
    <3> QED
      BY <2>1, <3>1, <3>2, <3>3 DEF Typed
  <2>3. CASE ~Hash(s).bare
    <3>1. PICK h \in Meta : h = [Hash(s) EXCEPT !.pending = Null, !.intent = Null]
      BY HashIsTyped
    <3>2. meta' = [meta EXCEPT ![s] = h] /\ UNCHANGED <<list, ttl, evicted, topics>>
      BY <1>3, <2>3, <3>1 DEF ClearPending, history
    <3> QED
      BY <2>1, <3>2, HashWriteTyped
  <2> QED
    BY <2>2, <2>3
<1> QED
  BY <1>1, <1>2, <1>3

(* The commands that write the hash. *)
LEMMA WritesTyped ==
  ASSUME RedisInv, Typed, NEW c \in Client,
         GetCreate(c) \/ GetSetUser(c) \/ AppendCount(c) \/ AppendWriteDigest(c)
  PROVE  Typed'
<1>1. op[c] # Idle /\ InProgress(op[c]) /\ op[c].session \in Session /\ OpOK(op[c])
  BY AtCommand DEF GetCreate, GetSetUser, AppendCount, AppendWriteDigest, At, OpOK
<1>2. PICK s \in Session : s = op[c].session
  BY <1>1
<1>3. OpTyped(op[c])
  BY DEF Typed
<1>4. PICK h \in Meta : meta' = [meta EXCEPT ![s] = h]
  <2>1. CASE GetCreate(c)
    BY <1>2, <1>3, <2>1, HashIsTyped DEF GetCreate, At, OpTyped
  <2>2. CASE GetSetUser(c)
    BY <1>2, <1>3, <2>2, HashIsTyped DEF GetSetUser, At, OpTyped
  <2>3. CASE AppendCount(c)
    BY <1>2, <1>3, <2>3, HashIsTyped DEF AppendCount, At, OpTyped
  <2>4. CASE AppendWriteDigest(c)
    BY <1>2, <1>3, <2>4, HashIsTyped DEF AppendWriteDigest, At, OpTyped
  <2> QED
    BY <2>1, <2>2, <2>3, <2>4
<1>5. PICK pc \in {"measure", "trim", "touch_meta"} : op' = [op EXCEPT ![c].pc = pc]
  BY DEF GetCreate, GetSetUser, AppendCount, AppendWriteDigest, Goto
<1>6. op' = [op EXCEPT ![c] = [op[c] EXCEPT !.pc = pc]] /\ OpTyped([op[c] EXCEPT !.pc = pc])
  BY <1>1, <1>5, GoesOnTyped
<1>7. \A d \in Client : OpTyped(op'[d])
  BY <1>6, OneOpTyped
<1> QED
  BY <1>4, <1>7, HashWriteTyped DEF GetCreate, GetSetUser, AppendCount, AppendWriteDigest, history

(* LLEN, LRANGE and HGET: what is read is messages and topics. *)
LEMMA ReadsTyped ==
  ASSUME RedisInv, Typed, NEW c \in Client,
         AppendMeasure(c) \/ AppendReadOut(c) \/ AppendReadDigest(c)
  PROVE  Typed'
<1>1. op[c] # Idle /\ InProgress(op[c]) /\ op[c].session \in Session /\ OpOK(op[c])
  BY AtCommand DEF AppendMeasure, AppendReadOut, AppendReadDigest, At, OpOK
<1>2. PICK s \in Session : s = op[c].session
  BY <1>1
<1>3. OpTyped(op[c])
  BY DEF Typed
<1>4. UNCHANGED <<meta, list, ttl, evicted, topics>>
  BY DEF AppendMeasure, AppendReadOut, AppendReadDigest, history
<1>5. CASE AppendMeasure(c)
  <2>1. PICK o : op' = [op EXCEPT ![c] = o] /\ o.pc \in {"read_out", "touch_meta"}
    <3>1. CASE Surplus(s) > 0
      <4>1. PICK o : o = [session |-> s, pc |-> "read_out", surplus |-> Surplus(s)]
        OBVIOUS
      <4>2. op' = [op EXCEPT ![c] = o] /\ o.pc = "read_out"
        BY <1>2, <1>5, <3>1, <4>1 DEF AppendMeasure
      <4> QED
        BY <4>2
    <3>2. CASE ~(Surplus(s) > 0)
      <4>1. PICK o : o = [op[c] EXCEPT !.pc = "touch_meta"]
        OBVIOUS
      <4>2. o.pc = "touch_meta"
        BY <1>1, <4>1 DEF InProgress, Getting, Writing, Reading, Folding, Trimming
      <4>3. op' = [op EXCEPT ![c] = o]
        BY <1>2, <1>5, <3>2, <4>1 DEF AppendMeasure
      <4> QED
        BY <4>2, <4>3
    <3> QED
      BY <3>1, <3>2
  <2>2. OpTyped(o)
    BY <2>1 DEF OpTyped
  <2> QED
    BY <1>4, <2>1, <2>2, OneOpTyped, OpStepTyped
<1>6. CASE AppendReadOut(c)
  <2>1. PICK n \in Int : /\ n <= Len(list[s])
                         /\ n = IF op[c].surplus <= Len(list[s]) THEN op[c].surplus ELSE Len(list[s])
    <3>1. op[c].surplus \in Nat /\ Len(list[s]) \in Nat
      BY <1>1, <1>6, PlaceTells, SurplusIsInt DEF AppendReadOut, At, Reading, RedisInv
    <3> QED
      BY <3>1
  <2>2. PICK out : out = SubSeq(list[s], 1, n)
    OBVIOUS
  <2>3. out \in Seq(Entry)
    BY <2>1, <2>2 DEF RedisInv, Shape
  <2>4. PICK o : o = [session |-> s, pc |-> "read_digest", surplus |-> op[c].surplus, out |-> out]
    OBVIOUS
  <2>5. op' = [op EXCEPT ![c] = o]
    BY <1>2, <1>6, <2>1, <2>2, <2>4 DEF AppendReadOut
  <2>6. OpTyped(o)
    BY <2>3, <2>4 DEF OpTyped
  <2> QED
    BY <1>4, <2>5, <2>6, OneOpTyped, OpStepTyped
<1>7. CASE AppendReadDigest(c)
  <2>1. op[c].out \in Seq(Entry) /\ \A m \in Entry : m.content \in Content
    BY <1>1, <1>3, <1>7 DEF AppendReadDigest, At, OpTyped, Entry
  <2>2. PICK d : d = BuildTopicDigest(Hash(s).digest, op[c].out)
    OBVIOUS
  <2>3. d \in Seq(Topic)
    <3>1. TopicsIn(op[c].out) \in Seq(Topic)
      BY <2>1, TopicsInType
    <3>2. Hash(s).digest \in Seq(Topic)
      BY HashIsTyped DEF Meta
    <3>3. Hash(s).digest \o TopicsIn(op[c].out) \in Seq(Topic)
      BY <3>1, <3>2
    <3> QED
      BY <2>2, <3>3, KeepRecentType DEF BuildTopicDigest
  <2>4. PICK o : o = [session |-> s, pc |-> "write_digest", surplus |-> op[c].surplus, digest |-> d]
    OBVIOUS
  <2>5. op' = [op EXCEPT ![c] = o]
    BY <1>2, <1>7, <2>2, <2>4 DEF AppendReadDigest
  <2>6. OpTyped(o)
    BY <2>3, <2>4 DEF OpTyped
  <2> QED
    BY <1>4, <2>5, <2>6, OneOpTyped, OpStepTyped
<1> QED
  BY <1>5, <1>6, <1>7

(* RPUSH: the list is there after it. *)
LEMMA PushTyped ==
  ASSUME RedisInv, Typed, NEW c \in Client, NEW s \in Session,
         NEW role \in {"user", "assistant"}, NEW t \in Content, AppendPush(c, s, role, t)
  PROVE  Typed'
<1>1. PICK o : o.pc \in {"count", "measure"} /\ Begin(c, o)
  BY DEF AppendPush
<1>2. \A d \in Client : OpTyped(op'[d])
  BY <1>1, BeginsTyped DEF OpTyped
<1>3. PICK e : e = [session |-> s, id |-> lastId + 1, role |-> role, content |-> t]
  OBVIOUS
<1>4. e \in Entry
  BY <1>3 DEF AppendPush, Entry
<1>5. list' = [list EXCEPT ![s] = Append(@, e)] /\ UNCHANGED <<meta, ttl, evicted, topics>>
  BY <1>3 DEF AppendPush
<1>6. \A r \in Session : list[r] # <<>> => list'[r] # <<>>
  <2>1. Append(list[s], e) # <<>>
    BY <1>4 DEF RedisInv, Shape
  <2> QED
    BY <1>5, <2>1 DEF RedisInv, Shape
<1>7. Keys \subseteq Keys'
  BY <1>5, <1>6 DEF Keys
<1> QED
  BY <1>2, <1>5, <1>7 DEF Typed

(* LTRIM: a list that it empties is gone, and so is its expiry. *)
LEMMA TrimTyped ==
  ASSUME RedisInv, Typed, NEW c \in Client, AppendTrim(c)
  PROVE  Typed'
<1>1. /\ op[c] # Idle /\ InProgress(op[c]) /\ op[c].session \in Session /\ op[c].pc = "trim"
      /\ OpOK(op[c]) /\ UNCHANGED meta
  BY AtCommand DEF AppendTrim, At, OpOK
<1>2. op[c].surplus \in Nat
  BY <1>1, PlaceTells DEF Trimming
<1>3. PICK s, n, gone :
         /\ s = op[c].session
         /\ n = IF op[c].surplus <= Len(list[s]) THEN op[c].surplus ELSE Len(list[s])
         /\ gone = SubSeq(list[s], 1, n)
  OBVIOUS
<1>4. /\ s \in Session /\ list[s] \in Seq(Entry) /\ Len(list[s]) \in Nat /\ n \in 0 .. Len(list[s])
  BY <1>1, <1>2, <1>3, SurplusIsInt DEF RedisInv, Shape
<1>5. /\ list' = [list EXCEPT ![s] = SubSeq(@, n + 1, Len(@))]
      /\ ttl' = IF n = Len(list[s]) THEN ttl \ {<<s, "list">>} ELSE ttl
      /\ evicted' = [evicted EXCEPT ![s] = @ \cup ToSet(gone)]
      /\ topics' = [topics EXCEPT ![s] = @ \o TopicsIn(gone)]
  BY <1>3 DEF AppendTrim
<1>6. gone \in Seq(Entry) /\ ToSet(gone) \subseteq Entry
  <2>1. \A i \in 1 .. n : list[s][i] \in Entry
    BY <1>4
  <2>2. gone \in Seq(Entry)
    BY <1>3, <1>4, <2>1, SubSeqProperties
  <2> QED
    BY <2>2 DEF ToSet
<1>7. topics' \in [Session -> Seq(Topic)]
  <2>1. \A m \in Entry : m.content \in Content
    BY DEF Entry
  <2>2. TopicsIn(gone) \in Seq(Topic)
    BY <1>6, <2>1, TopicsInType
  <2>3. topics[s] \o TopicsIn(gone) \in Seq(Topic)
    BY <1>4, <2>2 DEF Typed
  <2> QED
    BY <1>5, <2>3 DEF Typed
<1>8. evicted' \in [Session -> SUBSET Entry]
  BY <1>4, <1>5, <1>6 DEF Typed
<1>9. ttl' \subseteq Keys'
  <2>1. \A r \in Session : r # s => list'[r] = list[r]
    BY <1>5 DEF RedisInv, Shape
  <2>2. n # Len(list[s]) => list'[s] # <<>>
    <3>1. PICK rest : rest = SubSeq(list[s], n + 1, Len(list[s]))
      OBVIOUS
    <3>2. Len(rest) = Len(list[s]) - n
      BY <1>4, <3>1, SubSeqProperties
    <3>3. n # Len(list[s]) => rest # <<>>
      BY <1>4, <3>2
    <3>4. list'[s] = rest
      BY <1>4, <1>5, <3>1 DEF RedisInv, Shape
    <3> QED
      BY <3>3, <3>4
  <2>3. CASE n = Len(list[s])
    <3>1. ttl' = ttl \ {<<s, "list">>}
      BY <1>5, <2>3
    <3>2. Keys \ {<<s, "list">>} \subseteq Keys'
      BY <1>1, <2>1 DEF Keys
    <3> QED
      BY <3>1, <3>2 DEF Typed
  <2>4. CASE n # Len(list[s])
    <3>1. ttl' = ttl /\ \A r \in Session : list[r] # <<>> => list'[r] # <<>>
      BY <1>5, <2>1, <2>2, <2>4
    <3>2. Keys \subseteq Keys'
      BY <1>1, <3>1 DEF Keys
    <3> QED
      BY <3>1, <3>2 DEF Typed
  <2> QED
    BY <2>3, <2>4
<1>10. \A d \in Client : OpTyped(op'[d])
  <2>1. op' = [op EXCEPT ![c] = [op[c] EXCEPT !.pc = "touch_meta"]]
    BY DEF AppendTrim, Goto
  <2>2. OpTyped([op[c] EXCEPT !.pc = "touch_meta"])
    BY <1>1, GoesOnTyped
  <2> QED
    BY <2>1, <2>2, OneOpTyped
<1> QED
  BY <1>1, <1>7, <1>8, <1>9, <1>10 DEF Typed

(* EXPIRE touches only keys that exist. *)
LEMMA TouchTyped ==
  ASSUME RedisInv, Typed, NEW c \in Client, TouchMeta(c) \/ TouchList(c)
  PROVE  Typed'
<1>1. /\ op[c] # Idle /\ InProgress(op[c]) /\ op[c].session \in Session /\ OpOK(op[c])
      /\ UNCHANGED <<meta, list, evicted, topics>>
  BY AtCommand DEF TouchMeta, TouchList, At, OpOK, history
<1>2. ttl' \subseteq Keys /\ Keys' = Keys
  <2>1. \A s \in Session : /\ meta[s] # NoKey => <<s, "meta">> \in Keys
                           /\ list[s] # <<>> => <<s, "list">> \in Keys
    BY DEF Keys
  <2>2. ttl \subseteq Keys
    BY DEF Typed
  <2>3. PICK s : s = op[c].session
    OBVIOUS
  <2>4. \/ ttl' = ttl
        \/ meta[s] # NoKey /\ ttl' = ttl \cup {<<s, "meta">>}
        \/ list[s] # <<>> /\ ttl' = ttl \cup {<<s, "list">>}
    BY <2>3 DEF TouchMeta, TouchList
  <2>5. ttl' \subseteq Keys
    BY <1>1, <2>1, <2>2, <2>3, <2>4
  <2> QED
    BY <1>1, <2>5 DEF Keys
<1>3. PICK o : OpTyped(o) /\ op' = [op EXCEPT ![c] = o]
  <2>1. OpTyped(Idle)
    BY DEF OpTyped, Idle
  <2>2. PICK o : o = [op[c] EXCEPT !.pc = "touch_list"]
    OBVIOUS
  <2>3. OpTyped(o)
    BY <1>1, <2>2, GoesOnTyped
  <2>4. op' = [op EXCEPT ![c] = Idle] \/ op' = [op EXCEPT ![c] = o]
    BY <2>2 DEF TouchMeta, TouchList, Goto
  <2> QED
    BY <2>1, <2>3, <2>4
<1>4. \A d \in Client : OpTyped(op'[d])
  BY <1>3, OneOpTyped
<1> QED
  BY <1>1, <1>2, <1>4 DEF Typed

(* A key that expires takes its expiry along, and a crash writes nothing. *)
LEMMA ExpiryAndCrashTyped ==
  ASSUME RedisInv, Typed,
         \/ \E s \in Session : ExpireMeta(s) \/ ExpireList(s)
         \/ \E c \in Client : Crash(c)
  PROVE  Typed'
<1>1. ASSUME NEW s \in Session, ExpireMeta(s) PROVE Typed'
  <2>1. /\ meta' = [meta EXCEPT ![s] = NoKey] /\ ttl' = ttl \ {<<s, "meta">>}
        /\ evicted' = [evicted EXCEPT ![s] = {}] /\ topics' = [topics EXCEPT ![s] = <<>>]
        /\ UNCHANGED <<list, op>>
    BY <1>1 DEF ExpireMeta
  <2>2. \A r \in Session : r # s => meta'[r] = meta[r]
    BY <2>1 DEF Typed
  <2>3. Keys \ {<<s, "meta">>} \subseteq Keys'
    BY <2>1, <2>2 DEF Keys
  <2>4. meta' \in [Session -> {NoKey} \cup Meta]
    BY <2>1 DEF Typed
  <2>5. evicted' \in [Session -> SUBSET Entry] /\ topics' \in [Session -> Seq(Topic)]
    BY <2>1 DEF Typed
  <2> QED
    BY <2>1, <2>3, <2>4, <2>5 DEF Typed
<1>2. ASSUME NEW s \in Session, ExpireList(s) PROVE Typed'
  <2>1. /\ list' = [list EXCEPT ![s] = <<>>] /\ ttl' = ttl \ {<<s, "list">>}
        /\ UNCHANGED <<meta, op, evicted, topics>>
    BY <1>2 DEF ExpireList, history
  <2>2. \A r \in Session : r # s => list'[r] = list[r]
    BY <2>1 DEF RedisInv, Shape
  <2>3. Keys \ {<<s, "list">>} \subseteq Keys'
    BY <2>1, <2>2 DEF Keys
  <2> QED
    BY <2>1, <2>3 DEF Typed
<1>3. ASSUME NEW c \in Client, Crash(c) PROVE Typed'
  <2>1. OpTyped(Idle) /\ op' = [op EXCEPT ![c] = Idle]
    BY <1>3 DEF OpTyped, Idle, Crash
  <2> QED
    BY <1>3, <2>1, OneOpTyped, OpStepTyped DEF Crash, history
<1> QED
  BY <1>1, <1>2, <1>3

(* All is typed at the start, *)
LEMMA RedisInitTyped == RedisInit => Typed
<1> SUFFICES ASSUME RedisInit PROVE Typed
  OBVIOUS
<1>1. \A c \in Client : OpTyped(op[c])
  BY DEF RedisInit, OpTyped, Idle
<1> QED
  BY <1>1 DEF RedisInit, Typed

(* after every command, expiry and crash, *)
LEMMA RedisNextTyped == RedisInv /\ Typed /\ [RedisNext]_redisVars => Typed'
<1> SUFFICES ASSUME RedisInv, Typed, [RedisNext]_redisVars PROVE Typed'
  OBVIOUS
<1>1. ASSUME NEW c \in Client, NEW s \in Session,
             \/ \E u \in User \cup {Null} : GetBegin(c, s, u)
             \/ \E q \in Question, t \in Content : SetPending(c, s, q, t)
             \/ ClearPending(c, s)
      PROVE  Typed'
  BY <1>1, CallsTyped
<1>2. ASSUME NEW c \in Client, NEW s \in Session, NEW role \in {"user", "assistant"},
             NEW t \in Content, AppendPush(c, s, role, t)
      PROVE  Typed'
  BY <1>2, PushTyped
<1>3. ASSUME NEW c \in Client, GetCreate(c) \/ GetSetUser(c)
      PROVE  Typed'
  BY <1>3, WritesTyped
<1>4. ASSUME NEW c \in Client, AppendContinues(c)
      PROVE  Typed'
  BY <1>4, WritesTyped, ReadsTyped, TrimTyped DEF AppendContinues
<1>5. ASSUME NEW c \in Client, TouchMeta(c) \/ TouchList(c)
      PROVE  Typed'
  BY <1>5, TouchTyped
<1>6. ASSUME NEW c \in Client, Crash(c) PROVE Typed'
  BY <1>6, ExpiryAndCrashTyped
<1>7. ASSUME NEW s \in Session, ExpireMeta(s) \/ ExpireList(s) PROVE Typed'
  BY <1>7, ExpiryAndCrashTyped
<1>8. CASE UNCHANGED redisVars
  BY <1>8, OpStepTyped DEF redisVars, Typed
<1> QED
  BY <1>1, <1>2, <1>3, <1>4, <1>5, <1>6, <1>7, <1>8 DEF RedisNext

(* and so always. *)
LEMMA RedisTyped == RedisSpec => [](RedisInv /\ Typed)
<1>1. RedisInit => RedisInv /\ Typed
  BY RedisInitInv, RedisInitTyped
<1>2. RedisInv /\ Typed /\ [RedisNext]_redisVars => (RedisInv /\ Typed)'
  BY RedisNextInv, RedisNextTyped
<1> QED
  BY <1>1, <1>2, PTL DEF RedisSpec

(* Hashes, lists and what was trimmed are of their types, every operation  *)
(* in progress is about a session, and an expiry belongs to a key that     *)
(* exists: for any number of instances, with keys expiring under them.     *)
THEOREM RedisIsTyped == RedisSpec => []RedisTypeOK
<1>1. ASSUME RedisInv, NEW c \in Busy PROVE op[c].session \in Session
  BY <1>1, AtCommand DEF Busy
<1>2. RedisInv /\ Typed => RedisTypeOK
  BY <1>1 DEF RedisInv, Shape, Typed, Keys, RedisTypeOK
<1> QED
  BY <1>2, RedisTyped, PTL
------------------------------------------------------------------------------
(* One instance, and no key that expires: what was trimmed is remembered.  *)
OneInstance == (\A c, d \in Client : c = d) /\ ~KeysMayExpire

(* The topics of the user's messages among ms. *)
UserTopics(ms) == UNION {ToSet(TopicsOf[m.content]) : m \in {n \in ms : n.role = "user"}}

(* The digest d truncates topics of at most k characters, those in tops    *)
(* among them.                                                             *)
Folds(d, k, tops) ==
    \E v \in Seq(Topic) : d = KeepRecent(v) /\ Characters(v) <= k /\ tops \subseteq ToSet(v)

AboutToTrim(s) == \E c \in Client : op[c] # Idle /\ op[c].session = s /\ op[c].pc = "trim"

(* Characters of the topics of what was trimmed, and of what is due.       *)
Done(s) == Characters(topics[s])
Due(s) == Characters(TopicsIn(Leaving(s)))

(* A message is folded in once, and once more for every crash that kept it *)
(* from being trimmed; what is due, once for every such crash and, between *)
(* the HSET and the LTRIM, once more.                                      *)
Remembered(s) ==
    IF AboutToTrim(s)
    THEN Folds(Hash(s).digest, (1 + crashes) * (Done(s) + Due(s)),
               UserTopics(evicted[s] \cup ToSet(Leaving(s))))
    ELSE Folds(Hash(s).digest, (1 + crashes) * Done(s) + crashes * Due(s),
               UserTopics(evicted[s]))

(* What the operation o has seen of its session still stands. *)
Seen(o) ==
    o # Idle =>
        /\ o.pc = "create" => meta[o.session] = NoKey
        /\ o.pc \in {"read_out", "read_digest", "write_digest", "trim"} =>
              o.surplus = Surplus(o.session) /\ Surplus(o.session) > 0
        /\ o.pc = "read_digest" => o.out = Leaving(o.session)
        /\ o.pc = "write_digest" =>
              o.digest = BuildTopicDigest(Hash(o.session).digest, Leaving(o.session))

Unused(s) == meta[s] = NoKey => list[s] = <<>> /\ evicted[s] = {} /\ topics[s] = <<>>

OneInv ==
    /\ \A c \in Client : Seen(op[c])
    /\ \A s \in Session : Unused(s) /\ Remembered(s)

(* More characters and fewer topics are folded just as well. *)
LEMMA FoldsWeaker ==
  ASSUME NEW d, NEW k \in Nat, NEW tops, Folds(d, k, tops), NEW l \in Nat, k <= l,
         NEW few \in SUBSET tops
  PROVE  Folds(d, l, few)
<1>1. PICK v \in Seq(Topic) : d = KeepRecent(v) /\ Characters(v) <= k /\ tops \subseteq ToSet(v)
  BY DEF Folds
<1>2. Characters(v) \in Nat
  BY JoinedLengthBounds
<1>3. Characters(v) <= l /\ few \subseteq ToSet(v)
  BY <1>1, <1>2
<1> QED
  BY <1>1, <1>3 DEF Folds

(* build_topic_digest folds new topics into what is folded already. *)
LEMMA FoldsMore ==
  ASSUME NEW d, NEW k \in Nat, NEW tops, Folds(d, k, tops), NEW new \in Seq(Topic)
  PROVE  Folds(KeepRecent(d \o new), k + Characters(new), tops \cup ToSet(new))
<1>1. PICK v \in Seq(Topic) : d = KeepRecent(v) /\ Characters(v) <= k /\ tops \subseteq ToSet(v)
  BY DEF Folds
<1>2. PICK w \in Seq(Topic) : w = v \o new
  <2>1. v \o new \in Seq(Topic)
    OBVIOUS
  <2> QED
    BY <2>1
<1>3. KeepRecent(d \o new) = KeepRecent(w)
  BY <1>1, <1>2, KeepRecentAbsorbs
<1>4. Characters(w) <= k + Characters(new)
  BY <1>1, <1>2, CharactersConcat
<1>5. ToSet(w) = ToSet(v) \cup ToSet(new)
  BY <1>2, ToSetConcat
<1> QED
  BY <1>1, <1>3, <1>4, <1>5 DEF Folds

(* What leaves the window: messages, and their topics. *)
LEMMA LeavingOK ==
  ASSUME Shape, Typed, NEW s \in Session
  PROVE  /\ Leaving(s) \in Seq(Entry) /\ TopicsIn(Leaving(s)) \in Seq(Topic)
         /\ Due(s) \in Nat /\ Done(s) \in Nat
         /\ UserTopics(ToSet(Leaving(s))) \subseteq ToSet(TopicsIn(Leaving(s)))
         /\ Surplus(s) <= 0 => Leaving(s) = <<>> /\ Due(s) = 0
<1>1. \A m \in Entry : m.content \in Content
  BY DEF Entry
<1>2. PICK l \in Seq(Entry) : l = list[s]
  BY DEF Shape
<1>3. PICK n \in Int : n = Surplus(s) /\ n <= Len(l)
  <2>1. Surplus(s) = Len(l) - Window /\ Len(l) \in Nat /\ Window \in Nat
    BY <1>2, RedisAssumption DEF Surplus
  <2>2. Surplus(s) \in Int /\ Surplus(s) <= Len(l)
    BY <2>1
  <2> QED
    BY <2>2
<1>4. Leaving(s) = SubSeq(l, 1, n)
  BY <1>2, <1>3 DEF Leaving
<1>5. SubSeq(l, 1, n) \in Seq(Entry) /\ (n <= 0 => SubSeq(l, 1, n) = <<>>)
  BY <1>2, <1>3
<1>6. Leaving(s) \in Seq(Entry) /\ (Surplus(s) <= 0 => Leaving(s) = <<>>)
  BY <1>3, <1>4, <1>5
<1>7. TopicsIn(Leaving(s)) \in Seq(Topic)
  BY <1>1, <1>6, TopicsInType
<1>8. Due(s) \in Nat
  BY <1>7, JoinedLengthBounds DEF Due
<1>9. Done(s) \in Nat
  BY JoinedLengthBounds DEF Done, Typed
<1>10. Surplus(s) <= 0 => Due(s) = 0
  <2>1. <<>> \in Seq(Topic)
    OBVIOUS
  <2>2. Characters(<<>>) = 0
    BY <2>1, JoinedLengthBounds
  <2> QED
    BY <1>6, <2>2, TopicsInNone DEF Due
<1>11. \A m \in ToSet(Leaving(s)) :
          m.role = "user" => ToSet(TopicsOf[m.content]) \subseteq ToSet(TopicsIn(Leaving(s)))
  BY <1>1, <1>6, TopicsInMember
<1>12. UserTopics(ToSet(Leaving(s))) \subseteq ToSet(TopicsIn(Leaving(s)))
  BY <1>11 DEF UserTopics
<1> QED
  BY <1>6, <1>7, <1>8, <1>9, <1>10, <1>12

(* The one instance's operation is the only one. *)
LEMMA SoleOperation ==
  ASSUME OneInstance, Shape, NEW c \in Client, NEW o, op' = [op EXCEPT ![c] = o]
  PROVE  /\ \A d \in Client : d = c /\ op'[d] = o
         /\ \A s : AboutToTrim(s) <=> op[c] # Idle /\ op[c].session = s /\ op[c].pc = "trim"
         /\ \A s : AboutToTrim(s)' <=> o # Idle /\ o.session = s /\ o.pc = "trim"
<1>1. \A d \in Client : d = c /\ op'[d] = o
  BY DEF OneInstance, Shape
<1> QED
  BY <1>1 DEF AboutToTrim

(* Steps that touch neither list nor digest nor what was trimmed. *)
LEMMA DigestStays ==
  ASSUME OneInstance, RedisInv, OneInv, NEW c \in Client, NEW o, op' = [op EXCEPT ![c] = o],
         UNCHANGED <<list, evicted, topics, crashes>>,
         \A s \in Session : /\ Hash(s)'.digest = Hash(s).digest
                            /\ meta'[s] = NoKey => meta[s] = NoKey,
         op[c] # Idle => op[c].pc # "trim",
         o # Idle => o.pc # "trim",
         Seen(o)'
  PROVE  OneInv'
<1>1. /\ \A d \in Client : op'[d] = o
      /\ \A s \in Session : ~AboutToTrim(s) /\ ~AboutToTrim(s)'
  BY SoleOperation DEF RedisInv
<1>2. ASSUME NEW s \in Session PROVE Unused(s)' /\ Remembered(s)'
  <2>1. Unused(s) /\ Remembered(s)
    BY DEF OneInv
  <2>2. Unused(s)'
    BY <2>1 DEF Unused
  <2>3. Done(s)' = Done(s) /\ Due(s)' = Due(s)
    BY DEF Done, Due, Leaving, Surplus
  <2>4. PICK d, k, tops : d = Hash(s).digest /\ k = (1 + crashes) * Done(s) + crashes * Due(s)
                          /\ tops = UserTopics(evicted[s])
    OBVIOUS
  <2>5. Folds(d, k, tops)
    BY <1>1, <2>1, <2>4 DEF Remembered
  <2>6. d = Hash(s)'.digest /\ k = ((1 + crashes) * Done(s) + crashes * Due(s))'
        /\ tops = UserTopics(evicted[s])'
    BY <2>3, <2>4 DEF UserTopics
  <2>7. Remembered(s)'
    BY <1>1, <2>5, <2>6 DEF Remembered
  <2> QED
    BY <2>2, <2>7
<1>3. \A d \in Client : Seen(op[d])'
  BY <1>1
<1> QED
  BY <1>2, <1>3 DEF OneInv

(* At most commands nothing is to be remembered of what was read. *)
LEMMA NothingSeen ==
  ASSUME NEW o, o # Idle => o.pc \in {"set_user", "touch_meta", "touch_list", "count", "measure"}
  PROVE  Seen(o)' /\ (o # Idle => o.pc # "trim")
BY DEF Seen

(* One write to a hash leaves the digests, or changes that one alone. *)
LEMMA HashAfter ==
  ASSUME Typed, NEW s \in Session, NEW h \in Meta, meta' = [meta EXCEPT ![s] = h]
  PROVE  /\ Hash(s)' = h /\ meta'[s] # NoKey
         /\ \A r \in Session : r # s => Hash(r)' = Hash(r) /\ meta'[r] = meta[r]
BY MetaIsKey DEF Typed, Hash

(* Keys that never expire are written by get first, and never bare. *)
LEMMA NeverBare ==
  ASSUME OneInstance, Shape, NEW c \in Client, NEW s \in Session, ClearPending(c, s)
  PROVE  /\ meta[s] # NoKey /\ Hash(s) = meta[s] /\ ttl' = ttl
         /\ meta' = [meta EXCEPT ![s] = [Hash(s) EXCEPT !.pending = Null, !.intent = Null]]
<1>1. meta[s] # NoKey /\ Hash(s) = meta[s]
  BY DEF OneInstance, ClearPending, Obtained, Hash
<1>2. ~Hash(s).bare
  BY <1>1 DEF OneInstance, Shape, MetaOK, Lasting
<1> QED
  BY <1>1, <1>2 DEF ClearPending

(* The calls of get and of the clarifications. *)
LEMMA CallsRemember ==
  ASSUME OneInstance, RedisInv, Typed, OneInv, NEW c \in Client, NEW s \in Session,
         \/ \E u \in User \cup {Null} : GetBegin(c, s, u)
         \/ \E q \in Question, t \in Content : SetPending(c, s, q, t)
         \/ ClearPending(c, s)
  PROVE  OneInv'
<1>1. ASSUME NEW u \in User \cup {Null}, GetBegin(c, s, u) PROVE OneInv'
  <2>1. PICK k : /\ k = CASE meta[s] = NoKey -> "create"
                          [] meta[s] # NoKey /\ u # Null /\ meta[s].user = Null -> "set_user"
                          [] OTHER -> "touch_meta"
                 /\ Begin(c, [session |-> s, user |-> u, pc |-> k])
    BY <1>1, Zenon DEF GetBegin
  <2>2. k \in {"create", "set_user", "touch_meta"} /\ (k = "create" => meta[s] = NoKey)
    <3>1. CASE meta[s] = NoKey
      BY <2>1, <3>1, Zenon
    <3>2. CASE meta[s] # NoKey
      <4>1. k = "set_user" \/ k = "touch_meta"
        BY <2>1, <3>2, Zenon
      <4> QED
        BY <4>1
    <3> QED
      BY <3>1, <3>2
  <2>3. PICK o : o = [session |-> s, user |-> u, pc |-> k]
    OBVIOUS
  <2>4. op[c] = Idle /\ op' = [op EXCEPT ![c] = o] /\ o.pc = k /\ o.session = s
    BY <2>1, <2>3 DEF Begin
  <2>5. UNCHANGED <<meta, list, evicted, topics, crashes>>
    BY <1>1 DEF GetBegin, history
  <2>6. Seen(o)'
    BY <2>2, <2>4, <2>5 DEF Seen
  <2>7. \A r \in Session : Hash(r)' = Hash(r)
    BY <2>5 DEF Hash
  <2> QED
    BY <2>2, <2>4, <2>5, <2>6, <2>7, DigestStays
<1>2. ASSUME NEW q \in Question, NEW t \in Content, SetPending(c, s, q, t) PROVE OneInv'
  <2>1. PICK o : o.pc = "touch_meta" /\ op[c] = Idle /\ op' = [op EXCEPT ![c] = o]
    BY <1>2 DEF SetPending, Begin
  <2>2. PICK h \in Meta : h = [Hash(s) EXCEPT !.pending = q, !.intent = t]
    BY HashIsTyped
  <2>3. meta' = [meta EXCEPT ![s] = h] /\ UNCHANGED <<list, evicted, topics, crashes>>
    BY <1>2, <2>2 DEF SetPending, history
  <2>4. h.digest = Hash(s).digest
    BY <2>2, HashIsTyped DEF Meta
  <2>5. \A r \in Session : Hash(r)'.digest = Hash(r).digest /\ (meta'[r] = NoKey => meta[r] = NoKey)
    BY <2>3, <2>4, HashAfter
  <2>6. Seen(o)' /\ (o # Idle => o.pc # "trim")
    BY <2>1, NothingSeen
  <2> QED
    BY <2>1, <2>3, <2>5, <2>6, DigestStays
<1>3. CASE ClearPending(c, s)
  <2>1. PICK o : o = op[c]
    OBVIOUS
  <2>2. o = Idle /\ op' = [op EXCEPT ![c] = o] /\ UNCHANGED <<list, evicted, topics, crashes>>
    BY <1>3, <2>1 DEF ClearPending, history, RedisInv, Shape
  <2>3. \A r \in Session : Hash(r)'.digest = Hash(r).digest /\ (meta'[r] = NoKey => meta[r] = NoKey)
    <3>1. PICK h \in Meta : h = [Hash(s) EXCEPT !.pending = Null, !.intent = Null]
      BY HashIsTyped
    <3>2. meta' = [meta EXCEPT ![s] = h]
      BY <1>3, <3>1, NeverBare DEF RedisInv
    <3>3. h.digest = Hash(s).digest
      BY <3>1, HashIsTyped DEF Meta
    <3> QED
      BY <3>2, <3>3, HashAfter
  <2>4. Seen(o)'
    BY <2>2, NothingSeen
  <2> QED
    BY <2>1, <2>2, <2>3, <2>4, DigestStays
<1> QED
  BY <1>1, <1>2, <1>3

(* The commands of get, and those of append that leave the digest. *)
LEMMA WritesRemember ==
  ASSUME OneInstance, RedisInv, Typed, OneInv, NEW c \in Client,
         GetCreate(c) \/ GetSetUser(c) \/ AppendCount(c)
  PROVE  OneInv'
<1>1. /\ op[c] # Idle /\ InProgress(op[c]) /\ op[c].session \in Session
      /\ op[c].pc \in {"create", "set_user", "count"}
      /\ UNCHANGED <<list, evicted, topics, crashes>>
  BY AtCommand DEF GetCreate, GetSetUser, AppendCount, At, history
<1>2. PICK s \in Session : s = op[c].session
  BY <1>1
<1>3. Hash(s) \in Meta /\ OpTyped(op[c]) /\ Seen(op[c])
  BY HashIsTyped DEF Typed, OneInv
<1>4. PICK h \in Meta : meta' = [meta EXCEPT ![s] = h] /\ h.digest = Hash(s).digest
  <2>1. CASE GetCreate(c)
    <3>1. op[c].user \in User \cup {Null} /\ meta[s] = NoKey
      BY <1>1, <1>2, <1>3, <2>1 DEF GetCreate, At, OpTyped, Seen
    <3>2. PICK h \in Meta : h = [Hash(s) EXCEPT !.bare = FALSE, !.user = op[c].user, !.digest = <<>>, !.turns = 0]
      BY <3>1, HashIsTyped
    <3>3. h.digest = <<>> /\ Hash(s).digest = <<>>
      BY <1>3, <3>1, <3>2 DEF Hash, DefaultMeta, Meta
    <3> QED
      BY <1>2, <2>1, <3>2, <3>3 DEF GetCreate
  <2>2. CASE GetSetUser(c)
    <3>1. op[c].user \in User \cup {Null}
      BY <1>1, <1>3, <2>2 DEF GetSetUser, At, OpTyped
    <3>2. PICK h \in Meta : h = [Hash(s) EXCEPT !.bare = FALSE, !.user = op[c].user]
      BY <3>1, HashIsTyped
    <3>3. h.digest = Hash(s).digest
      BY <1>3, <3>2 DEF Meta
    <3> QED
      BY <1>2, <2>2, <3>2, <3>3 DEF GetSetUser
  <2>3. CASE AppendCount(c)
    <3>1. PICK h \in Meta : h = [Hash(s) EXCEPT !.bare = FALSE, !.turns = @ + 1]
      BY HashIsTyped
    <3>2. h.digest = Hash(s).digest
      BY <1>3, <3>1 DEF Meta
    <3> QED
      BY <1>2, <2>3, <3>1, <3>2 DEF AppendCount
  <2> QED
    BY <2>1, <2>2, <2>3
<1>5. PICK pc \in {"touch_meta", "measure"} : op' = [op EXCEPT ![c].pc = pc]
  BY DEF GetCreate, GetSetUser, AppendCount, Goto
<1>6. PICK o : o = [op[c] EXCEPT !.pc = pc]
  OBVIOUS
<1>7. o.pc = pc /\ op' = [op EXCEPT ![c] = o]
  BY <1>1, <1>5, <1>6 DEF InProgress, Getting, Writing, Reading, Folding, Trimming
<1>8. Seen(o)' /\ (o # Idle => o.pc # "trim")
  BY <1>7, NothingSeen
<1>9. \A r \in Session : Hash(r)'.digest = Hash(r).digest /\ (meta'[r] = NoKey => meta[r] = NoKey)
  BY <1>4, HashAfter
<1> QED
  BY <1>1, <1>7, <1>8, <1>9, DigestStays

(* LLEN, LRANGE and HGET: what was seen stands, nobody else writes. *)
LEMMA ReadsRemember ==
  ASSUME OneInstance, RedisInv, Typed, OneInv, NEW c \in Client,
         AppendMeasure(c) \/ AppendReadOut(c) \/ AppendReadDigest(c)
  PROVE  OneInv'
<1>1. /\ op[c] # Idle /\ InProgress(op[c]) /\ op[c].session \in Session
      /\ op[c].pc \in {"measure", "read_out", "read_digest"} /\ Seen(op[c])
      /\ UNCHANGED <<meta, list, evicted, topics, crashes>>
  BY AtCommand DEF AppendMeasure, AppendReadOut, AppendReadDigest, At, history, OneInv
<1>2. PICK s \in Session : s = op[c].session
  BY <1>1
<1>3. \A r \in Session : Hash(r)' = Hash(r) /\ Leaving(r)' = Leaving(r) /\ Surplus(r)' = Surplus(r)
  BY <1>1 DEF Hash, Leaving, Surplus
<1>4. PICK l \in Nat : l = Len(list[s]) /\ Surplus(s) = l - Window
  BY SurplusIsInt DEF RedisInv, Surplus
<1>5. CASE AppendMeasure(c)
  <2>1. CASE Surplus(s) > 0
    <3>1. PICK o : o = [session |-> s, pc |-> "read_out", surplus |-> Surplus(s)]
      OBVIOUS
    <3>2. op' = [op EXCEPT ![c] = o]
      BY <1>2, <1>5, <2>1, <3>1 DEF AppendMeasure
    <3>3. Seen(o)' /\ o.pc # "trim"
      BY <1>3, <2>1, <3>1 DEF Seen
    <3> QED
      BY <1>1, <1>3, <3>2, <3>3, DigestStays
  <2>2. CASE ~(Surplus(s) > 0)
    <3>1. PICK o : o = [op[c] EXCEPT !.pc = "touch_meta"]
      OBVIOUS
    <3>2. o.pc = "touch_meta"
      BY <1>1, <3>1 DEF InProgress, Getting, Writing, Reading, Folding, Trimming
    <3>3. op' = [op EXCEPT ![c] = o]
      BY <1>2, <1>5, <2>2, <3>1 DEF AppendMeasure
    <3>4. Seen(o)' /\ (o # Idle => o.pc # "trim")
      BY <3>2, NothingSeen
    <3> QED
      BY <1>1, <1>3, <3>3, <3>4, DigestStays
  <2> QED
    BY <2>1, <2>2
<1>6. CASE AppendReadOut(c)
  <2>1. op[c].surplus = Surplus(s) /\ Surplus(s) > 0
    BY <1>1, <1>2, <1>6 DEF AppendReadOut, At, Seen
  <2>2. Surplus(s) <= Len(list[s])
    BY <1>4, RedisAssumption
  <2>3. PICK o : o = [session |-> s, pc |-> "read_digest", surplus |-> Surplus(s), out |-> Leaving(s)]
    OBVIOUS
  <2>4. op' = [op EXCEPT ![c] = o]
    BY <1>2, <1>6, <2>1, <2>2, <2>3 DEF AppendReadOut, Leaving
  <2>5. Seen(o)' /\ o.pc # "trim"
    BY <1>3, <2>1, <2>3 DEF Seen
  <2> QED
    BY <1>1, <1>3, <2>4, <2>5, DigestStays
<1>7. CASE AppendReadDigest(c)
  <2>1. op[c].surplus = Surplus(s) /\ Surplus(s) > 0 /\ op[c].out = Leaving(s)
    BY <1>1, <1>2, <1>7 DEF AppendReadDigest, At, Seen
  <2>2. PICK o : o = [session |-> s, pc |-> "write_digest", surplus |-> Surplus(s),
                      digest |-> BuildTopicDigest(Hash(s).digest, Leaving(s))]
    OBVIOUS
  <2>3. op' = [op EXCEPT ![c] = o]
    BY <1>2, <1>7, <2>1, <2>2 DEF AppendReadDigest
  <2>4. BuildTopicDigest(Hash(s).digest, Leaving(s))' = BuildTopicDigest(Hash(s).digest, Leaving(s))
    BY <1>3 DEF BuildTopicDigest
  <2>5. o.session = s /\ o.pc = "write_digest" /\ o.surplus = Surplus(s)
        /\ o.digest = BuildTopicDigest(Hash(s).digest, Leaving(s))
    BY <2>2
  <2>6. Seen(o)' /\ o.pc # "trim"
    BY <1>3, <2>1, <2>4, <2>5 DEF Seen
  <2> QED
    BY <1>1, <1>3, <2>3, <2>6, DigestStays
<1> QED
  BY <1>5, <1>6, <1>7

(* _touch changes only expiries. *)
LEMMA TouchRemembers ==
  ASSUME OneInstance, RedisInv, OneInv, NEW c \in Client, TouchMeta(c) \/ TouchList(c)
  PROVE  OneInv'
<1>1. /\ op[c] # Idle /\ InProgress(op[c]) /\ op[c].pc \in {"touch_meta", "touch_list"}
      /\ UNCHANGED <<meta, list, evicted, topics, crashes>>
  BY AtCommand DEF TouchMeta, TouchList, At, history
<1>2. \A r \in Session : Hash(r)' = Hash(r)
  BY <1>1 DEF Hash
<1>3. PICK o : op' = [op EXCEPT ![c] = o] /\ (o # Idle => o.pc = "touch_list")
  <2>1. PICK o : o = [op[c] EXCEPT !.pc = "touch_list"]
    OBVIOUS
  <2>2. o.pc = "touch_list"
    BY <1>1, <2>1 DEF InProgress, Getting, Writing, Reading, Folding, Trimming
  <2>3. op' = [op EXCEPT ![c] = Idle] \/ op' = [op EXCEPT ![c] = o]
    BY <2>1 DEF TouchMeta, TouchList, Goto
  <2> QED
    BY <2>2, <2>3
<1>4. Seen(o)' /\ (o # Idle => o.pc # "trim")
  BY <1>3, NothingSeen
<1> QED
  BY <1>1, <1>2, <1>3, <1>4, DigestStays

(* How often the topics of a characters trimmed and b due can be folded in. *)
LEMMA Products ==
  ASSUME NEW k \in Nat, NEW a \in Nat, NEW b \in Nat
  PROVE  /\ (1 + k) * a + k * b \in Nat /\ (1 + k) * (a + b) \in Nat
         /\ (1 + k) * a + k * b + b = (1 + k) * (a + b)
         /\ (1 + k) * (a + b) + k * 0 = (1 + k) * (a + b)
         /\ (1 + k) * a + k * b <= (1 + (k + 1)) * a + (k + 1) * b
         /\ (1 + k) * (a + b) <= (1 + (k + 1)) * a + (k + 1) * b
         /\ (1 + (k + 1)) * a + (k + 1) * b \in Nat
         /\ (1 + k) * a + k * b <= (1 + k) * (a + b)
<1>1. k * a \in Nat /\ k * b \in Nat
  OBVIOUS
<1>2. /\ (1 + k) * a = a + k * a /\ (1 + k) * (a + b) = a + b + k * a + k * b
      /\ (1 + (k + 1)) * a = a + a + k * a /\ (k + 1) * b = b + k * b /\ k * 0 = 0
  OBVIOUS
<1> QED
  BY <1>1, <1>2

(* A multiple of more is more. *)
LEMMA ProductOrder ==
  ASSUME NEW k \in Nat, NEW a \in Nat, NEW b \in Nat, a <= b
  PROVE  /\ (1 + k) * a \in Nat /\ (1 + k) * b \in Nat /\ (1 + k) * a <= (1 + k) * b
<1>1. PICK rest \in Nat : b = a + rest
  <2>1. b - a \in Nat /\ b = a + (b - a)
    OBVIOUS
  <2> QED
    BY <2>1
<1>2. /\ (1 + k) * (a + rest) = (1 + k) * a + (1 + k) * rest
      /\ (1 + k) * a \in Nat /\ (1 + k) * rest \in Nat
  OBVIOUS
<1> QED
  BY <1>1, <1>2

(* And so is a product of more. *)
LEMMA ProductGrows ==
  ASSUME NEW k \in Nat, NEW a \in Nat, NEW b \in Nat, NEW more \in Nat
  PROVE  (1 + k) * a + k * b <= (1 + k) * a + k * (b + more)
<1>1. k * (b + more) = k * b + k * more /\ k * more \in Nat /\ k * b \in Nat /\ (1 + k) * a \in Nat
  OBVIOUS
<1> QED
  BY <1>1

(* What a step leaves of one session is remembered as before. *)
LEMMA RememberedStays ==
  ASSUME NEW s \in Session, Remembered(s), Unused(s),
         list'[s] = list[s], evicted'[s] = evicted[s], topics'[s] = topics[s], crashes' = crashes,
         Hash(s)'.digest = Hash(s).digest, meta'[s] = NoKey => meta[s] = NoKey,
         ~AboutToTrim(s), ~AboutToTrim(s)'
  PROVE  Remembered(s)' /\ Unused(s)'
<1>1. Done(s)' = Done(s) /\ Due(s)' = Due(s)
  BY DEF Done, Due, Leaving, Surplus
<1>2. PICK d, k, tops : d = Hash(s).digest /\ k = (1 + crashes) * Done(s) + crashes * Due(s)
                        /\ tops = UserTopics(evicted[s])
  OBVIOUS
<1>3. Folds(d, k, tops)
  BY <1>2 DEF Remembered
<1>4. d = Hash(s)'.digest /\ k = ((1 + crashes) * Done(s) + crashes * Due(s))'
      /\ tops = UserTopics(evicted[s])'
  BY <1>1, <1>2 DEF UserTopics
<1> QED
  BY <1>3, <1>4 DEF Remembered, Unused

(* RPUSH: what is due may grow by the message that the new one displaces. *)
LEMMA PushDisplaces ==
  ASSUME Shape, Typed, NEW s \in Session, NEW e \in Entry,
         list' = [list EXCEPT ![s] = Append(@, e)]
  PROVE  \E more \in Nat : Due(s)' = Due(s) + more
<1>1. PICK l \in Seq(Entry), n \in Nat : l = list[s] /\ n = Len(l)
  BY LenProperties DEF Shape
<1>2. PICK p : p = Append(l, e)
  OBVIOUS
<1>3. /\ p \in Seq(Entry) /\ Len(p) = n + 1 /\ \A i \in 1 .. n : p[i] = l[i]
      /\ list'[s] = p
  BY <1>1, <1>2, AppendProperties DEF Shape
<1>4. PICK w \in Nat \ {0} : w = Window
  BY RedisAssumption
<1>5. Surplus(s) = n - w /\ Surplus(s)' = n + 1 - w
  BY <1>1, <1>3, <1>4 DEF Surplus
<1>6. Leaving(s) = SubSeq(l, 1, n - w) /\ Leaving(s)' = SubSeq(p, 1, n + 1 - w)
  BY <1>1, <1>3, <1>5 DEF Leaving
<1>7. CASE n + 1 - w <= 0
  <2>1. Leaving(s) = <<>> /\ Leaving(s)' = <<>>
    BY <1>1, <1>3, <1>4, <1>6, <1>7
  <2>2. Due(s)' = Due(s) + 0
    BY <2>1, LeavingOK DEF Due
  <2> QED
    BY <2>2
<1>8. CASE n + 1 - w > 0
  <2>1. PICK m \in Nat : m = n - w /\ m + 1 <= n
    <3>1. n - w \in Nat /\ (n - w) + 1 <= n
      BY <1>4, <1>8
    <3> QED
      BY <3>1
  <2>2. PICK a \in Seq(Entry), x \in Entry : a = SubSeq(l, 1, m) /\ x = l[m + 1]
    <3>1. SubSeq(l, 1, m) \in Seq(Entry) /\ l[m + 1] \in Entry
      BY <1>1, <2>1
    <3> QED
      BY <3>1
  <2>3. <<x>> \in Seq(Entry)
    BY <2>2
  <2>4. SubSeq(p, 1, m + 1) = a \o <<x>>
    <3>1. /\ SubSeq(p, 1, m) \in Seq(Entry) /\ SubSeq(l, 1, m) \in Seq(Entry)
          /\ Len(SubSeq(p, 1, m)) = m /\ Len(SubSeq(l, 1, m)) = m
          /\ \A i \in 1 .. m : SubSeq(p, 1, m)[i] = p[i] /\ SubSeq(l, 1, m)[i] = l[i] /\ p[i] = l[i]
      BY <1>1, <1>3, <2>1
    <3>2. SubSeq(p, 1, m) = a
      BY <2>2, <3>1, SeqEqual
    <3>3. m + 1 <= Len(p) /\ p[m + 1] = x
      BY <1>3, <2>1, <2>2
    <3> QED
      BY <1>3, <3>2, <3>3, PrefixGrows
  <2>5. Leaving(s) = a /\ Leaving(s)' = a \o <<x>>
    BY <1>6, <2>1, <2>2, <2>4
  <2>6. \A y \in Entry : y.content \in Content
    BY DEF Entry
  <2>7. TopicsIn(a \o <<x>>) = TopicsIn(a) \o TopicsIn(<<x>>)
    BY <2>3, <2>6, TopicsInConcat
  <2>8. TopicsIn(a) \in Seq(Topic) /\ TopicsIn(<<x>>) \in Seq(Topic)
    BY <2>3, <2>6, TopicsInType
  <2>9. PICK more \in Nat : more = Characters(TopicsIn(<<x>>))
    BY <2>8, JoinedLengthBounds
  <2>10. PICK v, w1 \in Seq(Topic) : v = TopicsIn(a) /\ w1 = TopicsIn(<<x>>)
    BY <2>8
  <2>11. Characters(v \o w1) = Characters(v) + Characters(w1)
    BY CharactersConcat
  <2>12. Due(s) = Characters(v) /\ Due(s)' = Characters(v \o w1)
    BY <2>5, <2>7, <2>10 DEF Due
  <2>13. Due(s)' = Due(s) + more
    BY <2>9, <2>10, <2>11, <2>12
  <2> QED
    BY <2>13
<1> QED
  BY <1>1, <1>4, <1>7, <1>8

(* An RPUSH displaces at most one entry more, which is due from then on. *)
LEMMA PushRemembers ==
  ASSUME OneInstance, RedisInv, Typed, OneInv, NEW c \in Client, NEW s \in Session,
         NEW role \in {"user", "assistant"}, NEW t \in Content, AppendPush(c, s, role, t)
  PROVE  OneInv'
<1>1. PICK o : o.pc \in {"count", "measure"} /\ op[c] = Idle /\ op' = [op EXCEPT ![c] = o]
  <2>1. PICK o : o = [session |-> s, pc |-> IF role = "user" THEN "count" ELSE "measure"]
    OBVIOUS
  <2>2. Begin(c, o) /\ o.pc \in {"count", "measure"}
    BY <2>1 DEF AppendPush
  <2> QED
    BY <2>2 DEF Begin
<1>2. PICK e : e = [session |-> s, id |-> lastId + 1, role |-> role, content |-> t]
  OBVIOUS
<1>3. e \in Entry
  BY <1>2 DEF AppendPush, Entry
<1>4. /\ list' = [list EXCEPT ![s] = Append(@, e)] /\ meta[s] # NoKey
      /\ UNCHANGED <<meta, evicted, topics, crashes>>
  BY <1>2 DEF AppendPush, Obtained, OneInstance
<1>5. /\ \A d \in Client : op'[d] = o
      /\ \A r \in Session : ~AboutToTrim(r) /\ ~AboutToTrim(r)'
  BY <1>1, SoleOperation DEF RedisInv
<1>6. ASSUME NEW r \in Session, r # s PROVE Remembered(r)' /\ Unused(r)'
  <2>1. list'[r] = list[r] /\ Hash(r)' = Hash(r)
    BY <1>4, <1>6 DEF Hash, RedisInv, Shape
  <2> QED
    BY <1>4, <1>5, <2>1, RememberedStays DEF OneInv
<1>7. Remembered(s)'
  <2>1. PICK more \in Nat : Due(s)' = Due(s) + more
    BY <1>3, <1>4, PushDisplaces DEF RedisInv
  <2>2. PICK k \in Nat, a \in Nat, b \in Nat : k = crashes /\ a = Done(s) /\ b = Due(s)
    BY LeavingOK DEF RedisInv, Shape
  <2>3. Done(s)' = a /\ Due(s)' = b + more /\ crashes' = k
    BY <1>4, <2>1, <2>2 DEF Done
  <2>4. PICK d, tops : d = Hash(s).digest /\ tops = UserTopics(evicted[s])
    OBVIOUS
  <2>5. Folds(d, (1 + k) * a + k * b, tops)
    BY <1>5, <2>2, <2>4 DEF Remembered, OneInv
  <2>6. PICK x \in Nat, y \in Nat : x = (1 + k) * a + k * b /\ y = (1 + k) * a + k * (b + more) /\ x <= y
    <3>1. b + more \in Nat
      OBVIOUS
    <3> QED
      BY <3>1, Products, ProductGrows
  <2>7. Folds(d, y, tops)
    BY <2>5, <2>6, FoldsWeaker
  <2>8. d = Hash(s)'.digest /\ tops = UserTopics(evicted[s])'
    BY <1>4, <2>4 DEF Hash, UserTopics
  <2> QED
    BY <1>5, <2>3, <2>6, <2>7, <2>8 DEF Remembered
<1>8. Unused(s)'
  BY <1>4 DEF Unused
<1>9. Seen(o)'
  BY <1>1, NothingSeen
<1> QED
  BY <1>5, <1>6, <1>7, <1>8, <1>9 DEF OneInv

(* HSET topic_digest: what leaves the window is folded in before it goes. *)
LEMMA DigestRemembers ==
  ASSUME OneInstance, RedisInv, Typed, OneInv, NEW c \in Client, AppendWriteDigest(c)
  PROVE  OneInv'
<1>1. /\ op[c] # Idle /\ InProgress(op[c]) /\ op[c].session \in Session
      /\ op[c].pc = "write_digest" /\ Seen(op[c]) /\ OpTyped(op[c])
      /\ UNCHANGED <<list, evicted, topics, crashes>>
  BY AtCommand DEF AppendWriteDigest, At, history, OneInv, Typed
<1>2. PICK s \in Session : s = op[c].session
  BY <1>1
<1>3. PICK new \in Seq(Topic) : new = TopicsIn(Leaving(s))
  BY LeavingOK DEF RedisInv
<1>4. /\ op[c].surplus = Surplus(s) /\ Surplus(s) > 0
      /\ op[c].digest = KeepRecent(Hash(s).digest \o new) /\ op[c].digest \in Seq(Topic)
  BY <1>1, <1>2, <1>3 DEF Seen, OpTyped, BuildTopicDigest
<1>5. PICK h \in Meta : h = [Hash(s) EXCEPT !.bare = FALSE, !.digest = op[c].digest]
  BY <1>4, HashIsTyped
<1>6. meta' = [meta EXCEPT ![s] = h]
  BY <1>2, <1>5 DEF AppendWriteDigest
<1>7. /\ Hash(s)' = h /\ meta'[s] # NoKey
      /\ \A r \in Session : r # s => Hash(r)' = Hash(r) /\ meta'[r] = meta[r]
  BY <1>6, HashAfter
<1>8. h.digest = KeepRecent(Hash(s).digest \o new)
  BY <1>4, <1>5, HashIsTyped DEF Meta
<1>9. PICK o : o = [op[c] EXCEPT !.pc = "trim"]
  OBVIOUS
<1>10. o.pc = "trim" /\ o.session = s /\ o.surplus = Surplus(s) /\ o # Idle
  BY <1>1, <1>2, <1>4, <1>9, PlaceTells DEF Trimming, Idle
<1>11. op' = [op EXCEPT ![c] = o]
  BY <1>9 DEF AppendWriteDigest, Goto
<1>12. /\ \A d \in Client : op'[d] = o
       /\ \A r \in Session : ~AboutToTrim(r) /\ (AboutToTrim(r)' <=> r = s)
  BY <1>1, <1>10, <1>11, SoleOperation DEF RedisInv
<1>13. ASSUME NEW r \in Session, r # s PROVE Remembered(r)' /\ Unused(r)'
  BY <1>1, <1>7, <1>12, <1>13, RememberedStays DEF OneInv
<1>14. Surplus(s)' = Surplus(s) /\ Leaving(s)' = Leaving(s) /\ Done(s)' = Done(s) /\ Due(s)' = Due(s)
  BY <1>1 DEF Surplus, Leaving, Done, Due
<1>15. Seen(o)'
  BY <1>4, <1>10, <1>14 DEF Seen
<1>16. Remembered(s)'
  <2>1. PICK k \in Nat, a \in Nat, b \in Nat : k = crashes /\ a = Done(s) /\ b = Due(s)
    BY LeavingOK DEF RedisInv, Shape
  <2>2. PICK d, tops : d = Hash(s).digest /\ tops = UserTopics(evicted[s])
    OBVIOUS
  <2>3. Folds(d, (1 + k) * a + k * b, tops)
    BY <1>12, <2>1, <2>2 DEF Remembered, OneInv
  <2>4. b = Characters(new)
    BY <1>3, <2>1 DEF Due
  <2>5. PICK x \in Nat : x = (1 + k) * a + k * b
    BY Products
  <2>6. Folds(KeepRecent(d \o new), x + Characters(new), tops \cup ToSet(new))
    BY <2>3, <2>5, FoldsMore
  <2>7. x + Characters(new) = (1 + k) * (a + b)
    BY <2>4, <2>5, Products
  <2>8. PICK y \in Nat : y = (1 + k) * (a + b)
    BY Products
  <2>9. PICK few \in SUBSET (tops \cup ToSet(new)) : few = UserTopics(evicted[s] \cup ToSet(Leaving(s)))
    <3>1. UserTopics(ToSet(Leaving(s))) \subseteq ToSet(new)
      BY <1>3, LeavingOK DEF RedisInv
    <3>2. UserTopics(evicted[s] \cup ToSet(Leaving(s))) \subseteq tops \cup ToSet(new)
      BY <2>2, <3>1 DEF UserTopics
    <3> QED
      BY <3>2
  <2>10. PICK e : e = KeepRecent(d \o new)
    OBVIOUS
  <2>11. Folds(e, y, few)
    <3>1. Folds(e, y, tops \cup ToSet(new)) /\ y <= y
      BY <2>6, <2>7, <2>8, <2>10
    <3> QED
      BY <3>1, FoldsWeaker
  <2>12. e = Hash(s)'.digest
    BY <1>7, <1>8, <2>2, <2>10
  <2>13. few = UserTopics(evicted[s] \cup ToSet(Leaving(s)))'
    BY <1>1, <1>14, <2>9 DEF UserTopics
  <2>14. y = ((1 + crashes) * (Done(s) + Due(s)))'
    BY <1>1, <1>14, <2>1, <2>8
  <2> QED
    BY <1>12, <2>11, <2>12, <2>13, <2>14 DEF Remembered
<1>17. Unused(s)'
  BY <1>7 DEF Unused
<1> QED
  BY <1>12, <1>13, <1>15, <1>16, <1>17 DEF OneInv

(* LTRIM: exactly what was folded in goes. *)
LEMMA TrimRemembers ==
  ASSUME OneInstance, RedisInv, Typed, OneInv, NEW c \in Client, AppendTrim(c)
  PROVE  OneInv'
<1>1. /\ op[c] # Idle /\ InProgress(op[c]) /\ op[c].session \in Session
      /\ op[c].pc = "trim" /\ Seen(op[c]) /\ UNCHANGED <<meta, crashes>>
  BY AtCommand DEF AppendTrim, At, OneInv
<1>2. PICK s \in Session : s = op[c].session
  BY <1>1
<1>3. op[c].surplus = Surplus(s) /\ Surplus(s) > 0
  BY <1>1, <1>2 DEF Seen
<1>4. PICK l \in Seq(Entry), n \in Nat, w \in Nat : l = list[s] /\ n = Len(l) /\ w = Window
  BY LenProperties, RedisAssumption DEF RedisInv, Shape
<1>5. PICK m \in Nat : m = Surplus(s) /\ m = n - w /\ 0 < m /\ m <= n
  <2>1. Surplus(s) = n - w
    BY <1>4 DEF Surplus
  <2> QED
    BY <1>3, <2>1
<1>6. PICK gone \in Seq(Entry) : gone = Leaving(s)
  BY LeavingOK DEF RedisInv
<1>7. gone = SubSeq(list[s], 1, m)
  BY <1>5, <1>6 DEF Leaving
<1>8. PICK rest \in Seq(Entry) : rest = SubSeq(l, m + 1, n) /\ Len(rest) = w
  <2>1. \A i \in m + 1 .. n : l[i] \in Entry
    BY <1>4
  <2>2. SubSeq(l, m + 1, n) \in Seq(Entry) /\ Len(SubSeq(l, m + 1, n)) = w
    BY <1>4, <1>5, <2>1, SubSeqProperties
  <2> QED
    BY <2>2
<1>9. /\ list' = [list EXCEPT ![s] = SubSeq(@, m + 1, Len(@))]
      /\ evicted' = [evicted EXCEPT ![s] = @ \cup ToSet(gone)]
      /\ topics' = [topics EXCEPT ![s] = @ \o TopicsIn(gone)]
      /\ Goto(c, "touch_meta")
  <2>1. m = IF op[c].surplus <= Len(list[s]) THEN op[c].surplus ELSE Len(list[s])
    BY <1>3, <1>4, <1>5
  <2> QED
    BY <1>2, <1>7, <2>1 DEF AppendTrim
<1>10. /\ list'[s] = rest /\ evicted'[s] = evicted[s] \cup ToSet(gone)
       /\ topics'[s] = topics[s] \o TopicsIn(gone)
       /\ \A r \in Session : r # s => /\ list'[r] = list[r] /\ evicted'[r] = evicted[r]
                                      /\ topics'[r] = topics[r]
  BY <1>4, <1>8, <1>9 DEF RedisInv, Shape, Typed
<1>11. PICK o : o = [op[c] EXCEPT !.pc = "touch_meta"]
  OBVIOUS
<1>12. o.pc = "touch_meta" /\ op' = [op EXCEPT ![c] = o]
  BY <1>1, <1>9, <1>11, PlaceTells DEF Trimming, Goto
<1>13. /\ \A d \in Client : op'[d] = o
       /\ \A r \in Session : (AboutToTrim(r) <=> r = s) /\ ~AboutToTrim(r)'
  BY <1>1, <1>2, <1>12, SoleOperation DEF RedisInv
<1>14. ASSUME NEW r \in Session, r # s PROVE Remembered(r)' /\ Unused(r)'
  <2>1. Hash(r)' = Hash(r)
    BY <1>1 DEF Hash
  <2> QED
    BY <1>1, <1>10, <1>13, <1>14, <2>1, RememberedStays DEF OneInv
<1>15. Due(s)' = 0
  <2>1. Surplus(s)' = 0
    BY <1>4, <1>8, <1>10 DEF Surplus
  <2>2. Leaving(s)' = <<>>
    BY <1>10, <2>1 DEF Leaving
  <2>3. <<>> \in Seq(Topic)
    OBVIOUS
  <2>4. Characters(<<>>) = 0
    BY <2>3, JoinedLengthBounds
  <2> QED
    BY <2>2, <2>4, TopicsInNone DEF Due
<1>16. Done(s)' = Done(s) + Due(s)
  <2>1. PICK t, v \in Seq(Topic) : t = topics[s] /\ v = TopicsIn(gone)
    BY <1>6, LeavingOK DEF RedisInv, Typed
  <2>2. Characters(t \o v) = Characters(t) + Characters(v)
    BY CharactersConcat
  <2>3. topics'[s] = t \o v
    BY <1>10, <2>1
  <2> QED
    BY <1>6, <2>1, <2>2, <2>3 DEF Done, Due
<1>17. Remembered(s)'
  <2>1. PICK k \in Nat, a \in Nat, b \in Nat : k = crashes /\ a = Done(s) /\ b = Due(s)
    BY LeavingOK DEF RedisInv, Shape
  <2>2. PICK d, tops : d = Hash(s).digest /\ tops = UserTopics(evicted[s] \cup ToSet(gone))
    OBVIOUS
  <2>3. Folds(d, (1 + k) * (a + b), tops)
    BY <1>6, <1>13, <2>1, <2>2 DEF Remembered, OneInv
  <2>4. (1 + k) * (a + b) = (1 + k) * (a + b) + k * 0
    BY Products
  <2>5. Folds(d, (1 + k) * (a + b) + k * 0, tops)
    BY <2>3, <2>4
  <2>6. (1 + k) * (a + b) + k * 0 = ((1 + crashes) * Done(s) + crashes * Due(s))'
    BY <1>1, <1>15, <1>16, <2>1
  <2>7. d = Hash(s)'.digest /\ tops = UserTopics(evicted[s])'
    BY <1>1, <1>10, <2>2 DEF Hash, UserTopics
  <2> QED
    BY <1>13, <2>5, <2>6, <2>7 DEF Remembered
<1>18. Unused(s)'
  <2>1. list[s] # <<>>
    BY <1>4, <1>5
  <2>2. meta[s] # NoKey
    BY <2>1 DEF OneInv, Unused
  <2> QED
    BY <1>1, <2>2 DEF Unused
<1>19. Seen(o)'
  BY <1>12, NothingSeen
<1> QED
  BY <1>13, <1>14, <1>17, <1>18, <1>19 DEF OneInv

(* The instance dies: what it was about to trim may be folded in again. *)
LEMMA CrashRemembers ==
  ASSUME OneInstance, RedisInv, Typed, OneInv, NEW c \in Client, Crash(c)
  PROVE  OneInv'
<1>1. /\ op' = [op EXCEPT ![c] = Idle] /\ crashes' = crashes + 1
      /\ UNCHANGED <<meta, list, evicted, topics>>
  BY DEF Crash, history
<1>2. \A d \in Client : op'[d] = Idle
  BY <1>1, SoleOperation DEF RedisInv
<1>3. Seen(Idle)'
  BY DEF Seen
<1>4. ASSUME NEW s \in Session PROVE Remembered(s)' /\ Unused(s)'
  <2>1. PICK k \in Nat, a \in Nat, b \in Nat : k = crashes /\ a = Done(s) /\ b = Due(s)
    BY LeavingOK DEF RedisInv, Shape
  <2>2. crashes' = k + 1 /\ Done(s)' = a /\ Due(s)' = b
    BY <1>1, <2>1 DEF Done, Due, Leaving, Surplus
  <2>3. PICK d, tops, more : /\ d = Hash(s).digest /\ tops = UserTopics(evicted[s])
                             /\ more = UserTopics(evicted[s] \cup ToSet(Leaving(s)))
    OBVIOUS
  <2>4. tops \in SUBSET more /\ tops \in SUBSET tops
    BY <2>3 DEF UserTopics
  <2>5. PICK x \in Nat, y \in Nat, z \in Nat :
           /\ x = (1 + k) * a + k * b /\ y = (1 + k) * (a + b)
           /\ z = (1 + (k + 1)) * a + (k + 1) * b /\ x <= z /\ y <= z
    BY Products
  <2>6. Folds(d, y, more) \/ Folds(d, x, tops)
    BY <2>1, <2>3, <2>5 DEF Remembered, OneInv
  <2>7. Folds(d, z, tops)
    BY <2>4, <2>5, <2>6, FoldsWeaker
  <2>8. ~AboutToTrim(s)'
    BY <1>2 DEF AboutToTrim
  <2>9. d = Hash(s)'.digest /\ tops = UserTopics(evicted[s])'
    BY <1>1, <2>3 DEF Hash, UserTopics
  <2>10. z = ((1 + crashes) * Done(s) + crashes * Due(s))'
    BY <2>2, <2>5
  <2>11. Remembered(s)'
    BY <2>7, <2>8, <2>9, <2>10 DEF Remembered
  <2>12. Unused(s)'
    BY <1>1 DEF OneInv, Unused
  <2> QED
    BY <2>11, <2>12
<1> QED
  BY <1>2, <1>3, <1>4 DEF OneInv

(* With one instance all is remembered at the start, *)
LEMMA OneInit == RedisInit => OneInv
<1> SUFFICES ASSUME RedisInit PROVE OneInv
  OBVIOUS
<1>1. RedisInv /\ Typed
  BY RedisInitInv, RedisInitTyped
<1>2. ASSUME NEW s \in Session PROVE Remembered(s) /\ Unused(s)
  <2>1. /\ Hash(s).digest = <<>> /\ evicted[s] = {} /\ topics[s] = <<>> /\ list[s] = <<>>
        /\ crashes = 0 /\ ~AboutToTrim(s)
    BY DEF RedisInit, Hash, DefaultMeta, AboutToTrim
  <2>2. <<>> \in Seq(Topic)
    OBVIOUS
  <2>3. Characters(<<>>) = 0
    BY <2>2, JoinedLengthBounds
  <2>4. Folds(<<>>, 0, {})
    <3>1. PICK v \in Seq(Topic) : v = <<>>
      BY <2>2
    <3>2. v = KeepRecent(v) /\ Characters(v) <= 0 /\ {} \subseteq ToSet(v)
      BY <2>3, <3>1, KeepRecentNone
    <3> QED
      BY <3>1, <3>2 DEF Folds
  <2>5. Done(s) = 0 /\ Due(s) \in Nat
    BY <1>1, <2>1, <2>3, LeavingOK DEF Done, RedisInv
  <2>6. (1 + crashes) * Done(s) + crashes * Due(s) = 0
    BY <2>1, <2>5
  <2>7. UserTopics(evicted[s]) = {}
    BY <2>1 DEF UserTopics
  <2> QED
    BY <2>1, <2>4, <2>6, <2>7 DEF Remembered, Unused
<1>3. \A c \in Client : Seen(op[c])
  BY DEF RedisInit, Seen
<1> QED
  BY <1>2, <1>3 DEF OneInv

(* and after every command of it, whatever it had read before. *)
LEMMA OneNext ==
  ASSUME OneInstance
  PROVE  RedisInv /\ Typed /\ OneInv /\ [RedisNext]_redisVars => OneInv'
<1> SUFFICES ASSUME RedisInv, Typed, OneInv, [RedisNext]_redisVars PROVE OneInv'
  OBVIOUS
<1>1. ASSUME NEW c \in Client, NEW s \in Session,
             \/ \E u \in User \cup {Null} : GetBegin(c, s, u)
             \/ \E q \in Question, t \in Content : SetPending(c, s, q, t)
             \/ ClearPending(c, s)
      PROVE  OneInv'
  BY <1>1, CallsRemember
<1>2. ASSUME NEW c \in Client, NEW s \in Session, NEW role \in {"user", "assistant"},
             NEW t \in Content, AppendPush(c, s, role, t)
      PROVE  OneInv'
  BY <1>2, PushRemembers
<1>3. ASSUME NEW c \in Client, GetCreate(c) \/ GetSetUser(c)
      PROVE  OneInv'
  BY <1>3, WritesRemember
<1>4. ASSUME NEW c \in Client, AppendContinues(c)
      PROVE  OneInv'
  BY <1>4, WritesRemember, ReadsRemember, DigestRemembers, TrimRemembers DEF AppendContinues
<1>5. ASSUME NEW c \in Client, TouchMeta(c) \/ TouchList(c)
      PROVE  OneInv'
  BY <1>5, TouchRemembers
<1>6. ASSUME NEW c \in Client, Crash(c) PROVE OneInv'
  BY <1>6, CrashRemembers
<1>7. ASSUME NEW s \in Session, ExpireMeta(s) \/ ExpireList(s) PROVE OneInv'
  BY <1>7 DEF ExpireMeta, ExpireList, OneInstance
<1>8. CASE UNCHANGED redisVars
  <2>1. \A s \in Session : /\ AboutToTrim(s)' <=> AboutToTrim(s)
                           /\ Hash(s)' = Hash(s) /\ Leaving(s)' = Leaving(s)
                           /\ Surplus(s)' = Surplus(s) /\ Done(s)' = Done(s) /\ Due(s)' = Due(s)
    BY <1>8 DEF redisVars, AboutToTrim, Hash, Leaving, Surplus, Done, Due
  <2>2. ASSUME NEW s \in Session PROVE Remembered(s)' /\ Unused(s)'
    <3>1. Remembered(s) /\ Unused(s)
      BY DEF OneInv
    <3>2. UNCHANGED <<meta, list, evicted, topics, crashes>>
      BY <1>8 DEF redisVars
    <3> QED
      BY <2>1, <3>1, <3>2 DEF Remembered, Unused, Folds, UserTopics
  <2>3. ASSUME NEW c \in Client PROVE Seen(op[c])'
    <3>1. Seen(op[c]) /\ op' = op /\ meta' = meta
      BY <1>8 DEF OneInv, redisVars
    <3>2. op[c] # Idle => op[c].session \in Session
      BY AtCommand
    <3> QED
      BY <2>1, <3>1, <3>2 DEF Seen, BuildTopicDigest
  <2> QED
    BY <2>2, <2>3 DEF OneInv
<1> QED
  BY <1>1, <1>2, <1>3, <1>4, <1>5, <1>6, <1>7, <1>8 DEF RedisNext

(* "evicted turns should survive as a topic digest" (tests/test_session.py *)
(* line 72): as long as all topics fit, the one instance forgets none,     *)
(* wherever and however often it dies.  A death between the digest's HSET  *)
(* and the LTRIM leaves the list as it was, so the next append folds the   *)
(* same turns in once more: hence (1 + crashes) in the condition.          *)
THEOREM RedisNothingForgotten == OneInstance => (RedisSpec => []NothingForgotten)
<1> SUFFICES ASSUME OneInstance PROVE RedisSpec => []NothingForgotten
  OBVIOUS
<1>1. RedisInv /\ Typed /\ OneInv => NothingForgotten
  <2> SUFFICES ASSUME RedisInv, Typed, OneInv, NEW s \in Session,
                      (1 + crashes) * (JoinedLength(topics[s] \o TopicsIn(Leaving(s)))
                                       + SeparatorLength) <= DigestLimit,
                      NEW m \in evicted[s], m.role = "user"
               PROVE  ToSet(TopicsOf[m.content]) \subseteq ToSet(Hash(s).digest)
    BY DEF NothingForgotten
  <2>1. PICK k \in Nat, a \in Nat, b \in Nat, lim \in Nat :
           k = crashes /\ a = Done(s) /\ b = Due(s) /\ lim = DigestLimit
    BY LeavingOK, TopicAssumption DEF RedisInv, Shape
  <2>2. PICK t, v \in Seq(Topic) : t = topics[s] /\ v = TopicsIn(Leaving(s))
    BY LeavingOK DEF RedisInv, Typed
  <2>3. Characters(t \o v) = a + b
    BY <2>1, <2>2, CharactersConcat DEF Done, Due
  <2>4. PICK all \in Seq(Topic) : all = t \o v
    <3>1. t \o v \in Seq(Topic)
      OBVIOUS
    <3> QED
      BY <3>1
  <2>5. PICK j \in Nat : j = JoinedLength(all) + SeparatorLength /\ a + b <= j
    <3>1. /\ Characters(all) \in Nat /\ JoinedLength(all) \in Nat
          /\ all # <<>> => Characters(all) = JoinedLength(all) + SeparatorLength
          /\ all = <<>> => Characters(all) = 0 /\ JoinedLength(all) = 0
      BY JoinedLengthBounds
    <3>2. Characters(all) = a + b
      BY <2>3, <2>4
    <3>3. JoinedLength(all) + SeparatorLength \in Nat /\ a + b <= JoinedLength(all) + SeparatorLength
      BY <3>1, <3>2 DEF SeparatorLength
    <3> QED
      BY <3>3
  <2>6. (1 + k) * j <= lim
    BY <2>1, <2>2, <2>4, <2>5
  <2>7. PICK x \in Nat, y \in Nat : x = (1 + k) * a + k * b /\ y = (1 + k) * (a + b) /\ x <= y
    <3>1. /\ (1 + k) * a + k * b \in Nat /\ (1 + k) * (a + b) \in Nat
          /\ (1 + k) * a + k * b <= (1 + k) * (a + b)
      BY Products
    <3> QED
      BY <3>1
  <2>8. y <= lim
    <3>1. PICK c \in Nat : c = a + b /\ c <= j
      BY <2>5
    <3>2. (1 + k) * c <= (1 + k) * j /\ (1 + k) * c \in Nat /\ (1 + k) * j \in Nat
      BY <3>1, ProductOrder
    <3>3. PICK q \in Nat : q = (1 + k) * j /\ y <= q
      BY <2>7, <3>1, <3>2
    <3> QED
      BY <2>6, <3>3
  <2>9. PICK d, tops : d = Hash(s).digest /\ tops = UserTopics(evicted[s])
    OBVIOUS
  <2>10. Folds(d, y, tops)
    <3>1. PICK more : more = UserTopics(evicted[s] \cup ToSet(Leaving(s)))
      OBVIOUS
    <3>2. Folds(d, y, more) \/ Folds(d, x, tops)
      BY <2>1, <2>7, <2>9, <3>1 DEF Remembered, OneInv
    <3>3. tops \in SUBSET more /\ tops \in SUBSET tops
      BY <2>9, <3>1 DEF UserTopics
    <3> QED
      BY <2>7, <3>2, <3>3, FoldsWeaker
  <2>11. PICK u \in Seq(Topic) : d = KeepRecent(u) /\ Characters(u) <= y /\ tops \subseteq ToSet(u)
    BY <2>10 DEF Folds
  <2>12. JoinedLength(u) <= DigestLimit
    <3>1. Characters(u) \in Nat /\ JoinedLength(u) \in Nat /\ JoinedLength(u) <= Characters(u)
      <4>1. /\ Characters(u) \in Nat /\ JoinedLength(u) \in Nat
            /\ u # <<>> => Characters(u) = JoinedLength(u) + SeparatorLength
            /\ u = <<>> => Characters(u) = 0 /\ JoinedLength(u) = 0
        BY JoinedLengthBounds
      <4> QED
        BY <4>1 DEF SeparatorLength
    <3> QED
      BY <2>1, <2>8, <2>11, <3>1
  <2>13. d = u
    BY <2>11, <2>12, KeepRecentFits
  <2>14. ToSet(TopicsOf[m.content]) \subseteq tops
    BY <2>9 DEF UserTopics
  <2> QED
    BY <2>9, <2>11, <2>13, <2>14
<1>2. RedisSpec => []OneInv
  <2>1. RedisInv /\ Typed /\ OneInv /\ [RedisNext]_redisVars => OneInv'
    BY OneNext
  <2> QED
    BY <2>1, OneInit, RedisTyped, PTL DEF RedisSpec
<1> QED
  BY <1>1, <1>2, RedisTyped, PTL

------------------------------------------------------------------------------
(* Refinement.  What an operation in progress has done to the store that   *)
(* it found, from one command to the next; and the order of the messages.  *)

(* A list holds at most one message too many, in the order of their ids,   *)
(* all of them newer than what was trimmed.                                *)
Newest(s) == list[s][Len(list[s])]
Increasing(l) == \A i, j \in DOMAIN l : i < j => l[i].id < l[j].id
InOrder(s) ==
    /\ Len(list[s]) <= Window + 1
    /\ Increasing(list[s])
    /\ \A m \in ToSet(list[s]) : m.session = s /\ m.id <= lastId
    /\ \A old \in evicted[s] :
          old.id <= lastId /\ \A m \in ToSet(list[s]) : old.id < m.id

(* Rows of SessionStore, and what its operations make of them. *)
Row(u, q, t, n) == [user |-> u, pending |-> q, intent |-> t, turns |-> n]
RowOf(h) == Row(h.user, h.pending, h.intent, h.turns)
NewRow(u) == Row(u, Null, Null, 0)
Put(rows, s, r) == [rows EXCEPT ![s] = r]
Named(r, u) == [r EXCEPT !.user = u]
Asked(rows, s, q, t) == [rows EXCEPT ![s].pending = q, ![s].intent = t]
Counted(rows, s) == [rows EXCEPT ![s].turns = @ + 1]

(* The rows a get of the user u leaves behind: a new one, or one whose     *)
(* first user u is.                                                        *)
RowsGot(s, u) ==
    [t \in DOMAIN before.row \cup {s} |->
       IF t \notin DOMAIN before.row THEN NewRow(u)
       ELSE IF t = s /\ before.row[t].user = Null THEN Named(before.row[t], u)
       ELSE before.row[t]]
RowsCounted(s, role) == IF role = "user" THEN Counted(before.row, s) ELSE before.row

(* The row of s alone has changed, to those given. *)
OnlyRows(rows) == Now = [before EXCEPT !.row = rows]

(* The newest message of s is new, and perhaps counted.                    *)
Pushed(s, rows) ==
    /\ s \in DOMAIN before.row /\ list[s] # <<>>
    /\ Now.row = rows
    /\ before.messages = Now.messages \ {Newest(s)}
    /\ before.evicted = evicted /\ before.topics = topics

(* The digest of s with those that leave the window folded in. *)
DigestWith(s, out) == [before.digest EXCEPT ![s] = BuildTopicDigest(@, out)]

(* The message m is new, and what is out of the window has left it. *)
AtMostOne == {<<>>} \cup {<<x>> : x \in Entry}
Appended(s, m, out) ==
    /\ s \in DOMAIN before.row
    /\ \A n \in {y \in before.messages : y.session = s} \cup before.evicted[s] : n.id # m.id
    /\ ToSet(out) = Store!OutsideWindow({n \in before.messages : n.session = s} \cup {m})
    /\ Now = [row |-> RowsCounted(s, m.role),
              digest |-> IF out = <<>> THEN before.digest ELSE DigestWith(s, out),
              messages |-> (before.messages \cup {m}) \ ToSet(out),
              evicted |-> [before.evicted EXCEPT ![s] = @ \cup ToSet(out)],
              topics |-> [before.topics EXCEPT ![s] = @ \o TopicsIn(out)]]

(* The operation on s has done what it was called for: a get, a            *)
(* set_pending_clarification or an append_message (or nothing).            *)
Finished(s) ==
    \/ Now = before
    \/ \E u \in User \cup {Null} : OnlyRows(RowsGot(s, u))
    \/ \E q \in Question, t \in Content :
          s \in DOMAIN before.row /\ OnlyRows(Asked(before.row, s, q, t))
    \/ \E m \in Entry, out \in AtMostOne : m.session = s /\ Appended(s, m, out)

(* How far the operation o has got. *)
Progress(o) ==
    o # Idle =>
       /\ o.pc \in {"create", "set_user"} => Now = before
       /\ o.pc = "set_user" => meta[o.session] # NoKey /\ meta[o.session].user = Null
       /\ o.pc = "count" => /\ Pushed(o.session, before.row)
                            /\ Newest(o.session).role = "user"
       /\ o.pc \in {"measure", "read_out", "read_digest", "write_digest", "trim"} =>
             Pushed(o.session, RowsCounted(o.session, Newest(o.session).role))
       /\ o.pc \in {"count", "measure", "read_out", "read_digest", "write_digest"} =>
             before.digest = Now.digest
       /\ o.pc = "trim" => Now.digest = DigestWith(o.session, Leaving(o.session))
       /\ o.pc \in {"touch_meta", "touch_list"} => Finished(o.session)

(* Until the instance dies, it is as far as its operation says. *)
RefInv ==
    crashes = 0 =>
        /\ \A s \in Session : InOrder(s)
        /\ \A c \in Client : Progress(op[c])

(* The operators of the two modules on what leaves the window are the same. *)
LEMMA SameOperators ==
  /\ \A x : Store!TopicsIn(x) = TopicsIn(x)
  /\ \A x, y : Store!BuildTopicDigest(x, y) = BuildTopicDigest(x, y)
  /\ \A x : Store!Cardinality(x) = Cardinality(x)
  /\ \A x : Store!SetToSeqs(x) = SetToSeqs(x)
<1>1. ASSUME NEW x PROVE Store!TopicsIn(x) = TopicsIn(x)
  BY DEF Store!TopicsIn, TopicsIn, FlattenSeq, Store!FlattenSeq
<1>2. ASSUME NEW x PROVE Store!KeepRecent(x) = KeepRecent(x)
  BY DEF KeepRecent, Store!KeepRecent, JoinedLength, Store!JoinedLength, Characters,
     Store!Characters, FoldLeft, Store!FoldLeft, MapThenFoldSet, Store!MapThenFoldSet,
     SeparatorLength, Store!SeparatorLength, Max, Store!Max
<1>3. ASSUME NEW x, NEW y PROVE Store!BuildTopicDigest(x, y) = BuildTopicDigest(x, y)
  BY <1>1, <1>2 DEF BuildTopicDigest, Store!BuildTopicDigest
<1>4. ASSUME NEW x PROVE Store!Cardinality(x) = Cardinality(x)
  BY DEF Cardinality, Store!Cardinality
<1>5. ASSUME NEW x PROVE Store!SetToSeqs(x) = SetToSeqs(x)
  BY DEF Cardinality, Store!Cardinality, SetToSeqs, Store!SetToSeqs
<1> QED
  BY <1>1, <1>3, <1>4, <1>5

(* A message or none is in the order of its id. *)
LEMMA OrderOfOne ==
  ASSUME NEW out \in AtMostOne
  PROVE  Store!InIdOrder(ToSet(out)) = out
<1>1. CASE out = <<>>
  <2>1. ToSet(out) = {}
    BY <1>1 DEF ToSet
  <2>2. Cardinality({}) = 0
    BY FS_EmptySet
  <2>3. PICK none : none = SetToSeqs({})
    OBVIOUS
  <2>4. \A seq : seq \in none <=> seq = <<>>
    <3>1. none = {f \in [1 .. 0 -> {}] : \A i, j \in 1 .. 0 : i # j => f[i] # f[j]}
      BY <2>2, <2>3 DEF SetToSeqs
    <3>2. 1 .. 0 = {}
      OBVIOUS
    <3>3. \A f \in [{} -> {}] : f = <<>>
      OBVIOUS
    <3>4. <<>> \in [{} -> {}]
      OBVIOUS
    <3> QED
      BY <3>1, <3>2, <3>3, <3>4
  <2>5. Store!InIdOrder({}) =
           CHOOSE seq \in none : \A i, j \in DOMAIN seq : i < j => seq[i].id < seq[j].id
    BY <2>3, SameOperators DEF Store!InIdOrder
  <2>6. \E seq \in none : \A i, j \in DOMAIN seq : i < j => seq[i].id < seq[j].id
    <3>1. \A i, j \in DOMAIN <<>> : ~(i < j)
      OBVIOUS
    <3> QED
      BY <2>4, <3>1
  <2>7. Store!InIdOrder({}) \in none
    BY <2>5, <2>6
  <2> QED
    BY <1>1, <2>1, <2>4, <2>7
<1>2. CASE \E x \in Entry : out = <<x>>
  <2>1. PICK x \in Entry : out = <<x>>
    BY <1>2
  <2>2. ToSet(out) = {x}
    BY <2>1 DEF ToSet
  <2>3. Cardinality({x}) = 1
    BY FS_Singleton
  <2>4. PICK one : one = SetToSeqs({x})
    OBVIOUS
  <2>5. \A seq : seq \in one <=> seq = <<x>>
    <3>1. one = {f \in [1 .. 1 -> {x}] : \A i, j \in 1 .. 1 : i # j => f[i] # f[j]}
      BY <2>3, <2>4 DEF SetToSeqs
    <3>2. \A f \in [1 .. 1 -> {x}] : f = <<x>>
      OBVIOUS
    <3>3. <<x>> \in [1 .. 1 -> {x}] /\ \A i, j \in 1 .. 1 : i = j
      OBVIOUS
    <3> QED
      BY <3>1, <3>2, <3>3
  <2>6. Store!InIdOrder({x}) =
           CHOOSE seq \in one : \A i, j \in DOMAIN seq : i < j => seq[i].id < seq[j].id
    BY <2>4, SameOperators DEF Store!InIdOrder
  <2>7. \E seq \in one : \A i, j \in DOMAIN seq : i < j => seq[i].id < seq[j].id
    <3>1. \A i, j \in DOMAIN <<x>> : ~(i < j)
      OBVIOUS
    <3> QED
      BY <2>5, <3>1
  <2>8. Store!InIdOrder({x}) \in one
    BY <2>6, <2>7
  <2> QED
    BY <2>1, <2>2, <2>5, <2>8
<1> QED
  BY <1>1, <1>2 DEF AtMostOne

(* What of a list in order is out of the window: nothing, or its head. *)
LEMMA OutsideOfList ==
  ASSUME NEW l \in Seq(Entry), Increasing(l), NEW n, n = Len(l), n <= Window + 1
  PROVE  Store!OutsideWindow(ToSet(l)) = IF n <= Window THEN {} ELSE {l[1]}
<1>1. n \in Nat /\ DOMAIN l = 1 .. n /\ \A i \in 1 .. n : l[i] \in Entry
  BY ElementsOf
<1>2. \A m \in Entry : m.id \in Nat
  BY RedisAssumption DEF Entry
<1>3. PICK w \in Nat : w = Window /\ w > 0
  BY RedisAssumption
<1>4. ASSUME NEW i \in 1 .. n
      PROVE  Cardinality({m \in ToSet(l) : m.id > l[i].id}) = n - i
  <2>1. PICK k \in Nat : k = n - i /\ i + k = n
    <3>1. n - i \in Nat /\ i + (n - i) = n
      BY <1>1
    <3> QED
      BY <3>1
  <2>2. PICK r \in Seq(Entry) : r = SubSeq(l, i + 1, n) /\ Len(r) = k
                                /\ \A j \in 1 .. k : r[j] = l[i + j]
    <3>1. SubSeq(l, i + 1, n) \in Seq(Entry)
      BY <1>1
    <3>2. Len(SubSeq(l, i + 1, n)) = k
      BY <1>1, <2>1
    <3>3. \A j \in 1 .. k : SubSeq(l, i + 1, n)[j] = l[i + j]
      BY <1>1, <2>1
    <3> QED
      BY <3>1, <3>2, <3>3
  <2>3. \A j \in 1 .. k : i + j \in 1 .. n /\ i < i + j
    BY <1>1, <2>1
  <2>4. \A j1, j2 \in 1 .. k : r[j1] = r[j2] => j1 = j2
    <3> SUFFICES ASSUME NEW j1 \in 1 .. k, NEW j2 \in 1 .. k, r[j1] = r[j2] PROVE j1 = j2
      OBVIOUS
    <3>1. l[i + j1] = l[i + j2] /\ l[i + j1].id \in Nat
      BY <1>1, <1>2, <2>2, <2>3
    <3>2. \A p, q \in 1 .. n : p < q => l[p].id < l[q].id
      BY <1>1 DEF Increasing
    <3>3. PICK p \in 1 .. n, q \in 1 .. n : p = i + j1 /\ q = i + j2
      BY <2>3
    <3>4. l[p].id = l[q].id /\ l[p].id \in Nat
      BY <3>1, <3>3
    <3>5. ~(p < q) /\ ~(q < p)
      BY <3>2, <3>4
    <3> QED
      BY <1>1, <2>1, <3>3, <3>5
  <2>5. Cardinality(ToSet(r)) = k
    <3>1. r \in Seq(Entry) /\ k = Len(r)
      BY <2>2
    <3>2. Cardinality(ToSet(r)) = k <=> \A j1, j2 \in 1 .. k : r[j1] = r[j2] => j1 = j2
      BY <3>1, SequenceCount
    <3> QED
      BY <2>4, <3>2
  <2>6. ToSet(r) = {m \in ToSet(l) : m.id > l[i].id}
    <3>1. DOMAIN r = 1 .. k
      BY <2>2, ElementsOf
    <3>2. ASSUME NEW m \in ToSet(r) PROVE m \in ToSet(l) /\ m.id > l[i].id
      <4>1. PICK j \in 1 .. k : m = r[j]
        BY <3>1, <3>2 DEF ToSet
      <4>2. m = l[i + j] /\ i + j \in 1 .. n /\ i < i + j
        BY <2>2, <2>3, <4>1
      <4>3. m \in ToSet(l)
        BY <1>1, <4>2 DEF ToSet
      <4>4. l[i].id < m.id /\ l[i].id \in Nat /\ m.id \in Nat
        BY <1>1, <1>2, <4>2 DEF Increasing
      <4> QED
        BY <4>3, <4>4
    <3>3. ASSUME NEW m \in ToSet(l), m.id > l[i].id PROVE m \in ToSet(r)
      <4>1. PICK j \in 1 .. n : m = l[j]
        BY <1>1, <3>3 DEF ToSet
      <4>2. ~(j < i) /\ j # i
        <5>1. l[i].id \in Nat /\ m.id \in Nat
          BY <1>1, <1>2, <4>1
        <5>2. j < i => m.id < l[i].id
          BY <1>1, <4>1 DEF Increasing
        <5> QED
          BY <3>3, <4>1, <5>1, <5>2
      <4>3. PICK d \in 1 .. k : j = i + d
        <5>1. j - i \in 1 .. k /\ j = i + (j - i)
          BY <1>1, <2>1, <4>1, <4>2
        <5> QED
          BY <5>1
      <4>4. m = r[d]
        BY <2>2, <4>1, <4>3
      <4> QED
        BY <3>1, <4>3, <4>4 DEF ToSet
    <3> QED
      BY <3>2, <3>3
  <2> QED
    BY <2>1, <2>5, <2>6
<1>5. Store!OutsideWindow(ToSet(l)) =
         {m \in ToSet(l) : Cardinality({x \in ToSet(l) : x.id > m.id}) >= w}
  BY <1>3, SameOperators DEF Store!OutsideWindow
<1>6. \A m : m \in ToSet(l) <=> \E i \in 1 .. n : m = l[i]
  BY <1>1 DEF ToSet
<1>7. \A m : m \in Store!OutsideWindow(ToSet(l)) <=> \E i \in 1 .. n : m = l[i] /\ n - i >= w
  BY <1>4, <1>5, <1>6
<1>8. CASE n <= w
  <2>1. \A i \in 1 .. n : ~(n - i >= w)
    BY <1>1, <1>3, <1>8
  <2> QED
    BY <1>3, <1>7, <1>8, <2>1
<1>9. CASE n = w + 1
  <2>1. \A i \in 1 .. n : n - i >= w <=> i = 1
    BY <1>1, <1>3, <1>9
  <2>2. 1 \in 1 .. n /\ ~(n <= w)
    BY <1>1, <1>3, <1>9
  <2> QED
    BY <1>3, <1>7, <2>1, <2>2
<1> QED
  BY <1>1, <1>3, <1>8, <1>9

(* What Now shows of the keys. *)
LEMMA NowShows ==
  /\ DOMAIN Now.row = {s \in Session : meta[s] # NoKey}
  /\ Now.row = [s \in {t \in Session : meta[t] # NoKey} |-> RowOf(meta[s])]
  /\ Now.digest = [s \in Session |-> Hash(s).digest]
  /\ Now.messages = UNION {ToSet(list[s]) : s \in Session}
  /\ Now.evicted = evicted /\ Now.topics = topics
BY DEF Now, RowOf, Row

(* The rows are a function, whatever its range. *)
LEMMA RowsTyped == \E V : Now.row \in [DOMAIN Now.row -> V]
<1>1. PICK D, V : D = DOMAIN Now.row /\ V = {RowOf(meta[s]) : s \in D}
  OBVIOUS
<1>2. Now.row \in [D -> V]
  BY <1>1, NowShows
<1> QED
  BY <1>1, <1>2

(* A command that writes one hash. *)
LEMMA OneHash ==
  ASSUME Typed, NEW s \in Session, NEW h \in Meta, meta' = [meta EXCEPT ![s] = h],
         UNCHANGED <<list, evicted, topics>>
  PROVE  Now' = [row |-> [t \in DOMAIN Now.row \cup {s} |->
                            IF t = s THEN RowOf(h) ELSE Now.row[t]],
                 digest |-> [Now.digest EXCEPT ![s] = h.digest],
                 messages |-> Now.messages, evicted |-> evicted, topics |-> topics]
<1>1. \A t \in Session : meta'[t] = IF t = s THEN h ELSE meta[t]
  BY DEF Typed
<1>2. h # NoKey
  BY MetaIsKey
<1>3. {t \in Session : meta'[t] # NoKey} = DOMAIN Now.row \cup {s}
  BY <1>1, <1>2, NowShows
<1>4. [t \in {u \in Session : meta'[u] # NoKey} |-> RowOf(meta'[t])]
         = [t \in DOMAIN Now.row \cup {s} |-> IF t = s THEN RowOf(h) ELSE Now.row[t]]
  BY <1>1, <1>3, NowShows
<1>5. Now.row' = [t \in DOMAIN Now.row \cup {s} |-> IF t = s THEN RowOf(h) ELSE Now.row[t]]
  BY <1>4 DEF Now, RowOf, Row
<1>6. \A t \in Session : Hash(t)' = IF t = s THEN h ELSE Hash(t)
  BY <1>1, <1>2 DEF Hash
<1>7. Now.digest' = [Now.digest EXCEPT ![s] = h.digest]
  BY <1>6, NowShows DEF Now
<1>8. Now' = [row |-> Now.row', digest |-> Now.digest', messages |-> Now.messages,
              evicted |-> evicted, topics |-> topics]
  BY DEF Now
<1> QED
  BY <1>5, <1>7, <1>8

(* The row of a session that has one. *)
LEMMA OldHash ==
  ASSUME Typed, NEW s \in Session, NEW h \in Meta, meta[s] # NoKey,
         meta' = [meta EXCEPT ![s] = h], UNCHANGED <<list, evicted, topics>>
  PROVE  Now' = [row |-> Put(Now.row, s, RowOf(h)),
                 digest |-> [Now.digest EXCEPT ![s] = h.digest],
                 messages |-> Now.messages, evicted |-> evicted, topics |-> topics]
<1>1. s \in DOMAIN Now.row
  BY NowShows
<1>2. DOMAIN Now.row \cup {s} = DOMAIN Now.row
  BY <1>1
<1>3. [t \in DOMAIN Now.row \cup {s} |-> IF t = s THEN RowOf(h) ELSE Now.row[t]]
         = Put(Now.row, s, RowOf(h))
  BY <1>1, <1>2, NowShows DEF Put
<1> QED
  BY <1>3, OneHash

(* A row with these fields, as a set, which the provers know better. *)
RowsWith(u, q, t, n) == [user : {u}, pending : {q}, intent : {t}, turns : {n}]

(* A record is the one of its fields. *)
LEMMA RowWith ==
  ASSUME NEW u, NEW q, NEW t, NEW n
  PROVE  Row(u, q, t, n) \in RowsWith(u, q, t, n) /\ \A x \in RowsWith(u, q, t, n) : x = Row(u, q, t, n)
BY DEF Row, RowsWith

(* The first user of a session, *)
LEMMA RowNamed ==
  ASSUME NEW u, NEW q, NEW t, NEW n, NEW v
  PROVE  Named(Row(u, q, t, n), v) = Row(v, q, t, n)
<1>1. PICK r : r = Row(u, q, t, n)
  OBVIOUS
<1>2. Named(r, v) \in RowsWith(v, q, t, n)
  BY <1>1, RowWith DEF RowsWith, Named
<1> QED
  BY <1>1, <1>2, RowWith

(* a question with its intent, *)
LEMMA RowAsked ==
  ASSUME NEW D, NEW V, NEW f \in [D -> V], NEW s \in D,
         NEW u, NEW q, NEW t, NEW n, f[s] = Row(u, q, t, n), NEW v, NEW w
  PROVE  Asked(f, s, v, w) = Put(f, s, Row(u, v, w, n))
<1>1. f[s] \in RowsWith(u, q, t, n)
  BY RowWith
<1>2. PICK x : x = [f[s] EXCEPT !.pending = v, !.intent = w]
  OBVIOUS
<1>3. x \in RowsWith(u, v, w, n)
  BY <1>1, <1>2 DEF RowsWith
<1>4. x = Row(u, v, w, n)
  BY <1>3, RowWith
<1>5. Asked(f, s, v, w) = [f EXCEPT ![s] = x]
  BY <1>2 DEF Asked
<1> QED
  BY <1>4, <1>5 DEF Put

(* and one turn more. *)
LEMMA RowCounted ==
  ASSUME NEW D, NEW V, NEW f \in [D -> V], NEW s \in D,
         NEW u, NEW q, NEW t, NEW n \in Nat, f[s] = Row(u, q, t, n)
  PROVE  Counted(f, s) = Put(f, s, Row(u, q, t, n + 1))
<1>1. f[s] \in RowsWith(u, q, t, n)
  BY RowWith
<1>2. PICK x : x = [f[s] EXCEPT !.turns = @ + 1]
  OBVIOUS
<1>3. x \in RowsWith(u, q, t, n + 1)
  BY <1>1, <1>2 DEF RowsWith
<1>4. x = Row(u, q, t, n + 1)
  BY <1>3, RowWith
<1>5. Counted(f, s) = [f EXCEPT ![s] = x]
  BY <1>2 DEF Counted
<1> QED
  BY <1>4, <1>5 DEF Put

(* Commands that leave list and evictions alone leave them in order. *)
LEMMA OrderStays ==
  ASSUME UNCHANGED <<list, evicted, lastId>>, NEW s, InOrder(s)
  PROVE  InOrder(s)'
BY DEF InOrder, Increasing

(* The one operation goes on as o. *)
LEMMA GoesOnAs ==
  ASSUME OneInstance, Shape, NEW c \in Client, NEW o, op' = [op EXCEPT ![c] = o],
         crashes = 0 => Progress(o)' /\ \A s \in Session : InOrder(s)', crashes' = crashes
  PROVE  RefInv'
<1>1. \A d \in Client : op'[d] = o
  BY SoleOperation
<1>2. ASSUME crashes' = 0 PROVE (\A d \in Client : Progress(op[d])') /\ \A s \in Session : InOrder(s)'
  BY <1>1, <1>2 DEF Progress
<1> QED
  BY <1>2 DEF RefInv

(* get begins, and set_pending_clarification. *)
LEMMA CallsKeepRef ==
  ASSUME OneInstance, RedisInv, Typed, RefInv, NEW c \in Client, NEW s \in Session,
         \/ \E u \in User \cup {Null} : GetBegin(c, s, u)
         \/ \E q \in Question, t \in Content : SetPending(c, s, q, t)
  PROVE  RefInv'
<1>1. before' = Now /\ UNCHANGED <<list, evicted, topics, lastId, crashes>>
  BY DEF GetBegin, SetPending, Begin, history
<1>2. crashes = 0 => \A r \in Session : InOrder(r)'
  BY <1>1, OrderStays DEF RefInv
<1>3. CASE \E u \in User \cup {Null} : GetBegin(c, s, u)
  <2>1. PICK u \in User \cup {Null} : GetBegin(c, s, u)
    BY <1>3
  <2>2. PICK o : /\ op' = [op EXCEPT ![c] = o] /\ o.session = s
                 /\ o.pc \in {"create", "set_user", "touch_meta"}
                 /\ o.pc = "set_user" => meta[s] # NoKey /\ meta[s].user = Null
    <3>1. PICK pc : /\ op' = [op EXCEPT ![c] = [session |-> s, user |-> u, pc |-> pc]]
                    /\ pc = CASE meta[s] = NoKey -> "create"
                               [] meta[s] # NoKey /\ u # Null /\ meta[s].user = Null -> "set_user"
                               [] OTHER -> "touch_meta"
      BY <2>1 DEF GetBegin, Begin
    <3>2. /\ pc \in {"create", "set_user", "touch_meta"}
          /\ pc = "set_user" => meta[s] # NoKey /\ meta[s].user = Null
      BY <3>1
    <3>3. PICK o : o = [session |-> s, user |-> u, pc |-> pc]
      OBVIOUS
    <3>4. op' = [op EXCEPT ![c] = o] /\ o.session = s /\ o.pc = pc
      BY <3>1, <3>3
    <3> QED
      BY <3>2, <3>4
  <2>3. meta' = meta /\ Now' = Now
    <3>1. meta' = meta /\ list' = list
      BY <1>1, <2>1 DEF GetBegin
    <3> QED
      BY <1>1, <3>1 DEF Now, Hash
  <2>4. Progress(o)'
    BY <1>1, <2>2, <2>3 DEF Progress, Finished
  <2> QED
    BY <1>1, <1>2, <2>2, <2>4, GoesOnAs DEF RedisInv
<1>4. CASE \E q \in Question, t \in Content : SetPending(c, s, q, t)
  <2>1. PICK q \in Question, t \in Content : SetPending(c, s, q, t)
    BY <1>4
  <2>2. PICK o : op' = [op EXCEPT ![c] = o] /\ o = [session |-> s, pc |-> "touch_meta"]
    BY <2>1 DEF SetPending, Begin
  <2>3. PICK g \in Meta : g = meta[s] /\ g = Hash(s) /\ g # NoKey
    BY <2>1 DEF SetPending, Obtained, OneInstance, Typed, Hash
  <2>4. PICK h \in Meta : h = [g EXCEPT !.pending = q, !.intent = t]
    BY <2>3, HashIsTyped
  <2>5. meta' = [meta EXCEPT ![s] = h]
    BY <2>1, <2>3, <2>4 DEF SetPending
  <2>6. Now' = [row |-> Put(Now.row, s, RowOf(h)),
                digest |-> [Now.digest EXCEPT ![s] = h.digest],
                messages |-> Now.messages, evicted |-> evicted, topics |-> topics]
    BY <1>1, <2>3, <2>5, OldHash
  <2>7. s \in DOMAIN Now.row /\ Now.row[s] = RowOf(g) /\ Now.digest[s] = g.digest
    BY <2>3, NowShows
  <2>8. /\ h.user = g.user /\ h.turns = g.turns /\ h.pending = q /\ h.intent = t
        /\ h.digest = g.digest /\ g.turns \in Nat
    BY <2>4 DEF Meta
  <2>9. Put(Now.row, s, RowOf(h)) = Asked(Now.row, s, q, t)
    <3>1. PICK f, D, V : f = Now.row /\ f \in [D -> V] /\ s \in D
      BY <2>7, RowsTyped
    <3>2. f[s] = Row(g.user, g.pending, g.intent, g.turns)
      BY <2>7, <3>1 DEF RowOf
    <3>3. Asked(f, s, q, t) = Put(f, s, Row(g.user, q, t, g.turns))
      BY <2>8, <3>1, <3>2, RowAsked
    <3> QED
      BY <2>8, <3>1, <3>3 DEF RowOf
  <2>10. [Now.digest EXCEPT ![s] = h.digest] = Now.digest
    BY <2>7, <2>8, NowShows
  <2>11. Now' = [Now EXCEPT !.row = Asked(Now.row, s, q, t)]
    <3>1. Now = [row |-> Now.row, digest |-> Now.digest, messages |-> Now.messages,
                 evicted |-> evicted, topics |-> topics]
      BY DEF Now
    <3> QED
      BY <2>6, <2>9, <2>10, <3>1
  <2>12. Progress(o)'
    BY <1>1, <2>2, <2>7, <2>11 DEF Progress, Finished, OnlyRows, Asked
  <2> QED
    BY <1>1, <1>2, <2>2, <2>12, GoesOnAs DEF RedisInv
<1> QED
  BY <1>3, <1>4

(* clear_pending_clarification is one command. *)
LEMMA ClearKeepsRef ==
  ASSUME OneInstance, Shape, RefInv, NEW c \in Client, NEW s \in Session, ClearPending(c, s)
  PROVE  RefInv'
<1>1. op' = op /\ op[c] = Idle /\ UNCHANGED <<list, evicted, lastId, crashes>>
  BY DEF ClearPending, history
<1>2. \A d \in Client : op'[d] = Idle
  BY <1>1 DEF OneInstance
<1> QED
  BY <1>1, <1>2, OrderStays DEF RefInv, Progress

(* What is common to the commands that write the hash of the operation's   *)
(* session and go on.                                                      *)
LEMMA HashWritten ==
  ASSUME RedisInv, NEW c \in Client, op[c] # Idle, NEW pc, op' = [op EXCEPT ![c].pc = pc],
         UNCHANGED before,
         \/ op[c].pc \in {"create", "set_user"} /\ pc = "touch_meta"
         \/ op[c].pc = "count" /\ pc = "measure"
         \/ op[c].pc = "write_digest" /\ pc = "trim"
  PROVE  \E o : op' = [op EXCEPT ![c] = o] /\ o.session = op[c].session /\ o.pc = pc /\ o # Idle
<1>1. PICK p : p = [op[c] EXCEPT !.pc = pc]
  OBVIOUS
<1>2. InProgress(op[c]) /\ op[c].session \in Session
  BY AtCommand
<1>3. InProgress(p) /\ p.session = op[c].session /\ p.pc = pc /\ p # Idle
  BY <1>1, <1>2, PlaceTells, GoesTo
<1>4. op' = [op EXCEPT ![c] = p]
  BY <1>1
<1> QED
  BY <1>3, <1>4

(* HSET by get: a new row, or its first user. *)
LEMMA GetWritesKeepRef ==
  ASSUME OneInstance, RedisInv, Typed, OneInv, RefInv, NEW c \in Client,
         GetCreate(c) \/ GetSetUser(c)
  PROVE  RefInv'
<1>1. PICK s \in Session : s = op[c].session /\ op[c] # Idle
  BY AtCommand DEF GetCreate, GetSetUser, At
<1>2. /\ op[c].pc \in {"create", "set_user"}
      /\ op' = [op EXCEPT ![c].pc = "touch_meta"] /\ before' = before
      /\ UNCHANGED <<list, evicted, topics, lastId, crashes>>
  <2>1. ASSUME GetCreate(c)
        PROVE  /\ op[c].pc = "create" /\ op' = [op EXCEPT ![c].pc = "touch_meta"]
               /\ before' = before /\ UNCHANGED <<list, evicted, topics, lastId, crashes>>
    BY ONLY <2>1 DEF GetCreate, At, Goto, history
  <2>2. ASSUME GetSetUser(c)
        PROVE  /\ op[c].pc = "set_user" /\ op' = [op EXCEPT ![c].pc = "touch_meta"]
               /\ before' = before /\ UNCHANGED <<list, evicted, topics, lastId, crashes>>
    BY ONLY <2>2 DEF GetSetUser, At, Goto, history
  <2> QED
    BY <2>1, <2>2
<1>3. PICK o : op' = [op EXCEPT ![c] = o] /\ o.session = s /\ o.pc = "touch_meta" /\ o # Idle
  <2>1. op[c].pc \in {"create", "set_user"} /\ "touch_meta" = "touch_meta"
    BY <1>2
  <2>2. op' = [op EXCEPT ![c].pc = "touch_meta"] /\ UNCHANGED before /\ op[c] # Idle
    BY <1>1, <1>2
  <2>3. \E o : op' = [op EXCEPT ![c] = o] /\ o.session = op[c].session /\ o.pc = "touch_meta" /\ o # Idle
    BY <2>1, <2>2, HashWritten
  <2> QED
    BY <1>1, <2>3
<1>4. crashes = 0 => \A r \in Session : InOrder(r)'
  BY <1>2, OrderStays DEF RefInv
<1>5. PICK u \in User \cup {Null} : u = op[c].user
  BY <1>1, <1>2 DEF Typed, OpTyped
<1>6. Seen(op[c])
  BY DEF OneInv
<1>7. ASSUME crashes = 0 PROVE Progress(op[c])
  BY <1>7 DEF RefInv
<1>8. Now = [row |-> Now.row, digest |-> Now.digest, messages |-> Now.messages,
             evicted |-> evicted, topics |-> topics]
  BY DEF Now
<1>9. ASSUME crashes = 0 PROVE Now' = [before EXCEPT !.row = RowsGot(s, u)]
  <2>1. Now = before
    BY <1>1, <1>2, <1>7, <1>9 DEF Progress
  <2>2. CASE op[c].pc = "create"
    <3>1. meta[s] = NoKey
      BY <1>1, <1>6, <2>2 DEF Seen
    <3>2. GetCreate(c)
      BY <2>2 DEF GetSetUser, At
    <3>3. PICK g \in Meta : g = Hash(s) /\ g = DefaultMeta
      BY <3>1, HashIsTyped DEF Hash
    <3>4. PICK h \in Meta : h = [g EXCEPT !.bare = FALSE, !.user = u, !.digest = <<>>, !.turns = 0]
      BY <3>3, HashIsTyped
    <3>5. meta' = [meta EXCEPT ![s] = h]
      BY <1>1, <1>5, <3>2, <3>3, <3>4 DEF GetCreate
    <3>6. h.user = u /\ h.digest = <<>> /\ h.turns = 0 /\ h.pending = g.pending /\ h.intent = g.intent
      BY <3>4 DEF Meta
    <3>7. g.digest = <<>> /\ g.pending = Null /\ g.intent = Null
      BY <3>3 DEF DefaultMeta
    <3>8. RowOf(h) = NewRow(u)
      BY <3>6, <3>7 DEF RowOf, NewRow
    <3>9. Now' = [row |-> [t \in DOMAIN Now.row \cup {s} |->
                            IF t = s THEN RowOf(h) ELSE Now.row[t]],
                  digest |-> [Now.digest EXCEPT ![s] = h.digest],
                  messages |-> Now.messages, evicted |-> evicted, topics |-> topics]
      BY <1>2, <3>5, OneHash
    <3>10. s \notin DOMAIN Now.row
      BY <3>1, NowShows
    <3>11. [Now.digest EXCEPT ![s] = h.digest] = Now.digest
      BY <3>3, <3>6, <3>7, NowShows
    <3>12. [t \in DOMAIN Now.row \cup {s} |-> IF t = s THEN RowOf(h) ELSE Now.row[t]] = RowsGot(s, u)
      BY <2>1, <3>8, <3>10 DEF RowsGot
    <3> QED
      BY <1>8, <2>1, <3>9, <3>11, <3>12
  <2>3. CASE op[c].pc = "set_user"
    <3>1. meta[s] # NoKey /\ meta[s].user = Null
      BY <1>1, <1>7, <1>9, <2>3 DEF Progress
    <3>2. GetSetUser(c)
      BY <2>3 DEF GetCreate, At
    <3>3. PICK g \in Meta : g = Hash(s) /\ g = meta[s]
      BY <3>1, HashIsTyped DEF Hash
    <3>4. PICK h \in Meta : h = [g EXCEPT !.bare = FALSE, !.user = u]
      BY <3>3, HashIsTyped
    <3>5. meta' = [meta EXCEPT ![s] = h]
      BY <1>1, <1>5, <3>2, <3>3, <3>4 DEF GetSetUser
    <3>6. /\ h.user = u /\ h.digest = g.digest /\ h.turns = g.turns
          /\ h.pending = g.pending /\ h.intent = g.intent
      BY <3>4 DEF Meta
    <3>7. Now' = [row |-> Put(Now.row, s, RowOf(h)),
                  digest |-> [Now.digest EXCEPT ![s] = h.digest],
                  messages |-> Now.messages, evicted |-> evicted, topics |-> topics]
      BY <1>2, <3>1, <3>5, OldHash
    <3>8. s \in DOMAIN Now.row /\ Now.row[s] = RowOf(g) /\ Now.digest[s] = g.digest
      BY <3>1, <3>3, NowShows
    <3>9. [Now.digest EXCEPT ![s] = h.digest] = Now.digest
      BY <3>6, <3>8, NowShows
    <3>10. Named(Now.row[s], u) = RowOf(h)
      BY <3>6, <3>8, RowNamed DEF RowOf
    <3>11. Now.row[s].user = Null
      BY <3>1, <3>3, <3>8 DEF RowOf, Row
    <3>12. Put(Now.row, s, RowOf(h)) = RowsGot(s, u)
      <4>1. PICK f, D, V : f = Now.row /\ f \in [D -> V] /\ s \in D
        BY <3>8, RowsTyped
      <4>2. RowsGot(s, u) = [t \in D |-> IF t = s THEN RowOf(h) ELSE f[t]]
        BY <2>1, <3>10, <3>11, <4>1 DEF RowsGot
      <4> QED
        BY <4>1, <4>2 DEF Put
    <3> QED
      BY <1>8, <2>1, <3>7, <3>9, <3>12
  <2> QED
    BY <1>2, <2>2, <2>3
<1>10. ASSUME crashes = 0 PROVE Progress(o)'
  <2>1. RowsGot(s, u)' = RowsGot(s, u)
    BY <1>2 DEF RowsGot
  <2>2. OnlyRows(RowsGot(s, u))'
    BY <1>2, <1>9, <1>10, <2>1 DEF OnlyRows
  <2>3. Finished(s)'
    BY <2>2 DEF Finished
  <2> QED
    BY <1>3, <2>3 DEF Progress
<1> QED
  BY <1>2, <1>3, <1>4, <1>10, GoesOnAs DEF RedisInv

(* The messages of a session are those of its list. *)
LEMMA SessionMessages ==
  ASSUME \A r \in Session : InOrder(r), NEW s \in Session
  PROVE  /\ ToSet(list[s]) \subseteq Now.messages
         /\ {n \in Now.messages : n.session = s} = ToSet(list[s])
<1>1. ASSUME NEW n \in Now.messages, n.session = s PROVE n \in ToSet(list[s])
  <2>1. PICK r \in Session : n \in ToSet(list[r])
    BY NowShows
  <2>2. n.session = r
    BY <2>1 DEF InOrder
  <2> QED
    BY <1>1, <2>1, <2>2
<1>2. ToSet(list[s]) \subseteq Now.messages
  BY NowShows
<1>3. \A n \in ToSet(list[s]) : n.session = s
  BY DEF InOrder
<1> QED
  BY <1>1, <1>2, <1>3

(* The newest message is new, and with it the list is what it was. *)
LEMMA PushedTells ==
  ASSUME Shape, Typed, \A r \in Session : InOrder(r), NEW s \in Session, NEW rows, Pushed(s, rows)
  PROVE  \E m \in Entry :
            /\ m = Newest(s) /\ m.session = s /\ m \in Now.messages
            /\ before.messages \cup {m} = Now.messages
            /\ {n \in before.messages : n.session = s} \cup {m} = ToSet(list[s])
            /\ \A n \in {y \in before.messages : y.session = s} \cup before.evicted[s] : n.id # m.id
<1>1. PICK l \in Seq(Entry), n \in Nat : l = list[s] /\ n = Len(l) /\ n > 0
  <2>1. list[s] \in Seq(Entry) /\ list[s] # <<>>
    BY DEF Shape, Pushed
  <2>2. PICK l \in Seq(Entry) : l = list[s] /\ l # <<>>
    BY <2>1
  <2>3. Len(l) \in Nat /\ Len(l) > 0
    BY <2>2
  <2> QED
    BY <2>2, <2>3
<1>2. DOMAIN l = 1 .. n /\ \A i \in 1 .. n : l[i] \in Entry
  BY <1>1, ElementsOf
<1>3. n \in 1 .. n
  BY <1>1
<1>4. PICK m \in Entry : m = l[n] /\ m = Newest(s)
  BY <1>1, <1>2, <1>3 DEF Newest
<1>5. m \in ToSet(l)
  BY <1>2, <1>3, <1>4 DEF ToSet
<1>6. m.session = s /\ m \in Now.messages
  BY <1>1, <1>5, SessionMessages DEF InOrder
<1>7. before.messages = Now.messages \ {m} /\ before.evicted = evicted
  BY <1>4 DEF Pushed
<1>8. before.messages \cup {m} = Now.messages
  BY <1>6, <1>7
<1>9. {y \in before.messages : y.session = s} \cup {m} = ToSet(l)
  BY <1>1, <1>5, <1>7, SessionMessages
<1>10. ASSUME NEW x \in before.messages, x.session = s PROVE x.id # m.id
  <2>1. x \in ToSet(l) /\ x # m
    BY <1>7, <1>9, <1>10
  <2>2. PICK i \in 1 .. n : x = l[i]
    BY <1>2, <2>1 DEF ToSet
  <2>3. i # n
    BY <1>4, <2>1, <2>2
  <2>4. x.id \in Nat /\ m.id \in Nat
    BY <1>2, <2>2, RedisAssumption DEF Entry
  <2>5. \A a, b \in 1 .. n : a < b => l[a].id < l[b].id
    BY <1>1, <1>2 DEF InOrder, Increasing
  <2>6. i < n
    BY <2>3
  <2>7. x.id < m.id
    BY <1>3, <1>4, <2>2, <2>5, <2>6
  <2> QED
    BY <2>4, <2>7
<1>11. ASSUME NEW x \in before.evicted[s] PROVE x.id # m.id
  <2>1. x \in evicted[s] /\ x \in Entry
    BY <1>7, <1>11 DEF Typed
  <2>2. x.id < m.id /\ x.id \in Nat /\ m.id \in Nat
    BY <1>1, <1>5, <2>1, RedisAssumption DEF InOrder, Entry
  <2> QED
    BY <2>2
<1> QED
  BY <1>1, <1>4, <1>6, <1>8, <1>9, <1>10, <1>11

(* Commands that change nothing that Now shows. *)
LEMMA NowStays ==
  ASSUME UNCHANGED <<meta, list, evicted, topics>>
  PROVE  Now' = Now
BY DEF Now, Hash

(* No surplus is left when no operation is in progress. *)
LEMMA NoSurplus ==
  ASSUME OneInstance, RedisInv, crashes = 0, NEW c \in Client, op[c] = Idle, NEW s \in Session
  PROVE  Len(list[s]) <= Window
<1>1. Trimmers(s, 1) = {}
  BY DEF OneInstance, OwesTrim, Trimmers
<1>2. ~(Surplus(s) > 0)
  <2>1. Cardinality(Trimmers(s, 1)) = 0
    BY <1>1, FS_EmptySet
  <2>2. Cardinality(Trimmers(s, 1)) + crashes >= Surplus(s) - 1 + 1
    BY DEF RedisInv, Owed, TrimOwed
  <2> QED
    BY <2>1, <2>2, SurplusIsInt DEF RedisInv
<1>3. Surplus(s) \in Int /\ Len(list[s]) \in Nat
  BY SurplusIsInt DEF RedisInv
<1>4. PICK n \in Nat, w \in Nat : n = Len(list[s]) /\ w = Window
  BY <1>3, RedisAssumption
<1>5. ~(n - w > 0)
  BY <1>2, <1>4 DEF Surplus
<1> QED
  BY <1>4, <1>5

(* RPUSH of a message keeps the order. *)
LEMMA PushInOrder ==
  ASSUME OneInstance, RedisInv, Typed, crashes = 0, \A r \in Session : InOrder(r),
         NEW c \in Client, op[c] = Idle, NEW s \in Session, NEW e \in Entry,
         e.session = s, e.id = lastId + 1, lastId' = lastId + 1,
         list' = [list EXCEPT ![s] = Append(@, e)], evicted' = evicted
  PROVE  /\ \A r \in Session : InOrder(r)'
         /\ list'[s] # <<>> /\ Newest(s)' = e
         /\ ToSet(list[s])' = ToSet(list[s]) \cup {e}
         /\ \A r \in Session : e \notin ToSet(list[r])
<1>1. PICK l \in Seq(Entry), n \in Nat, w \in Nat, k \in Nat :
         l = list[s] /\ n = Len(l) /\ w = Window /\ k = lastId
  <2>1. list[s] \in Seq(Entry) /\ lastId \in Nat
    BY DEF RedisInv, Shape
  <2>2. Len(list[s]) \in Nat /\ Window \in Nat
    BY <2>1, RedisAssumption
  <2> QED
    BY <2>1, <2>2
<1>2. DOMAIN l = 1 .. n /\ \A i \in 1 .. n : l[i] \in Entry
  BY <1>1, ElementsOf
<1>3. n <= w
  BY <1>1, NoSurplus
<1>4. PICK p \in Seq(Entry) : /\ p = Append(l, e) /\ Len(p) = n + 1 /\ p[n + 1] = e
                              /\ \A i \in 1 .. n : p[i] = l[i]
  <2>1. Append(l, e) \in Seq(Entry) /\ Len(Append(l, e)) = n + 1
    BY <1>1
  <2>2. Append(l, e)[n + 1] = e /\ \A i \in 1 .. n : Append(l, e)[i] = l[i]
    BY <1>1
  <2> QED
    BY <2>1, <2>2
<1>5. list'[s] = p /\ \A r \in Session : r # s => list'[r] = list[r]
  BY <1>1, <1>4 DEF RedisInv, Shape
<1>6. DOMAIN p = 1 .. n + 1
  BY <1>4
<1>7. \A m \in Entry : m.id \in Nat
  BY RedisAssumption DEF Entry
<1>8. \A m : m \in ToSet(p) <=> m \in ToSet(l) \/ m = e
  <2>1. \A m : m \in ToSet(p) <=> \E i \in 1 .. n + 1 : m = p[i]
    BY <1>6 DEF ToSet
  <2>2. \A m : m \in ToSet(l) <=> \E i \in 1 .. n : m = l[i]
    BY <1>2 DEF ToSet
  <2>3. \A i \in 1 .. n + 1 : i \in 1 .. n \/ i = n + 1
    BY <1>1
  <2>4. n + 1 \in 1 .. n + 1 /\ \A i \in 1 .. n : i \in 1 .. n + 1
    BY <1>1
  <2> QED
    BY <1>4, <2>1, <2>2, <2>3, <2>4
<1>9. \A m \in ToSet(l) : m \in Entry /\ m.session = s /\ m.id <= k
  <2>1. ToSet(l) \subseteq Entry
    BY <1>2 DEF ToSet
  <2> QED
    BY <1>1, <2>1 DEF InOrder
<1>10. Increasing(p)
  <2> SUFFICES ASSUME NEW i \in 1 .. n + 1, NEW j \in 1 .. n + 1, i < j PROVE p[i].id < p[j].id
    BY <1>6 DEF Increasing
  <2>1. i \in 1 .. n /\ p[i] = l[i]
    BY <1>1, <1>4
  <2>2. CASE j = n + 1
    <3>1. l[i].id <= k /\ l[i].id \in Nat
      BY <1>2, <1>7, <1>9, <2>1 DEF ToSet
    <3> QED
      BY <1>1, <1>4, <2>1, <2>2, <3>1
  <2>3. CASE j # n + 1
    <3>1. j \in 1 .. n /\ p[j] = l[j]
      BY <1>1, <1>4, <2>3
    <3> QED
      BY <1>1, <1>2, <2>1, <3>1 DEF InOrder, Increasing
  <2> QED
    BY <2>2, <2>3
<1>11. \A old \in evicted[s] : old \in Entry /\ old.id <= k /\ \A m \in ToSet(l) : old.id < m.id
  BY <1>1 DEF InOrder, Typed
<1>12. \A old \in evicted[s] : old.id <= k + 1 /\ old.id < e.id
  BY <1>1, <1>7, <1>11
<1>13. \A m \in ToSet(p) : m.session = s /\ m.id <= k + 1
  BY <1>1, <1>7, <1>8, <1>9
<1>14. InOrder(s)'
  <2>1. PICK v : v = evicted[s]
    OBVIOUS
  <2>2. /\ \A old \in v : old.id <= k + 1 /\ \A m \in ToSet(p) : old.id < m.id
        /\ n + 1 <= w + 1
    BY <1>1, <1>3, <1>8, <1>11, <1>12, <2>1
  <2>3. evicted'[s] = v /\ list'[s] = p /\ lastId' = k + 1
    BY <1>1, <1>5, <2>1
  <2> QED
    BY <1>1, <1>4, <1>10, <1>13, <2>2, <2>3 DEF InOrder
<1>15. ASSUME NEW r \in Session, r # s PROVE InOrder(r)'
  <2>1. PICK q \in Seq(Entry) : q = list[r] /\ q = list'[r]
    BY <1>5, <1>15 DEF RedisInv, Shape
  <2>2. PICK v \in SUBSET Entry : v = evicted[r] /\ v = evicted'[r]
    BY DEF Typed
  <2>3. \A i \in DOMAIN q : q[i] \in Entry
    BY <2>1, ElementsOf
  <2>4. /\ Len(q) <= Window + 1 /\ Increasing(q)
        /\ \A m \in ToSet(q) : m.session = r /\ m.id <= k
        /\ \A old \in v : old.id <= k /\ \A m \in ToSet(q) : old.id < m.id
    BY <1>1, <2>1, <2>2 DEF InOrder
  <2>5. \A m \in ToSet(q) : m.id <= k + 1
    BY <1>1, <1>7, <2>3, <2>4 DEF ToSet
  <2>6. \A old \in v : old.id <= k + 1
    BY <1>1, <1>7, <2>4
  <2>7. lastId' = k + 1
    BY <1>1
  <2> QED
    BY <2>1, <2>2, <2>4, <2>5, <2>6, <2>7 DEF InOrder
<1>16. Newest(s)' = e
  BY <1>4, <1>5 DEF Newest
<1>17. ASSUME NEW r \in Session PROVE e \notin ToSet(list[r])
  <2>1. \A m \in ToSet(list[r]) : m.id <= k
    BY <1>1 DEF InOrder
  <2> QED
    BY <1>1, <2>1
<1>18. p # <<>>
  <2>1. Len(p) # 0
    BY <1>1, <1>4
  <2> QED
    BY <2>1
<1>19. \A r \in Session : InOrder(r)'
  BY <1>14, <1>15
<1>20. ToSet(list[s])' = ToSet(list[s]) \cup {e}
  <2>1. ToSet(list[s])' = ToSet(p)
    BY <1>5 DEF ToSet
  <2> QED
    BY <1>1, <1>8, <2>1
<1> QED
  BY <1>5, <1>16, <1>17, <1>18, <1>19, <1>20

(* RPUSH of a message. *)
LEMMA PushKeepsRef ==
  ASSUME OneInstance, RedisInv, Typed, RefInv, NEW c \in Client, NEW s \in Session,
         NEW role \in {"user", "assistant"}, NEW t \in Content, AppendPush(c, s, role, t)
  PROVE  RefInv'
<1>1. PICK o : /\ o.session = s /\ op[c] = Idle /\ op' = [op EXCEPT ![c] = o] /\ before' = Now
               /\ o.pc = IF role = "user" THEN "count" ELSE "measure"
  <2>1. PICK o : o = [session |-> s, pc |-> IF role = "user" THEN "count" ELSE "measure"]
    OBVIOUS
  <2>2. Begin(c, o) /\ o.session = s /\ o.pc = IF role = "user" THEN "count" ELSE "measure"
    BY <2>1 DEF AppendPush
  <2> QED
    BY <2>2 DEF Begin
<1>2. PICK e : e = [session |-> s, id |-> lastId + 1, role |-> role, content |-> t]
  OBVIOUS
<1>3. e \in Entry /\ e.session = s /\ e.id = lastId + 1 /\ e.role = role
  BY <1>2 DEF AppendPush, Entry
<1>4. /\ list' = [list EXCEPT ![s] = Append(@, e)] /\ meta[s] # NoKey /\ lastId' = lastId + 1
      /\ UNCHANGED <<meta, evicted, topics, crashes>>
  BY <1>2 DEF AppendPush, Obtained, OneInstance
<1>5. ASSUME crashes = 0 PROVE Progress(o)' /\ \A r \in Session : InOrder(r)'
  <2>1. \A r \in Session : InOrder(r)
    BY <1>5 DEF RefInv
  <2>2. /\ \A r \in Session : InOrder(r)'
        /\ list'[s] # <<>> /\ Newest(s)' = e
        /\ ToSet(list[s])' = ToSet(list[s]) \cup {e}
        /\ \A r \in Session : e \notin ToSet(list[r])
    BY <1>1, <1>3, <1>4, <1>5, <2>1, PushInOrder
  <2>3. s \in DOMAIN Now.row
    BY <1>4, NowShows
  <2>4. Now'.row = Now.row /\ Now'.digest = Now.digest
    BY <1>4 DEF Now, Hash
  <2>5. Now'.messages = Now.messages \cup {e}
    <3>1. Now'.messages = UNION {ToSet(list[r])' : r \in Session}
      BY DEF Now
    <3>2. \A r \in Session : r # s => ToSet(list[r])' = ToSet(list[r])
      BY <1>4 DEF ToSet, RedisInv, Shape
    <3> QED
      BY <2>2, <3>1, <3>2, NowShows
  <2>6. e \notin Now.messages
    BY <2>2, NowShows
  <2>7. Pushed(s, before.row)'
    <3>1. before'.row = Now'.row /\ before'.messages = Now'.messages \ {e}
      BY <1>1, <2>4, <2>5, <2>6
    <3>2. before'.evicted = evicted' /\ before'.topics = topics'
      BY <1>1, <1>4, NowShows
    <3>3. s \in DOMAIN before'.row
      BY <1>1, <2>3
    <3> QED
      BY <2>2, <3>1, <3>2, <3>3 DEF Pushed
  <2>8. Newest(s)'.role = role
    BY <1>3, <2>2
  <2>9. role # "user" => RowsCounted(s, Newest(s).role)' = before'.row
    BY <2>8 DEF RowsCounted
  <2>10. o.pc = "measure" => Pushed(s, RowsCounted(s, Newest(s).role))'
    <3>1. ASSUME o.pc = "measure" PROVE role # "user"
      BY <1>1, <3>1
    <3> QED
      BY <2>7, <2>9, <3>1 DEF Pushed
  <2>11. before'.digest = Now'.digest
    BY <1>1, <2>4
  <2>12. o.pc \in {"count", "measure"} /\ (o.pc = "count" => role = "user")
    BY <1>1
  <2>13. Progress(o)'
    BY <1>1, <2>7, <2>8, <2>10, <2>11, <2>12 DEF Progress
  <2> QED
    BY <2>2, <2>13
<1> QED
  BY <1>1, <1>4, <1>5, GoesOnAs DEF RedisInv

(* HINCRBY turn_count. *)
LEMMA CountKeepsRef ==
  ASSUME OneInstance, RedisInv, Typed, RefInv, NEW c \in Client, AppendCount(c)
  PROVE  RefInv'
<1>1. PICK s \in Session : s = op[c].session /\ op[c] # Idle
  BY AtCommand DEF AppendCount, At
<1>2. /\ op[c].pc = "count" /\ op' = [op EXCEPT ![c].pc = "measure"] /\ UNCHANGED before
      /\ UNCHANGED <<list, evicted, topics, lastId, crashes>>
  BY DEF AppendCount, At, Goto, history
<1>3. PICK o : op' = [op EXCEPT ![c] = o] /\ o.session = s /\ o.pc = "measure" /\ o # Idle
  <2>1. \E o : op' = [op EXCEPT ![c] = o] /\ o.session = op[c].session /\ o.pc = "measure" /\ o # Idle
    BY <1>1, <1>2, HashWritten
  <2> QED
    BY <1>1, <2>1
<1>4. crashes = 0 => \A r \in Session : InOrder(r)'
  BY <1>2, OrderStays DEF RefInv
<1>5. ASSUME crashes = 0 PROVE Progress(o)'
  <2>1. Pushed(s, before.row) /\ Newest(s).role = "user" /\ before.digest = Now.digest
    BY <1>1, <1>2, <1>5 DEF RefInv, Progress
  <2>2. s \in DOMAIN Now.row /\ meta[s] # NoKey
    BY <2>1, NowShows DEF Pushed
  <2>3. PICK g \in Meta : g = Hash(s) /\ g = meta[s]
    BY <2>2, HashIsTyped DEF Hash
  <2>4. PICK h \in Meta : h = [g EXCEPT !.bare = FALSE, !.turns = @ + 1]
    BY <2>3, HashIsTyped
  <2>5. meta' = [meta EXCEPT ![s] = h]
    BY <1>1, <2>3, <2>4 DEF AppendCount
  <2>6. /\ h.user = g.user /\ h.digest = g.digest /\ h.turns = g.turns + 1
        /\ h.pending = g.pending /\ h.intent = g.intent /\ g.turns \in Nat
    BY <2>4 DEF Meta
  <2>7. Now' = [row |-> Put(Now.row, s, RowOf(h)),
                digest |-> [Now.digest EXCEPT ![s] = h.digest],
                messages |-> Now.messages, evicted |-> evicted, topics |-> topics]
    BY <1>2, <2>2, <2>5, OldHash
  <2>8. Now.row[s] = RowOf(g) /\ Now.digest[s] = g.digest
    BY <2>2, <2>3, NowShows
  <2>9. [Now.digest EXCEPT ![s] = h.digest] = Now.digest
    BY <2>6, <2>8, NowShows
  <2>10. Put(Now.row, s, RowOf(h)) = Counted(before.row, s)
    <3>1. PICK f, D, V : f = Now.row /\ f \in [D -> V] /\ s \in D
      BY <2>2, RowsTyped
    <3>2. f[s] = Row(g.user, g.pending, g.intent, g.turns)
      BY <2>8, <3>1 DEF RowOf
    <3>3. Counted(f, s) = Put(f, s, Row(g.user, g.pending, g.intent, g.turns + 1))
      <4>1. PICK n \in Nat : n = g.turns
        BY <2>6
      <4>2. Counted(f, s) = Put(f, s, Row(g.user, g.pending, g.intent, n + 1))
        BY <3>1, <3>2, <4>1, RowCounted
      <4> QED
        BY <4>1, <4>2
    <3>4. RowOf(h) = Row(g.user, g.pending, g.intent, g.turns + 1)
      BY <2>6 DEF RowOf
    <3>5. before.row = f
      BY <2>1, <3>1 DEF Pushed
    <3> QED
      BY <3>1, <3>3, <3>4, <3>5
  <2>11. Newest(s)' = Newest(s)
    BY <1>2 DEF Newest
  <2>12. RowsCounted(s, Newest(s).role)' = Counted(before.row, s)
    BY <1>2, <2>1, <2>11 DEF RowsCounted, Counted
  <2>13. Pushed(s, RowsCounted(s, Newest(s).role))'
    <3>1. Now'.row = Counted(before.row, s) /\ Now'.messages = Now.messages
      BY <2>7, <2>10
    <3>2. /\ s \in DOMAIN before.row /\ list[s] # <<>>
          /\ before.messages = Now.messages \ {Newest(s)}
          /\ before.evicted = evicted /\ before.topics = topics
      BY <2>1 DEF Pushed
    <3>3. /\ s \in DOMAIN before'.row /\ list'[s] # <<>>
          /\ before'.messages = Now'.messages \ {Newest(s)'}
          /\ before'.evicted = evicted' /\ before'.topics = topics'
      <4>1. before' = before /\ list' = list /\ evicted' = evicted /\ topics' = topics
        BY <1>2
      <4>2. before'.messages = Now'.messages \ {Newest(s)'}
        BY <2>11, <3>1, <3>2, <4>1
      <4> QED
        BY <3>2, <4>1, <4>2
    <3>4. Now'.row = RowsCounted(s, Newest(s).role)'
      BY <2>12, <3>1
    <3> QED
      BY <3>3, <3>4 DEF Pushed
  <2>14. before'.digest = Now'.digest
    BY <1>2, <2>1, <2>7, <2>9
  <2> QED
    BY <1>3, <2>13, <2>14 DEF Progress
<1> QED
  BY <1>2, <1>3, <1>4, <1>5, GoesOnAs DEF RedisInv

(* A list within the window is as a new message that displaces none left it. *)
LEMMA NothingLeaves ==
  ASSUME Shape, Typed, \A r \in Session : InOrder(r), NEW s \in Session,
         Pushed(s, RowsCounted(s, Newest(s).role)), before.digest = Now.digest,
         Surplus(s) <= 0
  PROVE  Finished(s)
<1>1. PICK m \in Entry :
         /\ m = Newest(s) /\ m.session = s /\ m \in Now.messages
         /\ before.messages \cup {m} = Now.messages
         /\ {n \in before.messages : n.session = s} \cup {m} = ToSet(list[s])
         /\ \A n \in {y \in before.messages : y.session = s} \cup before.evicted[s] : n.id # m.id
  BY PushedTells
<1>2. PICK out : out = <<>>
  OBVIOUS
<1>3. ToSet(out) = {}
  BY <1>2 DEF ToSet
<1>4. Store!OutsideWindow(ToSet(list[s])) = {}
  <2>1. PICK l \in Seq(Entry), n \in Nat, w \in Nat : l = list[s] /\ n = Len(l) /\ w = Window
    BY LenProperties, RedisAssumption DEF Shape
  <2>2. n - w <= 0
    BY <2>1 DEF Surplus
  <2>3. n <= w /\ n <= w + 1
    BY <2>2
  <2>4. Increasing(l)
    BY <2>1 DEF InOrder
  <2> QED
    BY <2>1, <2>3, <2>4, OutsideOfList
<1>5. before.evicted = evicted /\ before.topics = topics
  BY DEF Pushed
<1>6. [before.evicted EXCEPT ![s] = @ \cup ToSet(out)] = before.evicted
  BY <1>3, <1>5 DEF Typed
<1>7. [before.topics EXCEPT ![s] = @ \o TopicsIn(out)] = before.topics
  <2>1. PICK t \in Seq(Topic) : t = before.topics[s]
    BY <1>5 DEF Typed
  <2>2. t \o TopicsIn(out) = t
    BY <1>2, TopicsInNone
  <2> QED
    BY <1>5, <2>1, <2>2 DEF Typed
<1>8. Now = [row |-> RowsCounted(s, m.role),
             digest |-> IF out = <<>> THEN before.digest ELSE DigestWith(s, out),
             messages |-> (before.messages \cup {m}) \ ToSet(out),
             evicted |-> [before.evicted EXCEPT ![s] = @ \cup ToSet(out)],
             topics |-> [before.topics EXCEPT ![s] = @ \o TopicsIn(out)]]
  <2>1. Now = [row |-> Now.row, digest |-> Now.digest, messages |-> Now.messages,
               evicted |-> evicted, topics |-> topics]
    BY DEF Now
  <2>2. Now.row = RowsCounted(s, m.role)
    BY <1>1 DEF Pushed
  <2> QED
    BY <1>1, <1>2, <1>3, <1>5, <1>6, <1>7, <2>1, <2>2
<1>9. Appended(s, m, out)
  BY <1>1, <1>3, <1>4, <1>8 DEF Appended, Pushed
<1>10. out \in AtMostOne
  BY <1>2 DEF AtMostOne
<1> QED
  BY <1>1, <1>9, <1>10 DEF Finished

(* LLEN, LRANGE and HGET write nothing. *)
LEMMA ReadsKeepRef ==
  ASSUME OneInstance, RedisInv, Typed, RefInv, NEW c \in Client,
         AppendMeasure(c) \/ AppendReadOut(c) \/ AppendReadDigest(c)
  PROVE  RefInv'
<1>1. PICK s \in Session : s = op[c].session /\ op[c] # Idle /\ InProgress(op[c])
  BY AtCommand DEF AppendMeasure, AppendReadOut, AppendReadDigest, At
<1>2. /\ op[c].pc \in {"measure", "read_out", "read_digest"} /\ UNCHANGED before
      /\ UNCHANGED <<meta, list, evicted, topics, lastId, crashes>>
  BY DEF AppendMeasure, AppendReadOut, AppendReadDigest, At, history
<1>3. Now' = Now
  BY <1>2, NowStays
<1>4. crashes = 0 => \A r \in Session : InOrder(r)'
  BY <1>2, OrderStays DEF RefInv
<1>5. PICK o : /\ op' = [op EXCEPT ![c] = o] /\ o.session = s
               /\ \/ o.pc \in {"read_out", "read_digest", "write_digest"}
                  \/ o.pc = "touch_meta" /\ Surplus(s) <= 0
  <2>1. CASE AppendMeasure(c)
    <3>1. Surplus(s) \in Int
      BY SurplusIsInt DEF RedisInv
    <3>2. op[c].pc = "measure"
      BY <2>1 DEF AppendMeasure, At
    <3>3. CASE Surplus(s) > 0
      <4>1. PICK o : o = [session |-> s, pc |-> "read_out", surplus |-> Surplus(s)]
        OBVIOUS
      <4>2. op' = [op EXCEPT ![c] = o] /\ o.session = s /\ o.pc = "read_out"
        BY <1>1, <2>1, <3>3, <4>1 DEF AppendMeasure
      <4> QED
        BY <4>2
    <3>4. CASE ~(Surplus(s) > 0)
      <4>1. PICK o : o = [op[c] EXCEPT !.pc = "touch_meta"]
        OBVIOUS
      <4>2. op' = [op EXCEPT ![c] = o]
        BY <1>1, <2>1, <3>4, <4>1 DEF AppendMeasure
      <4>3. o.session = s /\ o.pc = "touch_meta"
        <5>1. Writing(op[c])
          BY <1>1, <3>2, PlaceTells
        <5> QED
          BY <1>1, <4>1, <5>1, GoesTo
      <4>4. Surplus(s) <= 0
        BY <3>1, <3>4
      <4> QED
        BY <4>2, <4>3, <4>4
    <3> QED
      BY <3>3, <3>4
  <2>2. CASE AppendReadOut(c)
    <3>1. PICK o : o = [session |-> s, pc |-> "read_digest", surplus |-> op[c].surplus,
                        out |-> SubSeq(list[s], 1, IF op[c].surplus <= Len(list[s])
                                                   THEN op[c].surplus ELSE Len(list[s]))]
      OBVIOUS
    <3>2. op' = [op EXCEPT ![c] = o] /\ o.session = s /\ o.pc = "read_digest"
      BY <1>1, <2>2, <3>1 DEF AppendReadOut
    <3> QED
      BY <3>2
  <2>3. CASE AppendReadDigest(c)
    <3>1. PICK o : o = [session |-> s, pc |-> "write_digest", surplus |-> op[c].surplus,
                        digest |-> BuildTopicDigest(Hash(s).digest, op[c].out)]
      OBVIOUS
    <3>2. op' = [op EXCEPT ![c] = o] /\ o.session = s /\ o.pc = "write_digest"
      BY <1>1, <2>3, <3>1 DEF AppendReadDigest
    <3> QED
      BY <3>2
  <2> QED
    BY <2>1, <2>2, <2>3
<1>6. ASSUME crashes = 0 PROVE Progress(o)'
  <2>1. Pushed(s, RowsCounted(s, Newest(s).role)) /\ before.digest = Now.digest
    BY <1>1, <1>2, <1>6 DEF RefInv, Progress
  <2>2. Pushed(s, RowsCounted(s, Newest(s).role))'
    BY <1>2, <1>3, <2>1 DEF Pushed, RowsCounted, Counted, Newest
  <2>3. before'.digest = Now'.digest
    BY <1>2, <1>3, <2>1
  <2>4. ASSUME o.pc = "touch_meta" PROVE Finished(s)'
    <3>1. Surplus(s) <= 0
      BY <1>5, <2>4
    <3>2. Finished(s)
      BY <1>6, <2>1, <3>1, NothingLeaves DEF RefInv, RedisInv
    <3> QED
      BY <1>2, <1>3, <3>2 DEF Finished, OnlyRows, RowsGot, Asked, Appended, RowsCounted, Counted, DigestWith
  <2>5. o.pc \in {"read_out", "read_digest", "write_digest", "touch_meta"}
    BY <1>5
  <2> QED
    BY <1>5, <2>2, <2>3, <2>4, <2>5 DEF Progress
<1> QED
  BY <1>2, <1>4, <1>5, <1>6, GoesOnAs DEF RedisInv

(* HSET topic_digest. *)
LEMMA DigestKeepsRef ==
  ASSUME OneInstance, RedisInv, Typed, OneInv, RefInv, NEW c \in Client, AppendWriteDigest(c)
  PROVE  RefInv'
<1>1. PICK s \in Session : s = op[c].session /\ op[c] # Idle
  BY AtCommand DEF AppendWriteDigest, At
<1>2. /\ op[c].pc = "write_digest" /\ op' = [op EXCEPT ![c].pc = "trim"] /\ UNCHANGED before
      /\ UNCHANGED <<list, evicted, topics, lastId, crashes>>
  BY DEF AppendWriteDigest, At, Goto, history
<1>3. PICK o : op' = [op EXCEPT ![c] = o] /\ o.session = s /\ o.pc = "trim" /\ o # Idle
  <2>1. \E o : op' = [op EXCEPT ![c] = o] /\ o.session = op[c].session /\ o.pc = "trim" /\ o # Idle
    BY <1>1, <1>2, HashWritten
  <2> QED
    BY <1>1, <2>1
<1>4. crashes = 0 => \A r \in Session : InOrder(r)'
  BY <1>2, OrderStays DEF RefInv
<1>5. ASSUME crashes = 0 PROVE Progress(o)'
  <2>1. Pushed(s, RowsCounted(s, Newest(s).role)) /\ before.digest = Now.digest
    BY <1>1, <1>2, <1>5 DEF RefInv, Progress
  <2>2. PICK d \in Seq(Topic) : d = op[c].digest /\ d = BuildTopicDigest(Hash(s).digest, Leaving(s))
    BY <1>1, <1>2 DEF OneInv, Seen, Typed, OpTyped
  <2>3. PICK out : out = Leaving(s) /\ out = Leaving(s)'
    BY <1>2 DEF Leaving, Surplus
  <2>4. meta[s] # NoKey
    <3>1. list[s] # <<>>
      BY <2>1 DEF Pushed
    <3> QED
      BY <3>1 DEF OneInv, Unused
  <2>5. PICK g \in Meta : g = Hash(s) /\ g = meta[s]
    BY <2>4, HashIsTyped DEF Hash
  <2>6. PICK h \in Meta : h = [g EXCEPT !.bare = FALSE, !.digest = d]
    BY <2>5, HashIsTyped
  <2>7. meta' = [meta EXCEPT ![s] = h]
    BY <1>1, <2>2, <2>5, <2>6 DEF AppendWriteDigest
  <2>8. /\ h.user = g.user /\ h.digest = d /\ h.turns = g.turns
        /\ h.pending = g.pending /\ h.intent = g.intent
    BY <2>6 DEF Meta
  <2>9. Now' = [row |-> Put(Now.row, s, RowOf(h)),
                digest |-> [Now.digest EXCEPT ![s] = h.digest],
                messages |-> Now.messages, evicted |-> evicted, topics |-> topics]
    BY <1>2, <2>4, <2>7, OldHash
  <2>10. s \in DOMAIN Now.row /\ Now.row[s] = RowOf(g) /\ Now.digest[s] = g.digest
    BY <2>4, <2>5, NowShows
  <2>11. Put(Now.row, s, RowOf(h)) = Now.row
    <3>1. PICK f, D, V : f = Now.row /\ f \in [D -> V] /\ s \in D
      BY <2>10, RowsTyped
    <3>2. RowOf(h) = f[s]
      BY <2>8, <2>10, <3>1 DEF RowOf
    <3> QED
      BY <3>1, <3>2 DEF Put
  <2>12. Newest(s)' = Newest(s)
    BY <1>2 DEF Newest
  <2>13. PICK r, rows : r = Newest(s).role /\ rows = RowsCounted(s, r)
    OBVIOUS
  <2>14. RowsCounted(s, Newest(s).role)' = rows
    BY <1>2, <2>12, <2>13 DEF RowsCounted, Counted
  <2>15. Pushed(s, rows)'
    <3>1. before' = before /\ list' = list /\ evicted' = evicted /\ topics' = topics
      BY <1>2
    <3>2. Now'.row = Now.row /\ Now'.messages = Now.messages
      BY <2>9, <2>11
    <3>3. /\ s \in DOMAIN before.row /\ list[s] # <<>> /\ Now.row = rows
          /\ before.messages = Now.messages \ {Newest(s)}
          /\ before.evicted = evicted /\ before.topics = topics
      BY <2>1, <2>13 DEF Pushed
    <3> QED
      BY <2>12, <3>1, <3>2, <3>3 DEF Pushed
  <2>16. Now'.digest = DigestWith(s, Leaving(s))'
    <3>1. [Now.digest EXCEPT ![s] = h.digest] = DigestWith(s, out)
      BY <2>1, <2>2, <2>3, <2>5, <2>8, <2>10 DEF DigestWith
    <3>2. DigestWith(s, Leaving(s))' = DigestWith(s, out)
      BY <1>2, <2>3 DEF DigestWith
    <3> QED
      BY <2>9, <3>1, <3>2
  <2>17. Pushed(s, RowsCounted(s, Newest(s).role))'
    BY <2>14, <2>15 DEF Pushed
  <2> QED
    BY <1>3, <2>16, <2>17 DEF Progress
<1> QED
  BY <1>2, <1>3, <1>4, <1>5, GoesOnAs DEF RedisInv

(* EXPIRE, and what follows it. *)
LEMMA TouchKeepsRef ==
  ASSUME OneInstance, RedisInv, RefInv, NEW c \in Client, TouchMeta(c) \/ TouchList(c)
  PROVE  RefInv'
<1>1. PICK s \in Session : s = op[c].session /\ op[c] # Idle /\ InProgress(op[c])
  BY AtCommand DEF TouchMeta, TouchList, At
<1>2. /\ op[c].pc \in {"touch_meta", "touch_list"} /\ UNCHANGED before
      /\ UNCHANGED <<meta, list, evicted, topics, lastId, crashes>>
  BY DEF TouchMeta, TouchList, At, Goto, history
<1>3. Now' = Now
  BY <1>2, NowStays
<1>4. crashes = 0 => \A r \in Session : InOrder(r)'
  BY <1>2, OrderStays DEF RefInv
<1>5. PICK o : /\ op' = [op EXCEPT ![c] = o]
               /\ o = Idle \/ (o.session = s /\ o.pc = "touch_list")
  <2>1. CASE TouchList(c)
    BY <2>1 DEF TouchList
  <2>2. CASE TouchMeta(c)
    <3>1. PICK o : o = [op[c] EXCEPT !.pc = "touch_list"]
      OBVIOUS
    <3>2. op' = [op EXCEPT ![c] = o]
      BY <2>2, <3>1 DEF TouchMeta, Goto
    <3>3. op[c].pc = "touch_meta"
      BY <2>2 DEF TouchMeta, At
    <3>4. Getting(op[c]) \/ Writing(op[c]) \/ Trimming(op[c])
      BY <1>1, <3>3 DEF InProgress, Reading, Folding
    <3>5. o.session = s /\ o.pc = "touch_list"
      BY <1>1, <3>1, <3>4, GoesTo
    <3> QED
      BY <3>2, <3>5
  <2> QED
    BY <2>1, <2>2
<1>6. ASSUME crashes = 0 PROVE Progress(o)'
  <2>1. Finished(s)
    BY <1>1, <1>2, <1>6 DEF RefInv, Progress
  <2>2. Finished(s)'
    BY <1>2, <1>3, <2>1 DEF Finished, OnlyRows, RowsGot, Asked, Appended, RowsCounted, Counted, DigestWith
  <2> QED
    BY <1>5, <2>2 DEF Progress
<1> QED
  BY <1>2, <1>4, <1>5, <1>6, GoesOnAs DEF RedisInv

(* What LTRIM makes of the list of a session one message out of the window. *)
LEMMA TrimmedList ==
  ASSUME Shape, Typed, \A r \in Session : InOrder(r), NEW s \in Session, Surplus(s) > 0,
         Len(list[s]) <= Window + 1
  PROVE  \E x \in Entry, rest \in Seq(Entry) :
            /\ x = list[s][1] /\ Leaving(s) = <<x>> /\ Surplus(s) = 1 /\ Surplus(s) <= Len(list[s])
            /\ rest = SubSeq(list[s], 2, Len(list[s])) /\ Len(rest) = Window
            /\ ToSet(rest) = ToSet(list[s]) \ {x}
            /\ x \in ToSet(list[s]) /\ Increasing(rest) /\ rest # <<>>
            /\ \A m \in ToSet(rest) : x.id < m.id
            /\ rest[Window] = Newest(s)
            /\ Store!OutsideWindow(ToSet(list[s])) = {x}
<1>1. PICK l \in Seq(Entry), n \in Nat, w \in Nat : l = list[s] /\ n = Len(l) /\ w = Window /\ w > 0
  BY LenProperties, RedisAssumption DEF Shape
<1>2. n = w + 1
  <2>1. n - w > 0 /\ n <= w + 1
    BY <1>1 DEF Surplus
  <2> QED
    BY <2>1
<1>3. DOMAIN l = 1 .. n /\ \A i \in 1 .. n : l[i] \in Entry
  BY <1>1, ElementsOf
<1>4. 1 \in 1 .. n /\ n \in 1 .. n /\ \A i \in 1 .. w : i \in 1 .. n /\ i + 1 \in 1 .. n
  BY <1>1, <1>2
<1>5. PICK x \in Entry : x = l[1]
  BY <1>3, <1>4
<1>6. Surplus(s) = 1
  BY <1>1, <1>2 DEF Surplus
<1>7. Leaving(s) = <<x>>
  <2>1. Leaving(s) = SubSeq(l, 1, 1)
    BY <1>1, <1>6 DEF Leaving
  <2>2. PICK p \in Seq(Entry) : p = SubSeq(l, 1, 1) /\ Len(p) = 1 /\ p[1] = l[1]
    <3>1. \A i \in 1 .. 1 : l[i] \in Entry
      BY <1>3, <1>4
    <3>2. SubSeq(l, 1, 1) \in Seq(Entry) /\ Len(SubSeq(l, 1, 1)) = 1 /\ SubSeq(l, 1, 1)[1] = l[1]
      BY <3>1, SubSeqProperties
    <3> QED
      BY <3>2
  <2>3. p = <<x>>
    <3>1. DOMAIN p = 1 .. 1 /\ \A i \in 1 .. 1 : p[i] = x
      BY <1>5, <2>2, ElementsOf
    <3>2. p \in [1 .. 1 -> {x}]
      BY <3>1
    <3>3. \A f \in [1 .. 1 -> {x}] : f = <<x>>
      OBVIOUS
    <3> QED
      BY <3>2, <3>3
  <2> QED
    BY <2>1, <2>2, <2>3
<1>8. PICK rest \in Seq(Entry) : /\ rest = SubSeq(l, 2, n) /\ Len(rest) = w
                                 /\ \A i \in 1 .. w : rest[i] = l[i + 1]
  <2>1. SubSeq(l, 2, n) \in Seq(Entry)
    BY <1>1, <1>3
  <2>2. Len(SubSeq(l, 2, n)) = w
    BY <1>1, <1>2
  <2>3. \A i \in 1 .. w : SubSeq(l, 2, n)[i] = l[i + 1]
    BY <1>1, <1>2
  <2> QED
    BY <2>1, <2>2, <2>3
<1>9. DOMAIN rest = 1 .. w
  BY <1>8, ElementsOf
<1>10. \A i, j \in 1 .. n : i < j => l[i].id < l[j].id
  BY <1>1, <1>3 DEF InOrder, Increasing
<1>11. \A i \in 1 .. n : l[i].id \in Nat
  BY <1>3, RedisAssumption DEF Entry
<1>12. \A m : m \in ToSet(l) <=> \E i \in 1 .. n : m = l[i]
  BY <1>3 DEF ToSet
<1>13. \A m : m \in ToSet(rest) <=> \E i \in 1 .. w : m = rest[i]
  BY <1>9 DEF ToSet
<1>14. ASSUME NEW m \in ToSet(rest) PROVE m \in ToSet(l) /\ x.id < m.id
  <2>1. PICK i \in 1 .. w : m = l[i + 1]
    BY <1>8, <1>13, <1>14
  <2>2. i + 1 \in 1 .. n /\ 1 < i + 1
    BY <1>4
  <2>3. l[1].id < l[i + 1].id
    BY <1>4, <1>10, <2>2
  <2> QED
    BY <1>5, <1>12, <2>1, <2>2, <2>3
<1>15. ASSUME NEW m \in ToSet(l), m # x PROVE m \in ToSet(rest)
  <2>1. PICK i \in 1 .. n : m = l[i]
    BY <1>12, <1>15
  <2>2. i # 1
    BY <1>5, <1>15, <2>1
  <2>3. PICK j \in 1 .. w : i = j + 1
    <3>1. i - 1 \in 1 .. w /\ i = (i - 1) + 1
      BY <1>2, <2>1, <2>2
    <3> QED
      BY <3>1
  <2> QED
    BY <1>8, <1>13, <2>1, <2>3
<1>16. x \notin ToSet(rest)
  <2>1. x.id \in Nat
    BY <1>4, <1>5, <1>11
  <2> QED
    BY <1>14, <2>1
<1>17. ToSet(rest) = ToSet(l) \ {x}
  BY <1>14, <1>15, <1>16
<1>18. Increasing(rest)
  <2> SUFFICES ASSUME NEW i \in 1 .. w, NEW j \in 1 .. w, i < j PROVE rest[i].id < rest[j].id
    BY <1>9 DEF Increasing
  <2>1. rest[i] = l[i + 1] /\ rest[j] = l[j + 1]
    BY <1>8
  <2>2. i + 1 \in 1 .. n /\ j + 1 \in 1 .. n /\ i + 1 < j + 1
    BY <1>4
  <2> QED
    BY <1>10, <2>1, <2>2
<1>19. rest[w] = Newest(s)
  <2>1. w \in 1 .. w /\ w + 1 = n
    BY <1>1, <1>2
  <2> QED
    BY <1>1, <1>8, <2>1 DEF Newest
<1>20. Store!OutsideWindow(ToSet(l)) = {x}
  <2>1. ~(n <= w) /\ n <= w + 1 /\ Increasing(l)
    BY <1>1, <1>2 DEF InOrder
  <2> QED
    BY <1>1, <1>5, <2>1, OutsideOfList
<1>21. rest # <<>>
  <2>1. Len(rest) # 0
    BY <1>1, <1>8
  <2> QED
    BY <2>1
<1>22. x \in ToSet(l)
  BY <1>4, <1>5, <1>12
<1>23. Surplus(s) <= Len(list[s])
  BY <1>1, <1>2, <1>6
<1> QED
  BY <1>1, <1>5, <1>6, <1>7, <1>8, <1>14, <1>17, <1>18, <1>19, <1>20, <1>21, <1>22, <1>23

(* LTRIM. *)
LEMMA TrimKeepsRef ==
  ASSUME OneInstance, RedisInv, Typed, OneInv, RefInv, NEW c \in Client, AppendTrim(c)
  PROVE  RefInv'
<1>1. PICK s \in Session : s = op[c].session /\ op[c] # Idle /\ InProgress(op[c])
  BY AtCommand DEF AppendTrim, At
<1>2. op[c].pc = "trim" /\ UNCHANGED <<meta, lastId, crashes, before>>
  BY DEF AppendTrim, At, Goto
<1>3. PICK o : op' = [op EXCEPT ![c] = o] /\ o.session = s /\ o.pc = "touch_meta"
  <2>1. PICK o : o = [op[c] EXCEPT !.pc = "touch_meta"]
    OBVIOUS
  <2>2. op' = [op EXCEPT ![c] = o]
    BY <2>1 DEF AppendTrim, Goto
  <2>3. Trimming(op[c])
    BY <1>1, <1>2, PlaceTells
  <2>4. o.session = s /\ o.pc = "touch_meta"
    BY <1>1, <2>1, <2>3, GoesTo
  <2> QED
    BY <2>2, <2>4
<1>4. op[c].surplus = Surplus(s) /\ Surplus(s) > 0
  BY <1>1, <1>2 DEF OneInv, Seen
<1>5. ASSUME crashes = 0 PROVE Progress(o)' /\ \A r \in Session : InOrder(r)'
  <2>1. /\ \A r \in Session : InOrder(r)
        /\ Pushed(s, RowsCounted(s, Newest(s).role))
        /\ Now.digest = DigestWith(s, Leaving(s))
    BY <1>1, <1>2, <1>5 DEF RefInv, Progress
  <2>2. PICK x \in Entry, rest \in Seq(Entry) :
            /\ x = list[s][1] /\ Leaving(s) = <<x>> /\ Surplus(s) = 1 /\ Surplus(s) <= Len(list[s])
            /\ rest = SubSeq(list[s], 2, Len(list[s])) /\ Len(rest) = Window
            /\ ToSet(rest) = ToSet(list[s]) \ {x}
            /\ x \in ToSet(list[s]) /\ Increasing(rest) /\ rest # <<>>
            /\ \A m \in ToSet(rest) : x.id < m.id
            /\ rest[Window] = Newest(s)
            /\ Store!OutsideWindow(ToSet(list[s])) = {x}
    <3>1. Len(list[s]) <= Window + 1
      BY <2>1 DEF InOrder
    <3> QED
      BY <1>4, <2>1, <3>1, TrimmedList DEF RedisInv
  <2>3. PICK out : out = <<x>> /\ out = SubSeq(list[s], 1, 1)
    BY <2>2 DEF Leaving
  <2>4. ToSet(out) = {x} /\ out # <<>> /\ out \in AtMostOne
    BY <2>3 DEF ToSet, AtMostOne
  <2>5. /\ list' = [list EXCEPT ![s] = rest]
        /\ evicted' = [evicted EXCEPT ![s] = @ \cup ToSet(out)]
        /\ topics' = [topics EXCEPT ![s] = @ \o TopicsIn(out)]
    <3>1. PICK n : n = IF op[c].surplus <= Len(list[s]) THEN op[c].surplus ELSE Len(list[s])
      OBVIOUS
    <3>2. n = 1
      BY <1>4, <2>2, <3>1
    <3>3. /\ list' = [list EXCEPT ![s] = SubSeq(@, n + 1, Len(@))]
          /\ evicted' = [evicted EXCEPT ![s] = @ \cup ToSet(SubSeq(list[s], 1, n))]
          /\ topics' = [topics EXCEPT ![s] = @ \o TopicsIn(SubSeq(list[s], 1, n))]
      BY <1>1, <3>1 DEF AppendTrim
    <3>4. n + 1 = 2
      BY <3>2
    <3> QED
      BY <2>2, <2>3, <3>2, <3>3, <3>4
  <2>6. /\ list'[s] = rest /\ evicted'[s] = evicted[s] \cup {x}
        /\ \A r \in Session : r # s => list'[r] = list[r] /\ evicted'[r] = evicted[r]
    BY <2>4, <2>5 DEF RedisInv, Shape, Typed
  <2>7. \A r \in Session : InOrder(r)'
    <3>1. ASSUME NEW r \in Session, r # s PROVE InOrder(r)'
      <4>1. PICK l, v, k : l = list[r] /\ v = evicted[r] /\ k = lastId
        OBVIOUS
      <4>2. l = list'[r] /\ v = evicted'[r] /\ k = lastId'
        BY <1>2, <2>6, <3>1, <4>1
      <4>3. /\ Len(l) <= Window + 1 /\ Increasing(l)
            /\ \A m \in ToSet(l) : m.session = r /\ m.id <= k
            /\ \A old \in v : old.id <= k /\ \A m \in ToSet(l) : old.id < m.id
        BY <2>1, <4>1 DEF InOrder
      <4> QED
        BY <4>2, <4>3 DEF InOrder
    <3>2. InOrder(s)'
      <4>1. PICK v, k : v = evicted[s] /\ k = lastId
        OBVIOUS
      <4>2. rest = list'[s] /\ evicted'[s] = v \cup {x} /\ k = lastId'
        BY <1>2, <2>6, <4>1
      <4>3. PICK l : l = list[s]
        OBVIOUS
      <4>4. /\ \A m \in ToSet(l) : m.session = s /\ m.id <= k
            /\ \A old \in v : old.id <= k /\ \A m \in ToSet(l) : old.id < m.id
        BY <2>1, <4>1, <4>3 DEF InOrder
      <4>5. /\ \A m \in ToSet(rest) : m.session = s /\ m.id <= k
            /\ \A old \in v \cup {x} : old.id <= k /\ \A m \in ToSet(rest) : old.id < m.id
        BY <2>2, <4>3, <4>4
      <4>6. Len(rest) <= Window + 1
        BY <2>2, RedisAssumption
      <4> QED
        BY <2>2, <4>2, <4>5, <4>6 DEF InOrder
    <3> QED
      BY <3>1, <3>2
  <2>8. PICK m \in Entry :
           /\ m = Newest(s) /\ m.session = s /\ m \in Now.messages
           /\ before.messages \cup {m} = Now.messages
           /\ {n \in before.messages : n.session = s} \cup {m} = ToSet(list[s])
           /\ \A n \in {y \in before.messages : y.session = s} \cup before.evicted[s] : n.id # m.id
    BY <2>1, PushedTells DEF RedisInv
  <2>9. Now'.messages = Now.messages \ {x}
    <3>1. Now'.messages = UNION {ToSet(list[r])' : r \in Session}
      BY DEF Now
    <3>2. \A r \in Session : r # s => ToSet(list[r])' = ToSet(list[r])
      BY <2>6 DEF ToSet
    <3>3. ToSet(list[s])' = ToSet(list[s]) \ {x}
      <4>1. ToSet(list[s])' = ToSet(rest)
        BY <2>6 DEF ToSet
      <4> QED
        BY <2>2, <4>1
    <3>4. \A r \in Session : r # s => x \notin ToSet(list[r])
      <4>1. x.session = s
        BY <2>1, <2>2 DEF InOrder
      <4> QED
        BY <2>1, <4>1 DEF InOrder
    <3> QED
      BY <3>1, <3>2, <3>3, <3>4, NowShows
  <2>10. Now'.row = Now.row /\ Now'.digest = Now.digest
    BY <1>2 DEF Now, Hash
  <2>11. Now'.evicted = evicted' /\ Now'.topics = topics'
    BY DEF Now
  <2>12. PICK b : b = before /\ b = before'
    BY <1>2
  <2>13. Appended(s, m, out)'
    <3>1. s \in DOMAIN b.row /\ b.evicted = evicted /\ b.topics = topics
      BY <2>1, <2>12 DEF Pushed
    <3>2. Now'.row = RowsCounted(s, m.role)'
      <4>1. Now.row = RowsCounted(s, m.role)
        BY <2>1, <2>8 DEF Pushed
      <4> QED
        BY <1>2, <2>10, <4>1 DEF RowsCounted, Counted
    <3>3. Now'.digest = DigestWith(s, out)'
      <4>1. Now.digest = DigestWith(s, out)
        BY <2>1, <2>2, <2>3
      <4> QED
        BY <1>2, <2>10, <4>1 DEF DigestWith
    <3>4. Now'.messages = (b.messages \cup {m}) \ ToSet(out)
      BY <2>4, <2>8, <2>9, <2>12
    <3>5. /\ Now'.evicted = [b.evicted EXCEPT ![s] = @ \cup ToSet(out)]
          /\ Now'.topics = [b.topics EXCEPT ![s] = @ \o TopicsIn(out)]
      BY <2>5, <2>11, <3>1
    <3>6. Now' = [row |-> Now'.row, digest |-> Now'.digest, messages |-> Now'.messages,
                  evicted |-> Now'.evicted, topics |-> Now'.topics]
      BY DEF Now
    <3>7. ToSet(out) = Store!OutsideWindow({n \in b.messages : n.session = s} \cup {m})
      BY <2>2, <2>4, <2>8, <2>12
    <3>8. \A n \in {y \in b.messages : y.session = s} \cup b.evicted[s] : n.id # m.id
      BY <2>8, <2>12
    <3> QED
      BY <2>4, <2>12, <3>1, <3>2, <3>3, <3>4, <3>5, <3>6, <3>7, <3>8 DEF Appended
  <2>14. Finished(s)'
    BY <2>4, <2>8, <2>13 DEF Finished
  <2>15. Progress(o)'
    BY <1>3, <2>14 DEF Progress
  <2> QED
    BY <2>7, <2>15
<1> QED
  BY <1>2, <1>3, <1>5, GoesOnAs DEF RedisInv

(* At the start the lists are in order and nothing is in progress,        *)
LEMMA RefInit == RedisInit => RefInv
<1> SUFFICES ASSUME RedisInit PROVE RefInv
  OBVIOUS
<1>1. ASSUME NEW s \in Session PROVE InOrder(s)
  <2>1. PICK l : l = <<>> /\ l = list[s] /\ evicted[s] = {}
    BY DEF RedisInit
  <2>2. Len(l) <= Window + 1 /\ Increasing(l) /\ ToSet(l) = {}
    BY <2>1, RedisAssumption DEF Increasing, ToSet
  <2> QED
    BY <2>1, <2>2 DEF InOrder
<1>2. \A c \in Client : Progress(op[c])
  BY DEF RedisInit, Progress
<1> QED
  BY <1>1, <1>2 DEF RefInv

(* and after every command what is in progress has got as far as it says. *)
LEMMA RefNext ==
  ASSUME OneInstance
  PROVE  RedisInv /\ Typed /\ OneInv /\ RefInv /\ [RedisNext]_redisVars => RefInv'
<1> SUFFICES ASSUME RedisInv, Typed, OneInv, RefInv, [RedisNext]_redisVars PROVE RefInv'
  OBVIOUS
<1>1. ASSUME NEW c \in Client, NEW s \in Session,
             \/ \E u \in User \cup {Null} : GetBegin(c, s, u)
             \/ \E q \in Question, t \in Content : SetPending(c, s, q, t)
      PROVE  RefInv'
  BY <1>1, CallsKeepRef
<1>2. ASSUME NEW c \in Client, NEW s \in Session, ClearPending(c, s)
      PROVE  RefInv'
  BY <1>2, ClearKeepsRef DEF RedisInv
<1>3. ASSUME NEW c \in Client, NEW s \in Session, NEW role \in {"user", "assistant"},
             NEW t \in Content, AppendPush(c, s, role, t)
      PROVE  RefInv'
  BY <1>3, PushKeepsRef
<1>4. ASSUME NEW c \in Client, GetCreate(c) \/ GetSetUser(c)
      PROVE  RefInv'
  BY <1>4, GetWritesKeepRef
<1>5. ASSUME NEW c \in Client, AppendContinues(c)
      PROVE  RefInv'
  BY <1>5, CountKeepsRef, ReadsKeepRef, DigestKeepsRef, TrimKeepsRef DEF AppendContinues
<1>6. ASSUME NEW c \in Client, TouchMeta(c) \/ TouchList(c)
      PROVE  RefInv'
  BY <1>6, TouchKeepsRef
<1>7. ASSUME NEW c \in Client, Crash(c) PROVE RefInv'
  <2>1. PICK k \in Nat : k = crashes /\ crashes' = k + 1
    BY <1>7 DEF Crash, RedisInv, Shape
  <2>2. crashes' # 0
    BY <2>1
  <2> QED
    BY <2>2 DEF RefInv
<1>8. ASSUME NEW s \in Session, ExpireMeta(s) \/ ExpireList(s) PROVE RefInv'
  BY <1>8 DEF ExpireMeta, ExpireList, OneInstance
<1>9. CASE UNCHANGED redisVars
  <2>1. UNCHANGED <<meta, list, evicted, topics, lastId, crashes, op, before>>
    BY <1>9 DEF redisVars
  <2>2. ASSUME crashes = 0 PROVE \A s \in Session : InOrder(s)'
    BY <2>1, <2>2, OrderStays DEF RefInv
  <2>3. ASSUME crashes = 0, NEW c \in Client PROVE Progress(op[c])'
    <3>1. Progress(op[c])
      BY <2>3 DEF RefInv
    <3>2. Now' = Now
      BY <2>1, NowStays
    <3>3. PICK o : o = op[c] /\ o = op'[c]
      BY <2>1
    <3>4. ASSUME o # Idle PROVE Finished(o.session)' <=> Finished(o.session)
      BY <2>1, <3>2 DEF Finished, OnlyRows, RowsGot, Asked, Appended, RowsCounted, Counted, DigestWith
    <3>5. /\ Newest(o.session)' = Newest(o.session)
          /\ Leaving(o.session)' = Leaving(o.session)
      BY <2>1 DEF Newest, Leaving, Surplus
    <3>6. \A role : RowsCounted(o.session, role)' = RowsCounted(o.session, role)
      BY <2>1 DEF RowsCounted, Counted
    <3>7. \A rows : Pushed(o.session, rows)' <=> Pushed(o.session, rows)
      BY <2>1, <3>2, <3>5 DEF Pushed
    <3>8. PICK m, n, b : m = Now /\ m = Now' /\ b = before /\ b = before' /\ n = Newest(o.session) /\ n = Newest(o.session)'
      BY <2>1, <3>2, <3>5
    <3>9. \A out : DigestWith(o.session, out)' = DigestWith(o.session, out)
      BY <2>1 DEF DigestWith
    <3>10. meta' = meta
      BY <2>1
    <3> QED
      BY <3>1, <3>3, <3>4, <3>5, <3>6, <3>7, <3>8, <3>9, <3>10 DEF Progress, Pushed
  <2> QED
    BY <2>1, <2>2, <2>3 DEF RefInv
<1> QED
  BY <1>1, <1>2, <1>3, <1>4, <1>5, <1>6, <1>7, <1>8, <1>9 DEF RedisNext

(* What SessionStore sees of the keys. *)
LEMMA AbstractOfOne ==
  ASSUME OneInstance, NEW c \in Client
  PROVE  Abstract = IF op[c] = Idle THEN Now ELSE before
BY DEF OneInstance, Abstract, Busy

(* What an operation that ends has done is what SessionStore says: get, *)
LEMMA GotIsStep ==
  ASSUME NEW s \in Session, NEW u \in User \cup {Null}, Abstract = before, Abstract' = Now,
         OnlyRows(RowsGot(s, u))
  PROVE  Store!StoreGet(s, u)
<1>1. Abstract' = [Abstract EXCEPT !.row = RowsGot(s, u)]
  BY DEF OnlyRows
<1> QED
  BY <1>1 DEF Store!StoreGet, RowsGot, NewRow, Row, Named, Store!NewRow

(* set_pending_clarification, *)
LEMMA AskedIsStep ==
  ASSUME NEW s \in Session, NEW q \in Question, NEW t \in Content, Abstract = before, Abstract' = Now,
         s \in DOMAIN before.row, OnlyRows(Asked(before.row, s, q, t))
  PROVE  Store!StoreSetPending(s, q, t)
<1>1. Abstract' = [Abstract EXCEPT !.row = Asked(Abstract.row, s, q, t)]
  BY DEF OnlyRows
<1> QED
  BY <1>1 DEF Store!StoreSetPending, Asked

(* append_message, *)
LEMMA AppendedIsStep ==
  ASSUME NEW s \in Session, NEW m \in Entry, m.session = s, NEW out \in AtMostOne,
         Abstract = before, Abstract' = Now, Appended(s, m, out)
  PROVE  Store!StoreAppend(s, m.role, m.content, m.id)
<1> DEFINE e == [session |-> s, id |-> m.id, role |-> m.role, content |-> m.content]
           gone == Store!OutsideWindow(Store!MessagesOf(s) \cup {e})
           Gone(f, ms) == [f EXCEPT ![s] = @ \cup ms]
           Later(f, new) == [f EXCEPT ![s] = @ \o new]
           Folded(f, ms) == [f EXCEPT ![s] = Store!BuildTopicDigest(@, ms)]
           OneMore(f) == [f EXCEPT ![s].turns = @ + 1]
<1>1. e = m
  BY DEF Entry
<1>2. Store!MessagesOf(s) = {n \in before.messages : n.session = s}
  BY DEF Store!MessagesOf
<1>3. gone = ToSet(out)
  BY <1>1, <1>2 DEF Appended
<1>4. Store!InIdOrder(gone) = out
  BY <1>3, OrderOfOne
<1>5. gone = {} <=> out = <<>>
  <2>1. ASSUME out = <<>> PROVE ToSet(out) = {}
    BY <2>1 DEF ToSet
  <2>2. ASSUME NEW x \in Entry, out = <<x>> PROVE x \in ToSet(out)
    BY <2>2 DEF ToSet
  <2> QED
    BY <1>3, <2>1, <2>2 DEF AtMostOne
<1>6. /\ Now.row = RowsCounted(s, m.role)
      /\ Now.messages = (before.messages \cup {m}) \ ToSet(out)
      /\ Now.digest = IF out = <<>> THEN before.digest ELSE DigestWith(s, out)
      /\ Now.evicted = Gone(before.evicted, ToSet(out))
      /\ Now.topics = Later(before.topics, TopicsIn(out))
  BY DEF Appended
<1>7. RowsCounted(s, m.role) = IF m.role = "user" THEN OneMore(before.row) ELSE before.row
  BY DEF RowsCounted, Counted
<1>8. DigestWith(s, out) = Folded(before.digest, out)
  <2>1. PICK d, k : d = before.digest /\ k = Store!BuildTopicDigest(d[s], out) /\ k = BuildTopicDigest(d[s], out)
    BY SameOperators
  <2>2. DigestWith(s, out) = [d EXCEPT ![s] = k]
    BY <2>1 DEF DigestWith
  <2>3. Folded(before.digest, out) = [d EXCEPT ![s] = k]
    BY <2>1
  <2> QED
    BY <2>2, <2>3
<1>9. TopicsIn(out) = Store!TopicsIn(out)
  BY SameOperators
<1>10. s \in DOMAIN before.row
  BY DEF Appended
<1>11. \A n \in Store!Transcript(s) : n.id # m.id
  BY <1>2 DEF Appended, Store!Transcript
<1> HIDE DEF gone, e, Gone, Later, Folded, OneMore
<1>12. Abstract'.messages = (Abstract.messages \cup {e}) \ gone
  BY <1>1, <1>3, <1>6
<1>13. Abstract'.row = IF m.role = "user" THEN OneMore(Abstract.row) ELSE Abstract.row
  BY <1>6, <1>7
<1>14. Abstract'.digest = IF gone = {} THEN Abstract.digest
                          ELSE Folded(Abstract.digest, Store!InIdOrder(gone))
  BY <1>4, <1>5, <1>6, <1>8
<1>15. Abstract'.evicted = Gone(Abstract.evicted, gone)
  BY <1>3, <1>6
<1>16. Abstract'.topics = Later(Abstract.topics, Store!TopicsIn(Store!InIdOrder(gone)))
  BY <1>4, <1>6, <1>9
<1>17. s \in DOMAIN Abstract.row
  BY <1>10
<1> QED
  BY <1>11, <1>12, <1>13, <1>14, <1>15, <1>16, <1>17
     DEF Store!StoreAppend, gone, e, Gone, Later, Folded, OneMore

(* and so whatever has ended. *)
LEMMA FinishedIsStep ==
  ASSUME NEW s \in Session, Finished(s), Abstract = before, Abstract' = Now
  PROVE  Store!StoreNext \/ UNCHANGED Store!storeVars
<1>1. CASE Now = before
  BY <1>1 DEF Store!storeVars
<1>2. CASE \E u \in User \cup {Null} : OnlyRows(RowsGot(s, u))
  BY <1>2, GotIsStep DEF Store!StoreNext
<1>3. CASE \E q \in Question, t \in Content :
              s \in DOMAIN before.row /\ OnlyRows(Asked(before.row, s, q, t))
  BY <1>3, AskedIsStep DEF Store!StoreNext
<1>4. CASE \E m \in Entry, out \in AtMostOne : m.session = s /\ Appended(s, m, out)
  <2>1. PICK m \in Entry, out \in AtMostOne : m.session = s /\ Appended(s, m, out)
    BY <1>4
  <2>2. Store!StoreAppend(s, m.role, m.content, m.id)
    BY <2>1, AppendedIsStep
  <2>3. m.role \in Store!Role /\ m.content \in Content /\ m.id \in MessageId
    BY DEF Entry, Store!Role
  <2> QED
    BY <2>2, <2>3 DEF Store!StoreNext
<1> QED
  BY <1>1, <1>2, <1>3, <1>4 DEF Finished

(* clear_pending_clarification takes effect at once. *)
LEMMA ClearedIsStep ==
  ASSUME OneInstance, RedisInv, Typed, NEW c \in Client, NEW s \in Session, ClearPending(c, s)
  PROVE  Store!StoreNext
<1>1. op' = op /\ op[c] = Idle /\ UNCHANGED <<list, evicted, topics>> /\ meta[s] # NoKey
  BY NeverBare DEF ClearPending, history, RedisInv
<1>2. Abstract = Now /\ Abstract' = Now'
  <2>1. Busy = {} /\ Busy' = {}
    BY <1>1 DEF Busy, OneInstance
  <2> QED
    BY <2>1 DEF Abstract
<1>3. PICK g \in Meta : g = Hash(s) /\ g = meta[s]
  BY <1>1, HashIsTyped DEF Hash
<1>4. PICK h \in Meta : h = [g EXCEPT !.pending = Null, !.intent = Null]
  BY <1>3, HashIsTyped
<1>5. meta' = [meta EXCEPT ![s] = h]
  BY <1>3, <1>4, NeverBare DEF RedisInv
<1>6. /\ h.user = g.user /\ h.digest = g.digest /\ h.turns = g.turns
      /\ h.pending = Null /\ h.intent = Null
  BY <1>4 DEF Meta
<1>7. Now' = [row |-> Put(Now.row, s, RowOf(h)),
              digest |-> [Now.digest EXCEPT ![s] = h.digest],
              messages |-> Now.messages, evicted |-> evicted, topics |-> topics]
  BY <1>1, <1>5, OldHash
<1>8. s \in DOMAIN Now.row /\ Now.row[s] = RowOf(g) /\ Now.digest[s] = g.digest
  BY <1>1, <1>3, NowShows
<1>9. [Now.digest EXCEPT ![s] = h.digest] = Now.digest
  BY <1>6, <1>8, NowShows
<1>10. Put(Now.row, s, RowOf(h)) = Asked(Now.row, s, Null, Null)
  <2>1. PICK f, D, V : f = Now.row /\ f \in [D -> V] /\ s \in D
    BY <1>8, RowsTyped
  <2>2. f[s] = Row(g.user, g.pending, g.intent, g.turns)
    BY <1>8, <2>1 DEF RowOf
  <2>3. PICK u, q, t, n : u = g.user /\ q = g.pending /\ t = g.intent /\ n = g.turns
    OBVIOUS
  <2>4. Asked(f, s, Null, Null) = Put(f, s, Row(u, Null, Null, n))
    BY <2>1, <2>2, <2>3, RowAsked
  <2> QED
    BY <1>6, <2>1, <2>3, <2>4 DEF RowOf
<1>11. /\ Now'.row = Asked(Now.row, s, Null, Null) /\ Now'.digest = Now.digest
       /\ Now'.messages = Now.messages /\ Now'.evicted = Now.evicted /\ Now'.topics = Now.topics
  BY <1>7, <1>9, <1>10, NowShows
<1>12. Store!StoreClearPending(s)
  BY <1>2, <1>8, <1>11 DEF Store!StoreClearPending, Store!StoreSetPending, Asked
<1> QED
  BY <1>12 DEF Store!StoreNext

(* Every command is a step of SessionStore or none, until the instance     *)
(* dies.                                                                   *)
LEMMA CommandIsStep ==
  ASSUME OneInstance, RedisInv, Typed, RefInv, [RedisNext]_redisVars
  PROVE  [crashes' = 0 => Store!StoreNext]_(Store!storeVars)
<1> SUFFICES ASSUME crashes' = 0
             PROVE  Store!StoreNext \/ UNCHANGED Store!storeVars
  OBVIOUS
<1>1. ASSUME Abstract' = Abstract PROVE UNCHANGED Store!storeVars
  BY <1>1 DEF Store!storeVars
<1>2. ASSUME NEW c \in Client, NEW o, Begin(c, o), o # Idle PROVE UNCHANGED Store!storeVars
  <2>1. op[c] = Idle /\ op' = [op EXCEPT ![c] = o] /\ before' = Now
    BY <1>2 DEF Begin
  <2>2. \A d \in Client : op[d] = Idle /\ op'[d] = o
    BY <2>1, SoleOperation DEF RedisInv, OneInstance
  <2>3. Busy = {} /\ Busy' # {}
    BY <1>2, <2>2 DEF Busy
  <2> QED
    BY <1>1, <2>1, <2>3 DEF Abstract
<1>3. ASSUME NEW c \in Client, op[c] # Idle, op'[c] # Idle, before' = before
      PROVE  UNCHANGED Store!storeVars
  <2>1. Busy # {} /\ Busy' # {}
    BY <1>3 DEF Busy
  <2> QED
    BY <1>1, <1>3, <2>1 DEF Abstract
<1>4. ASSUME NEW c \in Client, NEW pc, op[c] # Idle, Goto(c, pc),
             \/ op[c].pc \in {"create", "set_user"} /\ pc = "touch_meta"
             \/ op[c].pc = "count" /\ pc = "measure"
             \/ op[c].pc = "write_digest" /\ pc = "trim"
             \/ op[c].pc = "trim" /\ pc = "touch_meta"
             \/ op[c].pc = "touch_meta" /\ pc = "touch_list"
      PROVE  UNCHANGED Store!storeVars
  <2>1. PICK p : p = [op[c] EXCEPT !.pc = pc]
    OBVIOUS
  <2>2. InProgress(op[c])
    BY <1>4, AtCommand
  <2>3. p # Idle
    <3>1. op[c].pc = "touch_meta" => Getting(op[c]) \/ Writing(op[c]) \/ Trimming(op[c])
      BY <2>2 DEF InProgress, Reading, Folding
    <3> QED
      BY <1>4, <2>1, <2>2, <3>1, PlaceTells, GoesTo
  <2>4. op'[c] = p /\ before' = before
    BY <1>4, <2>1 DEF Goto, RedisInv, Shape
  <2> QED
    BY <1>3, <1>4, <2>3, <2>4
<1>5. ASSUME NEW c \in Client, NEW s \in Session, NEW u \in User \cup {Null}, GetBegin(c, s, u)
      PROVE  UNCHANGED Store!storeVars
  <2>1. PICK pc : Begin(c, [session |-> s, user |-> u, pc |-> pc])
    BY <1>5 DEF GetBegin
  <2>2. PICK o : o = [session |-> s, user |-> u, pc |-> pc]
    OBVIOUS
  <2>3. o # Idle
    BY <2>2 DEF Idle
  <2> QED
    BY <1>2, <2>1, <2>2, <2>3
<1>6. ASSUME NEW c \in Client, NEW s \in Session, NEW role \in {"user", "assistant"},
             NEW t \in Content, AppendPush(c, s, role, t)
      PROVE  UNCHANGED Store!storeVars
  <2>1. PICK pc : Begin(c, [session |-> s, pc |-> pc])
    BY <1>6 DEF AppendPush
  <2>2. PICK o : o = [session |-> s, pc |-> pc]
    OBVIOUS
  <2>3. o # Idle
    BY <2>2 DEF Idle
  <2> QED
    BY <1>2, <2>1, <2>2, <2>3
<1>7. ASSUME NEW c \in Client, NEW s \in Session, NEW q \in Question, NEW t \in Content,
             SetPending(c, s, q, t)
      PROVE  UNCHANGED Store!storeVars
  <2>1. PICK o : o = [session |-> s, pc |-> "touch_meta"]
    OBVIOUS
  <2>2. o # Idle /\ Begin(c, o)
    BY <1>7, <2>1 DEF Idle, SetPending
  <2> QED
    BY <1>2, <2>2
<1>8. ASSUME NEW c \in Client, NEW s \in Session, ClearPending(c, s)
      PROVE  Store!StoreNext
  BY <1>8, ClearedIsStep
<1>9. ASSUME NEW c \in Client,
             \/ GetCreate(c) \/ GetSetUser(c) \/ AppendCount(c) \/ AppendWriteDigest(c)
             \/ AppendTrim(c) \/ TouchMeta(c)
      PROVE  UNCHANGED Store!storeVars
  <2>1. CASE GetCreate(c)
    BY <1>4, <2>1 DEF GetCreate, At
  <2>2. CASE GetSetUser(c)
    BY <1>4, <2>2 DEF GetSetUser, At
  <2>3. CASE AppendCount(c)
    BY <1>4, <2>3 DEF AppendCount, At
  <2>4. CASE AppendWriteDigest(c)
    BY <1>4, <2>4 DEF AppendWriteDigest, At
  <2>5. CASE AppendTrim(c)
    BY <1>4, <2>5 DEF AppendTrim, At
  <2>6. CASE TouchMeta(c)
    BY <1>4, <2>6 DEF TouchMeta, At
  <2> QED
    BY <1>9, <2>1, <2>2, <2>3, <2>4, <2>5, <2>6
<1>10. ASSUME NEW c \in Client, AppendMeasure(c) \/ AppendReadOut(c) \/ AppendReadDigest(c)
       PROVE  UNCHANGED Store!storeVars
  <2>1. op[c] # Idle /\ before' = before
    BY <1>10 DEF AppendMeasure, AppendReadOut, AppendReadDigest, At
  <2>2. PICK p : op' = [op EXCEPT ![c] = p] /\ p # Idle
    <3>1. CASE AppendMeasure(c)
      <4>1. PICK p : p = [op[c] EXCEPT !.pc = "touch_meta"]
        OBVIOUS
      <4>2. p # Idle
        <5>1. InProgress(op[c]) /\ op[c].pc = "measure"
          BY <2>1, <3>1, AtCommand DEF AppendMeasure
        <5> QED
          BY <4>1, <5>1, PlaceTells, GoesTo
      <4>3. PICK r, s, n : /\ r = [session |-> s, pc |-> "read_out", surplus |-> n]
                           /\ s = op[c].session /\ n = Surplus(s)
        OBVIOUS
      <4>4. r # Idle
        BY <4>3 DEF Idle
      <4>5. op' = [op EXCEPT ![c] = r] \/ op' = [op EXCEPT ![c] = p]
        BY <3>1, <4>1, <4>3 DEF AppendMeasure
      <4> QED
        BY <4>2, <4>4, <4>5
    <3>2. CASE AppendReadOut(c)
      <4>1. PICK s, n, out : op' = [op EXCEPT ![c] = [session |-> s, pc |-> "read_digest", surplus |-> n, out |-> out]]
        BY <3>2 DEF AppendReadOut
      <4>2. PICK p : p = [session |-> s, pc |-> "read_digest", surplus |-> n, out |-> out]
        OBVIOUS
      <4>3. p # Idle
        BY <4>2 DEF Idle
      <4> QED
        BY <4>1, <4>2, <4>3
    <3>3. CASE AppendReadDigest(c)
      <4>1. PICK s, n, d : op' = [op EXCEPT ![c] = [session |-> s, pc |-> "write_digest", surplus |-> n, digest |-> d]]
        BY <3>3 DEF AppendReadDigest
      <4>2. PICK p : p = [session |-> s, pc |-> "write_digest", surplus |-> n, digest |-> d]
        OBVIOUS
      <4>3. p # Idle
        BY <4>2 DEF Idle
      <4> QED
        BY <4>1, <4>2, <4>3
    <3> QED
      BY <1>10, <3>1, <3>2, <3>3
  <2>3. op'[c] = p
    BY <2>2 DEF RedisInv, Shape
  <2> QED
    BY <1>3, <2>1, <2>2, <2>3
<1>11. ASSUME NEW c \in Client, TouchList(c)
       PROVE  Store!StoreNext \/ UNCHANGED Store!storeVars
  <2>1. /\ op[c] # Idle /\ op[c].pc = "touch_list" /\ op' = [op EXCEPT ![c] = Idle]
        /\ UNCHANGED <<meta, list, evicted, topics, crashes>>
    BY <1>11 DEF TouchList, At, history
  <2>2. PICK s \in Session : s = op[c].session
    BY <2>1, AtCommand
  <2>3. crashes = 0
    BY <2>1
  <2>4. Finished(s)
    BY <2>1, <2>2, <2>3 DEF RefInv, Progress
  <2>5. \A d \in Client : op'[d] = Idle
    BY <2>1, SoleOperation DEF RedisInv
  <2>6. Busy # {} /\ Busy' = {}
    BY <2>1, <2>5 DEF Busy
  <2>7. Abstract = before /\ Abstract' = Now
    BY <2>1, <2>6, NowStays DEF Abstract
  <2> QED
    BY <2>4, <2>7, FinishedIsStep
<1>12. ASSUME NEW c \in Client, Crash(c) PROVE FALSE
  <2>1. PICK k \in Nat : k = crashes /\ crashes' = k + 1
    BY <1>12 DEF Crash, RedisInv, Shape
  <2> QED
    BY <2>1
<1>13. ASSUME NEW s \in Session, ExpireMeta(s) \/ ExpireList(s) PROVE FALSE
  BY <1>13 DEF ExpireMeta, ExpireList, OneInstance
<1>14. CASE UNCHANGED redisVars
  <2>1. Busy' = Busy /\ Now' = Now /\ before' = before
    BY <1>14, NowStays DEF redisVars, Busy
  <2> QED
    BY <1>1, <2>1 DEF Abstract
<1> QED
  BY <1>5, <1>6, <1>7, <1>8, <1>9, <1>10, <1>11, <1>12, <1>13, <1>14 DEF RedisNext, AppendContinues

(* One instance of the Redis backend implements SessionStore: until it     *)
(* dies in the middle of an operation, what each operation has done when   *)
(* it ends is what SessionStore, and so PostgresSessionStore, does in one  *)
(* step.                                                                   *)
THEOREM RedisImplementsStore == OneInstance => (RedisSpec => ImplementsStore)
<1> SUFFICES ASSUME OneInstance PROVE RedisSpec => ImplementsStore
  OBVIOUS
<1>1. RedisInit => Store!StoreInit
  <2> SUFFICES ASSUME RedisInit PROVE Store!StoreInit
    OBVIOUS
  <2>1. Abstract = Now
    BY DEF RedisInit, Busy, Abstract
  <2>2. \A s \in Session : meta[s] = NoKey /\ list[s] = <<>> /\ Hash(s) = DefaultMeta
    BY DEF RedisInit, Hash
  <2>3. Now.row = [s \in {} |-> Store!NewRow(Null)]
    BY <2>2 DEF Now
  <2>4. Now.digest = [s \in Session |-> <<>>]
    BY <2>2, NowShows DEF DefaultMeta
  <2>5. Now.messages = {}
    BY <2>2, NowShows DEF ToSet
  <2>6. Now.evicted = [s \in Session |-> {}] /\ Now.topics = [s \in Session |-> <<>>]
    BY NowShows DEF RedisInit
  <2> QED
    BY <2>1, <2>3, <2>4, <2>5, <2>6 DEF Store!StoreInit
<1>2. RedisInv /\ Typed /\ RefInv /\ [RedisNext]_redisVars =>
         [crashes' = 0 => Store!StoreNext]_(Store!storeVars)
  BY CommandIsStep
<1>3. RedisInv /\ Typed /\ OneInv /\ [RedisNext]_redisVars => OneInv'
  BY OneNext
<1>4. RedisInv /\ Typed /\ OneInv /\ RefInv /\ [RedisNext]_redisVars => RefInv'
  BY RefNext
<1> QED
  BY <1>1, <1>2, <1>3, <1>4, OneInit, RefInit, RedisTyped, PTL DEF RedisSpec, ImplementsStore

------------------------------------------------------------------------------
(* "Redis expires keys itself": whenever nothing is in progress every key  *)
(* has an expiry, even one that a late command has created again after it  *)
(* expired, but for those an instance that died has left without one and   *)
(* no operation has touched since.                                         *)
THEOREM RedisKeysExpire == RedisSpec => []KeysExpire
<1>1. RedisInv => KeysExpire
  BY NothingOwedAtRest DEF RedisInv, Owed, MetaOwed, ListOwed, Keys, KeysExpire
<1> QED
  BY <1>1, RedisInvariant, PTL

(* Instances that measure a list others are pushing to or trimming may     *)
(* trim too much; none is left beyond the window when they are done, but   *)
(* for one message for each instance that died.                            *)
THEOREM RedisTrims == RedisSpec => []TrimmedBetweenOperations
<1>1. ASSUME RedisInv, Busy = {}, NEW s \in Session
      PROVE  Len(list[s]) <= Window + crashes
  <2>1. Trimmers(s, 1) = {}
    BY <1>1, NothingOwedAtRest DEF Trimmers
  <2>2. Cardinality(Trimmers(s, 1)) = 0
    BY <2>1, FS_EmptySet
  <2>3. Cardinality(Trimmers(s, 1)) + crashes >= Surplus(s) - 1 + 1
    BY <1>1 DEF RedisInv, Owed, TrimOwed
  <2>4. Len(list[s]) \in Nat /\ crashes \in Nat
    BY <1>1, SurplusIsInt DEF RedisInv, Shape
  <2> QED
    BY <2>2, <2>3, <2>4, RedisAssumption DEF Surplus
<1>2. RedisInv => TrimmedBetweenOperations
  BY <1>1 DEF TrimmedBetweenOperations
<1> QED
  BY <1>2, RedisInvariant, PTL
==============================================================================
