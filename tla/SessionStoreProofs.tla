------------------------- MODULE SessionStoreProofs -------------------------
(***************************************************************************)
(* Proofs about the session store for every window, every set of sessions  *)
(* and ids: the rolling history is the newest Window messages, turn_count  *)
(* never loses a message and the digest never loses a topic that fits.     *)
(*                                                                         *)
(* Then the Postgres backend, for any number of connections: the           *)
(* statements of concurrent transactions, as they lock, read and commit,   *)
(* amount to the atomic operations of SessionStore, so what is proved      *)
(* about the store holds of the backend.                                   *)
(***************************************************************************)
EXTENDS PostgresSessionStore, TopicDigestProofs

(* What the argument uses of a set of chat_messages of one session. *)
UniqueIds(ms) == \A m, n \in ms : m.id = n.id => m = n

Newer(ms, m) == {n \in ms : n.id > m.id}

(* A message with fewer newer ones is the newer of two. *)
LEMMA NewerShrinks ==
    ASSUME NEW ms, IsFiniteSet(ms), \A m \in ms : m.id \in Nat,
           NEW a \in ms, NEW b \in ms, a.id < b.id
    PROVE  /\ IsFiniteSet(Newer(ms, a)) /\ IsFiniteSet(Newer(ms, b))
           /\ Cardinality(Newer(ms, b)) < Cardinality(Newer(ms, a))
<1>1. /\ Newer(ms, a) \in SUBSET ms
      /\ Newer(ms, b) \in SUBSET Newer(ms, a)
      /\ b \in Newer(ms, a) /\ b \notin Newer(ms, b)
  BY DEF Newer
<1>2. IsFiniteSet(Newer(ms, a))
  BY <1>1, FS_Subset
<1>3. /\ IsFiniteSet(Newer(ms, b))
      /\ Cardinality(Newer(ms, b)) <= Cardinality(Newer(ms, a))
      /\ Cardinality(Newer(ms, a)) # Cardinality(Newer(ms, b))
  BY <1>1, <1>2, FS_Subset
<1>4. Cardinality(Newer(ms, a)) \in Nat /\ Cardinality(Newer(ms, b)) \in Nat
  BY <1>2, <1>3, FS_CardinalityType
<1> QED
  BY <1>2, <1>3, <1>4

(* No more than Window messages are inside the window: their numbers of    *)
(* newer messages are distinct values of 0 .. Window - 1.                  *)
LEMMA KeptFitsWindow ==
    ASSUME NEW ms, IsFiniteSet(ms), \A m \in ms : m.id \in Nat, UniqueIds(ms)
    PROVE  /\ IsFiniteSet(ms \ OutsideWindow(ms))
           /\ Cardinality(ms \ OutsideWindow(ms)) <= Window
<1> DEFINE kept == ms \ OutsideWindow(ms)
           rank == [m \in kept |-> Cardinality(Newer(ms, m))]
<1>1. IsFiniteSet(kept)
  BY FS_Difference
<1>2. Window \in Nat
  BY StoreAssumption
<1>3. rank \in [kept -> 0 .. Window - 1]
  <2>1. SUFFICES ASSUME NEW m \in kept
                 PROVE  Cardinality(Newer(ms, m)) \in 0 .. Window - 1
    OBVIOUS
  <2>2. Newer(ms, m) \in SUBSET ms
    BY DEF Newer
  <2>3. IsFiniteSet(Newer(ms, m))
    BY <2>2, FS_Subset
  <2>4. Cardinality(Newer(ms, m)) \in Nat
    BY <2>3, FS_CardinalityType
  <2>5. ~(Cardinality(Newer(ms, m)) >= Window)
    BY DEF OutsideWindow, Newer
  <2> QED
    BY <1>2, <2>4, <2>5
<1>4. \A a, b \in kept : rank[a] = rank[b] => a = b
  <2>1. SUFFICES ASSUME NEW a \in kept, NEW b \in kept, rank[a] = rank[b], a # b
                 PROVE  FALSE
    OBVIOUS
  <2>2. a.id < b.id \/ b.id < a.id
    BY <2>1 DEF UniqueIds
  <2>3. Cardinality(Newer(ms, a)) \in Nat /\ Cardinality(Newer(ms, b)) \in Nat
    <3>1. Newer(ms, a) \in SUBSET ms /\ Newer(ms, b) \in SUBSET ms
      BY DEF Newer
    <3> QED
      BY <3>1, FS_Subset, FS_CardinalityType
  <2>4. CASE a.id < b.id
    BY <2>1, <2>3, <2>4, NewerShrinks
  <2>5. CASE b.id < a.id
    BY <2>1, <2>3, <2>5, NewerShrinks
  <2> QED
    BY <2>2, <2>4, <2>5
<1>5. IsFiniteSet(0 .. Window - 1) /\ Cardinality(0 .. Window - 1) = Window
  BY <1>2, FS_Interval, FS_EmptySet
<1>6. Cardinality(kept) \in Nat
  BY <1>1, FS_CardinalityType
<1>7. ASSUME Cardinality(0 .. Window - 1) < Cardinality(kept) PROVE FALSE
  <2> HIDE DEF kept, rank
  <2>1. \E a, b \in kept : a # b /\ rank[a] = rank[b]
    BY <1>1, <1>3, <1>5, <1>7, FS_PigeonHole
  <2> QED
    BY <1>4, <2>1
<1> QED
  BY <1>1, <1>2, <1>5, <1>6, <1>7

(* What is rolled out is older than all that stays. *)
LEMMA EvictedIsOlder ==
    ASSUME NEW ms, IsFiniteSet(ms), \A m \in ms : m.id \in Nat, UniqueIds(ms),
           NEW old \in OutsideWindow(ms), NEW kept \in ms \ OutsideWindow(ms)
    PROVE  old.id < kept.id
<1>1. old \in ms /\ kept \in ms
  BY DEF OutsideWindow
<1>2. Cardinality(Newer(ms, old)) >= Window /\ ~(Cardinality(Newer(ms, kept)) >= Window)
  BY DEF OutsideWindow, Newer
<1>3. Newer(ms, old) \in SUBSET ms /\ Newer(ms, kept) \in SUBSET ms
  BY DEF Newer
<1>4. Cardinality(Newer(ms, old)) \in Nat /\ Cardinality(Newer(ms, kept)) \in Nat
  BY <1>3, FS_Subset, FS_CardinalityType
<1>5. ASSUME kept.id < old.id PROVE FALSE
  BY <1>1, <1>2, <1>4, <1>5, NewerShrinks, StoreAssumption
<1>6. kept.id # old.id
  BY <1>1, <1>2 DEF UniqueIds
<1> QED
  BY <1>1, <1>5, <1>6

(* Of at most Window + 1 messages at most one is rolled out, and then the  *)
(* window stays full.                                                      *)
LEMMA EvictsAtMostOne ==
    ASSUME NEW ms, IsFiniteSet(ms), \A m \in ms : m.id \in Nat, UniqueIds(ms),
           Cardinality(ms) <= Window + 1, OutsideWindow(ms) # {}
    PROVE  /\ Cardinality(ms \ OutsideWindow(ms)) = Window
           /\ \E old \in ms : OutsideWindow(ms) = {old}
<1>1. PICK old \in OutsideWindow(ms) : TRUE
  OBVIOUS
<1>2. old \in ms /\ Cardinality(Newer(ms, old)) >= Window
  BY DEF OutsideWindow, Newer
<1>3. Window \in Nat /\ Cardinality(ms) \in Nat
  BY StoreAssumption, FS_CardinalityType
<1>4. IsFiniteSet(ms \ {old}) /\ Cardinality(ms \ {old}) = Cardinality(ms) - 1
  BY <1>2, FS_RemoveElement
<1>5. Newer(ms, old) \in SUBSET (ms \ {old})
  BY <1>2 DEF Newer
<1>6. /\ Cardinality(Newer(ms, old)) \in Nat
      /\ Cardinality(Newer(ms, old)) <= Cardinality(ms \ {old})
      /\ Cardinality(ms \ {old}) = Cardinality(Newer(ms, old)) => ms \ {old} = Newer(ms, old)
  BY <1>4, <1>5, FS_Subset, FS_CardinalityType
<1>7. Cardinality(ms) = Window + 1 /\ ms \ {old} = Newer(ms, old)
  BY <1>2, <1>3, <1>4, <1>6
<1>8. \A k \in ms \ {old} : k \notin OutsideWindow(ms)
  <2>1. SUFFICES ASSUME NEW k \in ms \ {old}
                 PROVE  ~(Cardinality(Newer(ms, k)) >= Window)
    BY DEF OutsideWindow, Newer
  <2>2. old.id < k.id
    BY <1>7 DEF Newer
  <2>3. /\ IsFiniteSet(Newer(ms, k))
        /\ Cardinality(Newer(ms, k)) < Cardinality(Newer(ms, old))
    BY <1>2, <2>2, NewerShrinks
  <2>4. Cardinality(Newer(ms, k)) \in Nat
    BY <2>3, FS_CardinalityType
  <2> QED
    BY <1>3, <1>4, <1>6, <1>7, <2>3, <2>4
<1>9. ms \ OutsideWindow(ms) = ms \ {old}
  BY <1>1, <1>8 DEF OutsideWindow
<1>10. Cardinality(ms \ {old}) = Window
  BY <1>3, <1>4, <1>7
<1>11. OutsideWindow(ms) = {old}
  BY <1>1, <1>2, <1>8 DEF OutsideWindow
<1> QED
  BY <1>2, <1>9, <1>10, <1>11

(* No message, or a single one, has one order. *)
LEMMA OneOrder ==
    /\ InIdOrder({}) = <<>>
    /\ \A m : InIdOrder({m}) = <<m>>
<1>1. Cardinality({}) = 0 /\ \A m : Cardinality({m}) = 1
  BY FS_EmptySet, FS_Singleton
<1>2. InIdOrder({}) = <<>>
  <2>1. SetToSeqs({}) = {<<>>}
    <3>1. \A f : f \in SetToSeqs({}) <=> f \in [1 .. 0 -> {}]
      BY <1>1 DEF SetToSeqs
    <3>2. ASSUME NEW f \in [1 .. 0 -> {}] PROVE f = <<>>
      <4>1. f \in Seq({}) /\ Len(f) = 0
        OBVIOUS
      <4> QED
        BY <4>1, EmptySeq
    <3>3. <<>> \in [1 .. 0 -> {}]
      OBVIOUS
    <3> QED
      BY <3>1, <3>2, <3>3
  <2> QED
    BY <2>1 DEF InIdOrder
<1>3. ASSUME NEW m PROVE InIdOrder({m}) = <<m>>
  <2>1. SetToSeqs({m}) = {<<m>>}
    <3>1. SetToSeqs({m}) = [1 .. 1 -> {m}]
      <4>1. Cardinality({m}) = 1
        BY <1>1, Zenon
      <4>2. \A i, j \in 1 .. 1 : i = j
        OBVIOUS
      <4> QED
        BY <4>1, <4>2 DEF SetToSeqs
    <3>2. \A f : f \in [1 .. 1 -> {m}] <=> f = <<m>>
      OBVIOUS
    <3> QED
      BY <3>1, <3>2
  <2>2. \A i, j \in DOMAIN <<m>> : ~(i < j)
    OBVIOUS
  <2> QED
    BY <2>1, <2>2 DEF InIdOrder
<1> QED
  BY <1>2, <1>3
-----------------------------------------------------------------------------
(* The digest is one truncation of all the topics ever rolled out. *)
DigestFolds ==
    /\ digest \in [Session -> Seq(Topic)]
    /\ topics \in [Session -> Seq(Topic)]
    /\ \A s \in Session : digest[s] = KeepRecent(topics[s])

(* The inductive invariant: the window and the turn count need the shape   *)
(* of the tables, unique ids and finitely many messages; the digest needs  *)
(* the window, which lets one message out at a time, in the order of ids.  *)
StoreInv ==
    /\ TablesOK
    /\ IsFiniteSet(messages)
    /\ \A s \in Session : IsFiniteSet(evicted[s])
    /\ WindowIsNewest
    /\ TurnsCounted
    /\ DigestFolds

LEMMA StoreInitInv == StoreInit => StoreInv
<1>1. SUFFICES ASSUME StoreInit PROVE StoreInv
  OBVIOUS
<1>2. \A s \in Session : MessagesOf(s) = {} /\ evicted[s] = {} /\ Transcript(s) = {}
  BY <1>1 DEF StoreInit, MessagesOf, Transcript
<1>3. TablesOK
  BY <1>1, <1>2 DEF StoreInit, TablesOK, Transcript
<1>4. IsFiniteSet({}) /\ Cardinality({}) = 0 /\ Window \in Nat
  BY FS_EmptySet, StoreAssumption
<1>5. WindowIsNewest
  BY <1>2, <1>4 DEF WindowIsNewest
<1>6. TurnsCounted
  BY <1>1 DEF StoreInit, TurnsCounted
<1>7. DigestFolds
  <2>1. <<>> \in Seq(Topic)
    OBVIOUS
  <2>2. KeepRecent(<<>>) = <<>>
    BY <2>1, KeepRecentNone
  <2> QED
    BY <1>1, <2>1, <2>2 DEF StoreInit, DigestFolds
<1> QED
  BY <1>1, <1>2, <1>3, <1>4, <1>5, <1>6, <1>7 DEF StoreInv, StoreInit

(* Steps that leave the messages alone: only the rows are to be checked.   *)
LEMMA RowStepInv ==
    ASSUME StoreInv, UNCHANGED <<digest, messages, evicted, topics>>,
           DOMAIN row \subseteq DOMAIN row', DOMAIN row' \subseteq Session,
           row' \in [DOMAIN row' -> SessionRow],
           \A s \in DOMAIN row : row'[s].turns = row[s].turns,
           \A s \in DOMAIN row' \ DOMAIN row : row'[s].turns = 0
    PROVE  StoreInv'
<1>1. \A s \in Session : MessagesOf(s)' = MessagesOf(s) /\ Transcript(s)' = Transcript(s)
  BY DEF MessagesOf, Transcript
<1>2. TablesOK'
  <2>1. messages' \subseteq [session : DOMAIN row', id : MessageId, role : Role,
                             content : Content]
    BY DEF StoreInv, TablesOK
  <2> QED
    BY <1>1, <2>1 DEF StoreInv, TablesOK
<1>3. WindowIsNewest'
  BY <1>1 DEF StoreInv, WindowIsNewest
<1>4. TurnsCounted'
  <2>1. SUFFICES ASSUME NEW s \in DOMAIN row'
                 PROVE  row'[s].turns = Cardinality({m \in Transcript(s) : m.role = "user"})
    BY <1>1 DEF TurnsCounted
  <2>2. CASE s \in DOMAIN row
    BY <2>2 DEF StoreInv, TurnsCounted
  <2>3. CASE s \notin DOMAIN row
    <3>1. {m \in Transcript(s) : m.role = "user"} = {}
      BY <2>1, <2>3 DEF StoreInv, TablesOK, Transcript, MessagesOf
    <3> QED
      BY <2>1, <2>3, <3>1, FS_EmptySet
  <2> QED
    BY <2>2, <2>3
<1>5. DigestFolds'
  BY DEF StoreInv, DigestFolds
<1> QED
  BY <1>2, <1>3, <1>4, <1>5 DEF StoreInv

(* append_message: the one step that moves messages. *)
LEMMA AppendInv ==
    ASSUME StoreInv, NEW s \in Session, NEW role \in Role, NEW c \in Content,
           NEW id \in MessageId, StoreAppend(s, role, c, id)
    PROVE  StoreInv'
<1> DEFINE m    == [session |-> s, id |-> id, role |-> role, content |-> c]
           ms   == MessagesOf(s) \cup {m}
           out  == OutsideWindow(ms)
           kept == ms \ out
<1>1. /\ s \in DOMAIN row
      /\ \A n \in Transcript(s) : n.id # id
      /\ messages' = (messages \cup {m}) \ out
      /\ evicted' = [evicted EXCEPT ![s] = @ \cup out]
      /\ row' = IF role = "user" THEN [row EXCEPT ![s].turns = @ + 1] ELSE row
  BY DEF StoreAppend
<1>2. m \in Message /\ m.session = s /\ m.id = id /\ m.role = role
  BY DEF Message
<1>3. out \in SUBSET ms /\ ms \in SUBSET (messages \cup {m}) /\ m \in ms
  BY DEF OutsideWindow, MessagesOf
<1>4. \A n \in ms : n.session = s /\ n \in Message
  BY <1>2 DEF MessagesOf, StoreInv, TablesOK, Message
<1>5. (\A n \in ms : n.id \in Nat) /\ UniqueIds(ms)
  BY <1>1, <1>2, <1>4, StoreAssumption
     DEF UniqueIds, StoreInv, TablesOK, Transcript, Message
<1>6. IsFiniteSet(MessagesOf(s)) /\ IsFiniteSet(ms) /\ m \notin MessagesOf(s)
  <2>1. MessagesOf(s) \in SUBSET messages
    BY DEF MessagesOf
  <2>2. IsFiniteSet(MessagesOf(s))
    BY <2>1, FS_Subset DEF StoreInv
  <2> QED
    BY <1>1, <1>2, <2>2, FS_AddElement DEF Transcript
<1>7. /\ Window \in Nat /\ Cardinality(MessagesOf(s)) \in Nat
      /\ Cardinality(MessagesOf(s)) <= Window
      /\ Cardinality(ms) = Cardinality(MessagesOf(s)) + 1
  BY <1>6, FS_CardinalityType, FS_AddElement, StoreAssumption DEF StoreInv, WindowIsNewest
<1> HIDE DEF m, ms, out, kept
<1>8. /\ MessagesOf(s)' = kept
      /\ evicted'[s] = evicted[s] \cup out
      /\ Transcript(s)' = Transcript(s) \cup {m}
      /\ \A t \in Session \ {s} : /\ MessagesOf(t)' = MessagesOf(t)
                                  /\ evicted'[t] = evicted[t]
                                  /\ Transcript(t)' = Transcript(t)
  <2>1. evicted'[s] = evicted[s] \cup out /\ \A t \in Session \ {s} : evicted'[t] = evicted[t]
    BY <1>1 DEF StoreInv, TablesOK
  <2>2. MessagesOf(s)' = kept
    BY <1>1, <1>2, <1>3, <1>4 DEF MessagesOf, kept, ms
  <2>3. \A t \in Session \ {s} : MessagesOf(t)' = MessagesOf(t)
    BY <1>1, <1>2, <1>3, <1>4 DEF MessagesOf
  <2>4. kept \cup evicted[s] \cup out = MessagesOf(s) \cup evicted[s] \cup {m}
    BY <1>3 DEF kept, ms
  <2> QED
    BY <2>1, <2>2, <2>3, <2>4 DEF Transcript
<1>9. DOMAIN row' = DOMAIN row /\ row' \in [DOMAIN row -> SessionRow]
  <2>1. CASE role = "user"
    <3>1. [row[s] EXCEPT !.turns = @ + 1] \in SessionRow
      BY <1>1 DEF StoreInv, TablesOK, SessionRow
    <3> QED
      BY <1>1, <2>1, <3>1 DEF StoreInv, TablesOK
  <2>2. CASE role # "user"
    BY <1>1, <2>2 DEF StoreInv, TablesOK
  <2> QED
    BY <2>1, <2>2
<1>10. TablesOK'
  <2>1. messages' \subseteq [session : DOMAIN row', id : MessageId, role : Role,
                             content : Content]
    <3>1. m \in [session : DOMAIN row, id : MessageId, role : Role, content : Content]
      BY <1>1 DEF m
    <3> QED
      BY <1>1, <1>9, <3>1 DEF StoreInv, TablesOK
  <2>2. evicted' \in [Session -> SUBSET Message]
    BY <1>1, <1>3, <1>4 DEF StoreInv, TablesOK
  <2>3. \A t \in Session : t \notin DOMAIN row' => evicted'[t] = {}
    BY <1>1, <1>8, <1>9 DEF StoreInv, TablesOK
  <2>4. \A t \in Session : \A n \in evicted'[t] : n.session = t
    BY <1>3, <1>4, <1>8 DEF StoreInv, TablesOK
  <2>5. ASSUME NEW t \in Session
        PROVE  \A n, k \in Transcript(t)' : n.id = k.id => n = k
    <3>1. CASE t = s
      BY <1>1, <1>2, <1>8, <3>1 DEF StoreInv, TablesOK
    <3>2. CASE t # s
      BY <1>8, <3>2 DEF StoreInv, TablesOK
    <3> QED
      BY <3>1, <3>2
  <2> QED
    BY <1>9, <2>1, <2>2, <2>3, <2>4, <2>5 DEF StoreInv, TablesOK
<1>11. IsFiniteSet(messages') /\ \A t \in Session : IsFiniteSet(evicted'[t])
  <2>1. IsFiniteSet(messages \cup {m})
    BY FS_AddElement DEF StoreInv
  <2>2. messages' \in SUBSET (messages \cup {m})
    BY <1>1
  <2>3. IsFiniteSet(out)
    BY <1>3, <1>6, FS_Subset
  <2>4. IsFiniteSet(evicted[s] \cup out)
    BY <2>3, FS_Union DEF StoreInv
  <2> QED
    BY <1>8, <2>1, <2>2, <2>4, FS_Subset DEF StoreInv
<1>12. IsFiniteSet(kept) /\ Cardinality(kept) \in Nat /\ Cardinality(kept) <= Window
  BY <1>5, <1>6, KeptFitsWindow, FS_CardinalityType DEF kept, out
<1>13. out # {} => Cardinality(kept) = Window
  BY <1>5, <1>6, <1>7, EvictsAtMostOne DEF kept, out
<1>14. Cardinality(MessagesOf(s)) = Window => out # {}
  BY <1>7, <1>12 DEF kept
<1>15. WindowIsNewest'
  <2>1. ASSUME NEW new \in kept, NEW old \in evicted[s] \cup out
        PROVE  old.id < new.id
    <3>1. CASE old \in out
      BY <1>5, <1>6, <2>1, <3>1, EvictedIsOlder DEF kept, out
    <3>2. CASE old \in evicted[s] /\ new \in MessagesOf(s)
      BY <3>2 DEF StoreInv, WindowIsNewest
    <3>3. CASE old \in evicted[s] /\ new = m
      <4>1. out # {}
        BY <1>14, <3>3 DEF StoreInv, WindowIsNewest
      <4>2. PICK o \in out : TRUE
        BY <4>1
      <4>3. o \in MessagesOf(s) /\ o.id < new.id
        BY <1>3, <1>5, <1>6, <2>1, <3>3, EvictedIsOlder DEF kept, out, ms
      <4>4. old.id < o.id
        BY <3>3, <4>3 DEF StoreInv, WindowIsNewest
      <4>5. old.id \in Nat /\ o.id \in Nat /\ new.id \in Nat
        BY <1>3, <1>5, <2>1, <3>3, StoreAssumption DEF StoreInv, TablesOK, Message, kept
      <4> QED
        BY <4>3, <4>4, <4>5
    <3> QED
      BY <2>1, <3>1, <3>2, <3>3 DEF kept, ms
  <2>2. evicted[s] \cup out # {} => Cardinality(kept) = Window
    BY <1>13, <1>14 DEF StoreInv, WindowIsNewest
  <2>3. ASSUME NEW t \in Session \ {s}
        PROVE  /\ Cardinality(MessagesOf(t)') <= Window
               /\ \A new \in MessagesOf(t)', old \in evicted'[t] : old.id < new.id
               /\ evicted'[t] # {} => Cardinality(MessagesOf(t)') = Window
    BY <1>8 DEF StoreInv, WindowIsNewest
  <2> QED
    BY <1>8, <1>12, <2>1, <2>2, <2>3 DEF WindowIsNewest
<1>16. TurnsCounted'
  <2> DEFINE users(t) == {n \in Transcript(t) : n.role = "user"}
  <2>1. ASSUME NEW t \in DOMAIN row, t # s
        PROVE  row'[t].turns = Cardinality(users(t)')
    BY <1>1, <1>8, <2>1 DEF StoreInv, TablesOK, TurnsCounted
  <2>2. IsFiniteSet(users(s)) /\ Cardinality(users(s)) = row[s].turns
    <3>1. IsFiniteSet(Transcript(s))
      BY <1>6, FS_Union DEF StoreInv, Transcript
    <3>2. users(s) \in SUBSET Transcript(s)
      OBVIOUS
    <3> QED
      BY <1>1, <3>1, <3>2, FS_Subset DEF StoreInv, TurnsCounted
  <2>3. CASE role = "user"
    <3>1. users(s)' = users(s) \cup {m} /\ m \notin users(s)
      BY <1>1, <1>2, <1>8, <2>3
    <3>2. row'[s].turns = row[s].turns + 1
      BY <1>1, <2>3 DEF StoreInv, TablesOK, SessionRow
    <3>3. Cardinality(users(s)') = Cardinality(users(s)) + 1
      BY <2>2, <3>1, FS_AddElement
    <3> QED
      BY <1>9, <2>1, <2>2, <3>2, <3>3 DEF TurnsCounted
  <2>4. CASE role # "user"
    <3>1. users(s)' = users(s)
      BY <1>2, <1>8, <2>4
    <3>2. row'[s].turns = row[s].turns
      BY <1>1, <2>4
    <3> QED
      BY <1>9, <2>1, <2>2, <3>1, <3>2 DEF TurnsCounted
  <2> QED
    BY <2>3, <2>4
<1>17. DigestFolds'
  <2>1. digest[s] \in Seq(Topic) /\ topics[s] \in Seq(Topic) /\ digest[s] = KeepRecent(topics[s])
    BY DEF StoreInv, DigestFolds
  <2>2. /\ digest' = IF out = {} THEN digest
                     ELSE [digest EXCEPT ![s] = BuildTopicDigest(@, InIdOrder(out))]
        /\ topics' = [topics EXCEPT ![s] = @ \o TopicsIn(InIdOrder(out))]
    BY DEF StoreAppend, out, ms, m
  <2>3. CASE out = {}
    <3>1. topics[s] \o TopicsIn(InIdOrder(out)) = topics[s]
      BY <2>1, <2>3, OneOrder, TopicsInNone
    <3>2. topics' = topics /\ digest' = digest
      BY <2>2, <2>3, <3>1 DEF StoreInv, DigestFolds
    <3> QED
      BY <3>2 DEF StoreInv, DigestFolds
  <2>4. CASE out # {}
    <3>1. PICK old \in ms : out = {old}
      <4>1. Cardinality(ms) <= Window + 1 /\ OutsideWindow(ms) # {}
        BY <1>7, <2>4 DEF out
      <4>2. \E old \in ms : OutsideWindow(ms) = {old}
        BY <1>5, <1>6, <4>1, EvictsAtMostOne
      <4> QED
        BY <4>2 DEF out
    <3>2. PICK new : new = TopicsIn(InIdOrder(out))
      OBVIOUS
    <3>3. new \in Seq(Topic)
      <4>1. old \in Message /\ \A n \in Message : n.content \in Content
        BY <1>4, <3>1 DEF Message
      <4>2. InIdOrder(out) = <<old>>
        BY <3>1, OneOrder
      <4>3. <<old>> \in Seq(Message)
        BY <4>1
      <4> QED
        BY <3>2, <4>1, <4>2, <4>3, TopicsInType
    <3>4. topics[s] \o new \in Seq(Topic)
      BY <2>1, <3>3
    <3>5. KeepRecent(digest[s] \o new) = KeepRecent(topics[s] \o new)
      BY <2>1, <3>3, KeepRecentAbsorbs
    <3>6. KeepRecent(topics[s] \o new) \in Seq(Topic)
      BY <3>4, KeepRecentType
    <3>7. /\ digest' = [digest EXCEPT ![s] = KeepRecent(topics[s] \o new)]
          /\ topics' = [topics EXCEPT ![s] = topics[s] \o new]
      BY <2>2, <2>4, <3>2, <3>5 DEF BuildTopicDigest
    <3> QED
      BY <3>4, <3>6, <3>7 DEF StoreInv, DigestFolds
  <2> QED
    BY <2>3, <2>4
<1> QED
  BY <1>10, <1>11, <1>15, <1>16, <1>17 DEF StoreInv

(* purge_expired: rows, messages and their history go together. *)
LEMMA PurgeInv ==
    ASSUME StoreInv, NEW gone \in SUBSET Session, StorePurge(gone)
    PROVE  StoreInv'
<1>1. /\ gone \subseteq DOMAIN row
      /\ row' = [s \in DOMAIN row \ gone |-> row[s]]
      /\ messages' = {m \in messages : m.session \notin gone}
      /\ evicted' = [s \in Session |-> IF s \in gone THEN {} ELSE evicted[s]]
  BY DEF StorePurge
<1>2. \A s \in Session :
          /\ s \in gone => MessagesOf(s)' = {} /\ evicted'[s] = {} /\ Transcript(s)' = {}
          /\ s \notin gone => /\ MessagesOf(s)' = MessagesOf(s)
                              /\ evicted'[s] = evicted[s]
                              /\ Transcript(s)' = Transcript(s)
  BY <1>1 DEF MessagesOf, Transcript
<1>3. DOMAIN row' = DOMAIN row \ gone /\ \A s \in DOMAIN row' : row'[s] = row[s]
  BY <1>1
<1>4. TablesOK'
  <2>1. row' \in [DOMAIN row' -> SessionRow] /\ DOMAIN row' \subseteq Session
    BY <1>1, <1>3 DEF StoreInv, TablesOK
  <2>2. messages' \subseteq [session : DOMAIN row', id : MessageId, role : Role,
                             content : Content]
    BY <1>1, <1>3 DEF StoreInv, TablesOK
  <2>3. evicted' \in [Session -> SUBSET Message]
    BY <1>1 DEF StoreInv, TablesOK
  <2>4. ASSUME NEW s \in Session
        PROVE  /\ s \notin DOMAIN row' => evicted'[s] = {}
               /\ \A m \in evicted'[s] : m.session = s
               /\ \A m, n \in Transcript(s)' : m.id = n.id => m = n
    BY <1>2, <1>3 DEF StoreInv, TablesOK
  <2> QED
    BY <2>1, <2>2, <2>3, <2>4 DEF TablesOK
<1>5. IsFiniteSet(messages') /\ \A s \in Session : IsFiniteSet(evicted'[s])
  <2>1. messages' \in SUBSET messages
    BY <1>1
  <2> QED
    BY <1>2, <2>1, FS_Subset, FS_EmptySet DEF StoreInv
<1>6. WindowIsNewest'
  <2>1. Window \in Nat /\ Cardinality({}) = 0
    BY StoreAssumption, FS_EmptySet
  <2>2. ASSUME NEW s \in Session
        PROVE  /\ Cardinality(MessagesOf(s)') <= Window
               /\ \A new \in MessagesOf(s)', old \in evicted'[s] : old.id < new.id
               /\ evicted'[s] # {} => Cardinality(MessagesOf(s)') = Window
    <3>1. CASE s \in gone
      <4>1. MessagesOf(s)' = {} /\ evicted'[s] = {}
        BY <1>2, <3>1
      <4>2. Cardinality(MessagesOf(s)') = 0
        BY <2>1, <4>1, Zenon
      <4> QED
        BY <2>1, <4>1, <4>2
    <3>2. CASE s \notin gone
      BY <1>2, <3>2 DEF StoreInv, WindowIsNewest
    <3> QED
      BY <3>1, <3>2
  <2> QED
    BY <2>2 DEF WindowIsNewest
<1>7. TurnsCounted'
  <2>1. SUFFICES ASSUME NEW s \in DOMAIN row'
                 PROVE  row'[s].turns = Cardinality({m \in Transcript(s)' : m.role = "user"})
    BY DEF TurnsCounted
  <2>2. Transcript(s)' = Transcript(s) /\ row'[s] = row[s] /\ s \in DOMAIN row
    BY <1>2, <1>3 DEF StoreInv, TablesOK
  <2> QED
    BY <2>2 DEF StoreInv, TurnsCounted
<1>8. DigestFolds'
  <2>1. /\ digest' = [s \in Session |-> IF s \in gone THEN <<>> ELSE digest[s]]
        /\ topics' = [s \in Session |-> IF s \in gone THEN <<>> ELSE topics[s]]
    BY DEF StorePurge
  <2>2. <<>> \in Seq(Topic) /\ KeepRecent(<<>>) = <<>>
    BY KeepRecentNone
  <2> QED
    BY <2>1, <2>2 DEF StoreInv, DigestFolds
<1> QED
  BY <1>4, <1>5, <1>6, <1>7, <1>8 DEF StoreInv

(* Every operation of the store preserves the invariant; the callers'      *)
(* modules cite this for the steps they take on the store.                 *)
LEMMA StoreNextInv == StoreInv /\ [StoreNext]_storeVars => StoreInv'
<1> SUFFICES ASSUME StoreInv, [StoreNext]_storeVars PROVE StoreInv'
  OBVIOUS
<1>1. ASSUME NEW s \in Session, NEW u \in User \cup {Null}, StoreGet(s, u)
      PROVE  StoreInv'
  <2>1. DOMAIN row \subseteq DOMAIN row' /\ DOMAIN row' \subseteq Session
    BY <1>1 DEF StoreGet, StoreInv, TablesOK
  <2>2. row' \in [DOMAIN row' -> SessionRow]
    BY <1>1 DEF StoreGet, StoreInv, TablesOK, SessionRow, NewRow
  <2>3. /\ \A t \in DOMAIN row : row'[t].turns = row[t].turns
        /\ \A t \in DOMAIN row' \ DOMAIN row : row'[t].turns = 0
    BY <1>1 DEF StoreGet, StoreInv, TablesOK, SessionRow, NewRow
  <2> QED
    BY <1>1, <2>1, <2>2, <2>3, RowStepInv DEF StoreGet
<1>2. ASSUME NEW s \in Session, NEW role \in Role, NEW c \in Content,
             NEW id \in MessageId, StoreAppend(s, role, c, id)
      PROVE  StoreInv'
  BY <1>2, AppendInv
<1>3. ASSUME NEW s \in Session, NEW q \in Question \cup {Null},
             NEW c \in Content \cup {Null}, StoreSetPending(s, q, c)
      PROVE  StoreInv'
  <2>1. CASE s \in DOMAIN row
    <3>1. row' = [row EXCEPT ![s] = [@ EXCEPT !.pending = q, !.intent = c]]
      BY <1>3, <2>1 DEF StoreSetPending, StoreInv, TablesOK
    <3>2. /\ [row[s] EXCEPT !.pending = q, !.intent = c] \in SessionRow
          /\ [row[s] EXCEPT !.pending = q, !.intent = c].turns = row[s].turns
      <4>1. row[s] \in SessionRow
        BY <2>1 DEF StoreInv, TablesOK
      <4> QED
        BY <1>3, <4>1 DEF SessionRow
    <3>3. row' \in [DOMAIN row -> SessionRow] /\ DOMAIN row' = DOMAIN row
      BY <3>1, <3>2 DEF StoreInv, TablesOK
    <3>4. \A t \in DOMAIN row : row'[t].turns = row[t].turns
      BY <2>1, <3>1, <3>2 DEF StoreInv, TablesOK
    <3> QED
      BY <1>3, <3>3, <3>4, RowStepInv DEF StoreSetPending, StoreInv, TablesOK
  <2>2. CASE s \notin DOMAIN row
    BY <1>3, <2>2, RowStepInv DEF StoreSetPending, StoreInv, TablesOK
  <2> QED
    BY <2>1, <2>2
<1>4. ASSUME NEW gone \in SUBSET Session, StorePurge(gone)
      PROVE  StoreInv'
  BY <1>4, PurgeInv
<1>5. ASSUME UNCHANGED storeVars PROVE StoreInv'
  BY <1>5, RowStepInv DEF storeVars, StoreInv, TablesOK
<1> QED
  BY <1>1, <1>2, <1>3, <1>4, <1>5 DEF StoreNext, StoreClearPending

LEMMA StoreInvariant == StoreSpec => []StoreInv
BY StoreInitInv, StoreNextInv, PTL DEF StoreSpec

(* The tables stay well formed: foreign key, column types, unique ids. *)
THEOREM StoreTablesOK == StoreSpec => []TablesOK
BY StoreInvariant, PTL DEF StoreInv

(* The history handed to the pipeline is always the newest Window messages, *)
(* in whatever order concurrent appends commit their ids.                   *)
THEOREM StoreWindowIsNewest == StoreSpec => []WindowIsNewest
BY StoreInvariant, PTL DEF StoreInv

(* turn_count is the number of user messages, evictions included. *)
THEOREM StoreTurnsCounted == StoreSpec => []TurnsCounted
BY StoreInvariant, PTL DEF StoreInv

(* Tables, digests and history variables hold what they are declared to.   *)
THEOREM StoreIsTyped == StoreSpec => []StoreTypeOK
<1>1. StoreInv => StoreTypeOK
  BY DEF StoreInv, DigestFolds, StoreTypeOK
<1> QED
  BY <1>1, StoreInvariant, PTL

(* Truncating at every append, as build_topic_digest does, loses nothing   *)
(* that one truncation of all that was ever rolled out would have kept:    *)
(* for every limit, every window and topics of any length.                 *)
THEOREM StoreDigestComplete == StoreSpec => []DigestComplete
<1>1. StoreInv => DigestComplete
  <2> SUFFICES ASSUME StoreInv, NEW s \in DOMAIN row PROVE
                 /\ digest[s] = KeepRecent(topics[s])
                 /\ \A more \in BoundedSeq(Topic, 2) :
                       KeepRecent(digest[s] \o more) = KeepRecent(topics[s] \o more)
    BY DEF DigestComplete
  <2>1. s \in Session /\ topics[s] \in Seq(Topic) /\ digest[s] = KeepRecent(topics[s])
    BY DEF StoreInv, TablesOK, DigestFolds
  <2>2. BoundedSeq(Topic, 2) \subseteq Seq(Topic)
    <3> SUFFICES ASSUME NEW n \in 0 .. 2, NEW more \in [1 .. n -> Topic]
                 PROVE  more \in Seq(Topic)
      BY DEF BoundedSeq, SeqOf
    <3> QED
      OBVIOUS
  <2> QED
    BY <2>1, <2>2, KeepRecentAbsorbs
<1> QED
  BY <1>1, StoreInvariant, PTL
-----------------------------------------------------------------------------
(* The Postgres backend.                                                   *)
-----------------------------------------------------------------------------
(* What an append of m must roll out, and the digest it must leave.        *)
Overflow(m) == OutsideWindow(MessagesOf(m.session) \cup {m})
DigestAfter(m) == IF Overflow(m) = {} THEN digest[m.session]
                  ELSE BuildTopicDigest(digest[m.session], InIdOrder(Overflow(m)))

Unfinished == [pc : {"inserted", "locked"}, msg : Message]
HasRead == [pc : {"read"}, msg : Message, out : SUBSET Message, digest : Seq(Topic)]

(* A transaction on its way: its session is there and its id its own, and  *)
(* what it has read still stands.                                          *)
InOrder(t) ==
    t # NoTxn =>
        /\ t.pc \in {"inserted", "locked", "read"}
        /\ t.msg \in Message /\ t.msg.session \in DOMAIN row /\ t.msg.id <= seq
        /\ \A n \in Transcript(t.msg.session) : n.id # t.msg.id
        /\ t.pc # "read" => t \in Unfinished
        /\ t.pc = "read" => /\ t \in HasRead
                            /\ t.out = Overflow(t.msg) /\ t.digest = DigestAfter(t.msg)

(* Two transactions have two ids, and at most one is past the row lock.    *)
Apart(t, u) ==
    t # NoTxn /\ u # NoTxn =>
        /\ t.msg.id # u.msg.id
        /\ t.msg.session = u.msg.session => t.pc = "inserted" \/ u.pc = "inserted"

PgInv ==
    /\ StoreInv
    /\ seq \in Nat
    /\ digest = [s \in Session |-> digest[s]]
    /\ txn = [c \in Client |-> txn[c]]
    /\ \A s \in Session : \A n \in Transcript(s) : n.id <= seq
    /\ \A c \in Client : InOrder(txn[c])
    /\ \A c, d \in Client : c # d => Apart(txn[c], txn[d])
-----------------------------------------------------------------------------
(* A client is idle exactly when it has no transaction. *)
LEMMA IdleIsNoTxn ==
  ASSUME PgInv, NEW c \in Client
  PROVE  txn[c].pc = "idle" <=> txn[c] = NoTxn
BY DEF PgInv, InOrder, NoTxn

(* Ids are numbers, kept or rolled out. *)
LEMMA IdsAreNumbers ==
  ASSUME StoreInv, NEW s \in Session
  PROVE  /\ Transcript(s) \subseteq Message /\ \A n \in Transcript(s) : n.id \in Nat
         /\ \A m \in Message : m.id \in Nat /\ m.id \in MessageId /\ m.session \in Session
<1>1. \A m \in Message : m.id \in Nat /\ m.id \in MessageId /\ m.session \in Session
  BY StoreAssumption DEF Message
<1>2. messages \subseteq Message /\ evicted[s] \subseteq Message
  BY DEF StoreInv, TablesOK, Message
<1> QED
  BY <1>1, <1>2 DEF Transcript, MessagesOf

(* What a transaction has read stands as long as its session is left alone. *)
LEMMA StaysInOrder ==
  ASSUME PgInv, NEW t, InOrder(t), seq' \in Nat, seq <= seq',
         t # NoTxn =>
            /\ t.msg.session \in DOMAIN row'
            /\ \A n \in Transcript(t.msg.session)' : n.id # t.msg.id
            /\ t.pc = "read" => /\ MessagesOf(t.msg.session)' = MessagesOf(t.msg.session)
                                /\ digest'[t.msg.session] = digest[t.msg.session]
  PROVE  InOrder(t)'
<1> SUFFICES ASSUME t # NoTxn PROVE InOrder(t)'
  BY DEF InOrder
<1>1. t.msg \in Message /\ t.msg.id \in Nat /\ t.msg.id <= seq'
  BY IdsAreNumbers, StoreAssumption DEF InOrder, PgInv, Message
<1>2. t.pc = "read" => Overflow(t.msg)' = Overflow(t.msg) /\ DigestAfter(t.msg)' = DigestAfter(t.msg)
  BY DEF Overflow, DigestAfter
<1> QED
  BY <1>1, <1>2 DEF InOrder

(* Steps that leave the tables as they are: one transaction t of c moves.  *)
LEMMA TransactionMoves ==
  ASSUME PgInv, NEW c \in Client, NEW t, txn' = [txn EXCEPT ![c] = t],
         UNCHANGED storeVars, seq' \in Nat, seq <= seq', InOrder(t)',
         \A d \in Client \ {c} : Apart(t, txn[d])
  PROVE  PgInv'
<1>1. \A s \in Session : Transcript(s)' = Transcript(s) /\ MessagesOf(s)' = MessagesOf(s)
  BY DEF storeVars, Transcript, MessagesOf
<1>2. StoreInv'
  BY StoreNextInv DEF PgInv
<1>3. txn' = [d \in Client |-> txn'[d]] /\ txn'[c] = t
      /\ \A d \in Client \ {c} : txn'[d] = txn[d]
  BY DEF PgInv
<1>4. digest' = [s \in Session |-> digest'[s]]
  BY DEF PgInv, storeVars
<1>5. \A s \in Session : \A n \in Transcript(s)' : n.id <= seq'
  <2> SUFFICES ASSUME NEW s \in Session, NEW n \in Transcript(s) PROVE n.id <= seq'
    BY <1>1
  <2>1. n.id \in Nat /\ n.id <= seq
    BY IdsAreNumbers DEF PgInv
  <2> QED
    BY <2>1 DEF PgInv
<1>6. ASSUME NEW d \in Client PROVE InOrder(txn[d])'
  <2>1. CASE d = c
    BY <1>3, <2>1
  <2>2. CASE d # c
    <3>1. PICK u : u = txn[d]
      OBVIOUS
    <3>2. InOrder(u) /\ (u # NoTxn => u.msg.session \in Session)
      BY <3>1, IdsAreNumbers DEF PgInv, InOrder, Message
    <3>3. u # NoTxn => /\ u.msg.session \in DOMAIN row'
                       /\ \A n \in Transcript(u.msg.session)' : n.id # u.msg.id
                       /\ MessagesOf(u.msg.session)' = MessagesOf(u.msg.session)
                       /\ digest'[u.msg.session] = digest[u.msg.session]
      BY <1>1, <3>2 DEF InOrder, storeVars
    <3>4. InOrder(u)'
      BY <3>2, <3>3, StaysInOrder
    <3> QED
      BY <1>3, <2>2, <3>1, <3>4
  <2> QED
    BY <2>1, <2>2
<1>7. \A d, e \in Client : d # e => Apart(txn[d], txn[e])'
  BY <1>3 DEF PgInv, Apart
<1> QED
  BY <1>2, <1>3, <1>4, <1>5, <1>6, <1>7 DEF PgInv

(* INSERT: the id is new to all. *)
LEMMA InsertPreserves ==
  ASSUME PgInv, NEW c \in Client, NEW s \in Session, NEW role \in Role, NEW content \in Content,
         AppendInsert(c, s, role, content)
  PROVE  PgInv'
<1>1. PICK m : m = [session |-> s, id |-> seq + 1, role |-> role, content |-> content]
  OBVIOUS
<1>2. PICK t : t = [pc |-> "inserted", msg |-> m]
  OBVIOUS
<1>3. m \in Message /\ m.id = seq + 1 /\ m.session = s
  BY <1>1 DEF AppendInsert, Message
<1>4. t.pc = "inserted" /\ t.msg = m /\ t \in Unfinished
  BY <1>2, <1>3 DEF Unfinished
<1>5. txn' = [txn EXCEPT ![c] = t] /\ UNCHANGED storeVars /\ seq' = seq + 1 /\ seq \in Nat
      /\ s \in DOMAIN row
  BY <1>1, <1>2 DEF AppendInsert, PgInv
<1>6. seq' \in Nat /\ seq <= seq'
  BY <1>5
<1>7. InOrder(t)'
  <2>1. Transcript(s)' = Transcript(s) /\ s \in DOMAIN row'
    BY <1>5 DEF storeVars, Transcript, MessagesOf
  <2>2. \A n \in Transcript(s) : n.id # seq + 1
    BY <1>5, IdsAreNumbers DEF PgInv
  <2> QED
    BY <1>3, <1>4, <1>5, <1>6, <2>1, <2>2 DEF InOrder
<1>8. ASSUME NEW d \in Client \ {c} PROVE Apart(t, txn[d])
  <2>1. txn[d] # NoTxn => txn[d].msg.id \in Nat /\ txn[d].msg.id <= seq
    BY IdsAreNumbers DEF PgInv, InOrder
  <2> QED
    BY <1>3, <1>4, <1>5, <2>1 DEF Apart
<1> QED
  BY <1>5, <1>6, <1>7, <1>8, TransactionMoves

(* UPDATE chat_sessions: whoever gets the lock finds nobody past it. *)
LEMMA LockPreserves ==
  ASSUME PgInv, NEW c \in Client, AppendLockRow(c)
  PROVE  PgInv'
<1>1. PICK u : u = txn[c]
  OBVIOUS
<1>2. PICK t : t = [u EXCEPT !.pc = "locked"]
  OBVIOUS
<1>3. u # NoTxn /\ u.pc = "inserted" /\ u \in Unfinished /\ InOrder(u)
  BY <1>1 DEF AppendLockRow, NoTxn, PgInv, InOrder
<1>4. t \in Unfinished /\ t.pc = "locked" /\ t.msg = u.msg
  BY <1>2, <1>3 DEF Unfinished
<1>5. txn' = [txn EXCEPT ![c] = t] /\ UNCHANGED storeVars /\ seq' \in Nat /\ seq' = seq /\ seq <= seq'
  BY <1>1, <1>2 DEF AppendLockRow, PgInv
<1>6. InOrder(t)'
  <2>1. InOrder(t)
    BY <1>3, <1>4 DEF InOrder
  <2>2. Transcript(t.msg.session)' = Transcript(t.msg.session)
    BY <1>5 DEF storeVars, Transcript, MessagesOf
  <2> QED
    BY <1>4, <1>5, <2>1, <2>2 DEF InOrder, storeVars
<1>7. ASSUME NEW d \in Client \ {c} PROVE Apart(t, txn[d])
  <2>1. Apart(u, txn[d])
    BY <1>1 DEF PgInv
  <2>2. ~On(d, u.msg.session) \/ txn[d].pc = "inserted"
    BY <1>1 DEF AppendLockRow, RowLockHolders
  <2>3. txn[d] # NoTxn /\ txn[d].msg.session = u.msg.session => txn[d].pc = "inserted"
    BY <2>2, IdleIsNoTxn DEF On, Active
  <2> QED
    BY <1>3, <1>4, <2>1, <2>3 DEF Apart
<1> QED
  BY <1>5, <1>6, <1>7, TransactionMoves

(* What the SELECTs of a transaction return: messages, at most one, and    *)
(* topics.                                                                 *)
LEMMA WhatIsRead ==
  ASSUME StoreInv, NEW m \in Message, m.session \in DOMAIN row,
         \A n \in Transcript(m.session) : n.id # m.id
  PROVE  Overflow(m) \subseteq Message /\ DigestAfter(m) \in Seq(Topic)
<1>1. PICK s \in Session : s = m.session
  BY DEF Message
<1>2. PICK ms : ms = MessagesOf(s) \cup {m}
  OBVIOUS
<1>3. Overflow(m) = OutsideWindow(ms) /\ OutsideWindow(ms) \subseteq ms
  BY <1>1, <1>2 DEF Overflow, OutsideWindow
<1>4. ms \subseteq Message /\ (\A n \in ms : n.id \in Nat) /\ UniqueIds(ms)
  BY <1>1, <1>2, IdsAreNumbers DEF Transcript, UniqueIds, StoreInv, TablesOK
<1>5. IsFiniteSet(MessagesOf(s)) /\ m \notin MessagesOf(s)
  <2>1. MessagesOf(s) \in SUBSET messages
    BY DEF MessagesOf
  <2> QED
    BY <1>1, <2>1, FS_Subset DEF StoreInv, Transcript
<1>6. IsFiniteSet(ms) /\ Cardinality(ms) <= Window + 1
  <2>1. /\ Window \in Nat /\ Cardinality(MessagesOf(s)) \in Nat
        /\ Cardinality(MessagesOf(s)) <= Window
    BY <1>5, FS_CardinalityType, StoreAssumption DEF StoreInv, WindowIsNewest
  <2>2. IsFiniteSet(ms) /\ Cardinality(ms) = Cardinality(MessagesOf(s)) + 1
    BY <1>2, <1>5, FS_AddElement
  <2> QED
    BY <2>1, <2>2
<1>7. digest[s] \in Seq(Topic)
  BY DEF StoreInv, DigestFolds
<1>8. CASE OutsideWindow(ms) = {}
  BY <1>1, <1>3, <1>7, <1>8 DEF DigestAfter
<1>9. CASE OutsideWindow(ms) # {}
  <2>1. PICK old \in ms : OutsideWindow(ms) = {old}
    <3>1. \E old \in ms : OutsideWindow(ms) = {old}
      BY <1>4, <1>6, <1>9, EvictsAtMostOne
    <3> QED
      BY <3>1
  <2>2. PICK new : new = TopicsIn(InIdOrder(OutsideWindow(ms)))
    OBVIOUS
  <2>3. new \in Seq(Topic)
    <3>1. old \in Message /\ \A n \in Message : n.content \in Content
      BY <1>4, <2>1 DEF Message
    <3>2. InIdOrder(OutsideWindow(ms)) = <<old>>
      BY <2>1, OneOrder
    <3>3. <<old>> \in Seq(Message)
      BY <3>1
    <3> QED
      BY <2>2, <3>1, <3>2, <3>3, TopicsInType
  <2>4. digest[s] \o new \in Seq(Topic)
    BY <1>7, <2>3
  <2>5. KeepRecent(digest[s] \o new) \in Seq(Topic)
    BY <2>4, KeepRecentType
  <2>6. DigestAfter(m) = KeepRecent(digest[s] \o new)
    BY <1>1, <1>3, <1>9, <2>2 DEF DigestAfter, BuildTopicDigest
  <2> QED
    BY <1>3, <1>4, <2>5, <2>6
<1> QED
  BY <1>8, <1>9

(* The SELECTs: what they return is what the commit will need. *)
LEMMA ReadPreserves ==
  ASSUME PgInv, NEW c \in Client, AppendReadOutside(c)
  PROVE  PgInv'
<1>1. PICK u : u = txn[c]
  OBVIOUS
<1>2. PICK t : t = [pc |-> "read", msg |-> u.msg, out |-> Overflow(u.msg), digest |-> DigestAfter(u.msg)]
  OBVIOUS
<1>3. u # NoTxn /\ u.pc = "locked" /\ InOrder(u)
  BY <1>1 DEF AppendReadOutside, NoTxn, PgInv
<1>4. t.pc = "read" /\ t.msg = u.msg /\ t.out = Overflow(u.msg) /\ t.digest = DigestAfter(u.msg)
      /\ t # NoTxn
  BY <1>2 DEF NoTxn
<1>5. t \in HasRead
  BY <1>2, <1>3, WhatIsRead DEF HasRead, InOrder, PgInv
<1>6. txn' = [txn EXCEPT ![c] = t] /\ UNCHANGED storeVars /\ seq' \in Nat /\ seq' = seq /\ seq <= seq'
  BY <1>1, <1>2 DEF AppendReadOutside, PgInv, Overflow, DigestAfter
<1>7. InOrder(t)'
  <2>1. InOrder(t)
    BY <1>3, <1>4, <1>5 DEF InOrder
  <2>2. /\ Transcript(t.msg.session)' = Transcript(t.msg.session)
        /\ MessagesOf(t.msg.session)' = MessagesOf(t.msg.session)
    BY <1>6 DEF storeVars, Transcript, MessagesOf
  <2>3. /\ t.msg.session \in DOMAIN row' /\ digest'[t.msg.session] = digest[t.msg.session]
        /\ \A n \in Transcript(t.msg.session)' : n.id # t.msg.id
    BY <1>4, <1>6, <2>1, <2>2 DEF InOrder, storeVars
  <2> QED
    BY <1>6, <2>1, <2>2, <2>3, StaysInOrder
<1>8. ASSUME NEW d \in Client \ {c} PROVE Apart(t, txn[d])
  BY <1>1, <1>3, <1>4 DEF PgInv, Apart
<1> QED
  BY <1>6, <1>7, <1>8, TransactionMoves

(* An error: nothing of the transaction remains. *)
LEMMA RollbackPreserves ==
  ASSUME PgInv, NEW c \in Client, AppendRollback(c)
  PROVE  PgInv'
<1>1. txn' = [txn EXCEPT ![c] = NoTxn] /\ UNCHANGED storeVars /\ seq' \in Nat /\ seq' = seq /\ seq <= seq'
  BY DEF AppendRollback, PgInv
<1>2. InOrder(NoTxn)' /\ \A d \in Client : Apart(NoTxn, txn[d])
  BY DEF InOrder, Apart
<1> QED
  BY <1>1, <1>2, TransactionMoves

(* An id that is drawn for nothing. *)
LEMMA NoSessionPreserves ==
  ASSUME PgInv, NEW c \in Client, NEW s \in Session, AppendNoSession(c, s)
  PROVE  PgInv'
<1>1. PICK t : t = txn[c]
  OBVIOUS
<1>2. txn' = [txn EXCEPT ![c] = t] /\ UNCHANGED storeVars /\ seq' \in Nat /\ seq <= seq'
  BY <1>1 DEF AppendNoSession, PgInv
<1>3. t = NoTxn
  BY <1>1, IdleIsNoTxn DEF AppendNoSession, Active
<1>4. InOrder(t)' /\ \A d \in Client : Apart(t, txn[d])
  BY <1>3 DEF InOrder, Apart
<1> QED
  BY <1>2, <1>4, TransactionMoves
-----------------------------------------------------------------------------
(* Steps that change the tables: they are operations of the store, and the *)
(* transactions that go on find what they rely on.                         *)
LEMMA TablesMove ==
  ASSUME PgInv, [StoreNext]_storeVars, seq' = seq,
         txn' = [d \in Client |-> txn'[d]],
         \A d \in Client : txn'[d] = NoTxn \/ txn'[d] = txn[d],
         digest' = [s \in Session |-> digest'[s]],
         \A s \in Session : \A n \in Transcript(s)' : n.id <= seq,
         \A d \in Client : txn'[d] # NoTxn =>
            /\ txn[d].msg.session \in DOMAIN row'
            /\ \A n \in Transcript(txn[d].msg.session)' : n.id # txn[d].msg.id
            /\ txn[d].pc = "read" =>
                  /\ MessagesOf(txn[d].msg.session)' = MessagesOf(txn[d].msg.session)
                  /\ digest'[txn[d].msg.session] = digest[txn[d].msg.session]
  PROVE  PgInv'
<1>1. StoreInv'
  BY StoreNextInv DEF PgInv
<1>2. seq' \in Nat /\ seq <= seq' /\ \A s \in Session : \A n \in Transcript(s)' : n.id <= seq'
  BY DEF PgInv
<1>3. ASSUME NEW d \in Client PROVE InOrder(txn[d])'
  <2>1. PICK u : u = txn'[d]
    OBVIOUS
  <2>2. CASE u = NoTxn
    BY <2>1, <2>2 DEF InOrder
  <2>3. CASE u # NoTxn
    <3>1. u = txn[d] /\ InOrder(u)
      BY <2>1, <2>3 DEF PgInv
    <3>2. /\ u.msg.session \in DOMAIN row' /\ \A n \in Transcript(u.msg.session)' : n.id # u.msg.id
          /\ u.pc = "read" => /\ MessagesOf(u.msg.session)' = MessagesOf(u.msg.session)
                              /\ digest'[u.msg.session] = digest[u.msg.session]
      BY <2>1, <2>3, <3>1
    <3>3. InOrder(u)'
      BY <1>2, <3>1, <3>2, StaysInOrder
    <3> QED
      BY <2>1, <3>3
  <2> QED
    BY <2>2, <2>3
<1>4. \A d, e \in Client : d # e => Apart(txn[d], txn[e])'
  BY DEF PgInv, Apart
<1> QED
  BY <1>1, <1>2, <1>3, <1>4 DEF PgInv

(* COMMIT: what becomes visible is one append, with the messages deleted   *)
(* that the digest has taken in.                                           *)
LEMMA CommitIsAppend ==
  ASSUME PgInv, NEW c \in Client, AppendCommit(c)
  PROVE  /\ txn[c].msg \in Message
         /\ StoreAppend(txn[c].msg.session, txn[c].msg.role, txn[c].msg.content, txn[c].msg.id)
<1>1. PICK t : t = txn[c]
  OBVIOUS
<1>2. PICK m : m = t.msg
  OBVIOUS
<1>3. PICK s : s = m.session
  OBVIOUS
<1>4. PICK out : out = Overflow(m)
  OBVIOUS
<1>5. t # NoTxn /\ t.pc = "read" /\ InOrder(t)
  BY <1>1 DEF AppendCommit, NoTxn, PgInv
<1>6. /\ m \in Message /\ s \in Session /\ s \in DOMAIN row
      /\ \A n \in Transcript(s) : n.id # m.id
      /\ t.out = out /\ t.digest = DigestAfter(m)
  BY <1>2, <1>3, <1>4, <1>5, IdsAreNumbers DEF InOrder, PgInv, Message
<1>7. m = [session |-> s, id |-> m.id, role |-> m.role, content |-> m.content]
  BY <1>3, <1>6 DEF Message
<1>8. out = OutsideWindow(MessagesOf(s) \cup {m})
  BY <1>3, <1>4 DEF Overflow
<1>9. (IF t.out = {} THEN {} ELSE OutsideWindow(MessagesOf(s) \cup {m})) = out
  BY <1>6, <1>8
<1>10. /\ messages' = (messages \cup {m}) \ out
       /\ row' = IF m.role = "user" THEN [row EXCEPT ![s].turns = @ + 1] ELSE row
       /\ digest' = [digest EXCEPT ![s] = t.digest]
       /\ evicted' = [evicted EXCEPT ![s] = @ \cup out]
       /\ topics' = [topics EXCEPT ![s] = @ \o TopicsIn(InIdOrder(out))]
  BY <1>1, <1>2, <1>3, <1>9 DEF AppendCommit
<1>11. digest' = IF out = {} THEN digest
                 ELSE [digest EXCEPT ![s] = BuildTopicDigest(@, InIdOrder(out))]
  <2>1. t.digest = IF out = {} THEN digest[s] ELSE BuildTopicDigest(digest[s], InIdOrder(out))
    BY <1>3, <1>4, <1>6 DEF DigestAfter
  <2> QED
    BY <1>6, <1>10, <2>1 DEF PgInv
<1>12. StoreAppend(s, m.role, m.content, m.id)
  BY <1>6, <1>7, <1>8, <1>10, <1>11 DEF StoreAppend
<1> QED
  BY <1>1, <1>2, <1>3, <1>6, <1>12

(* A commit adds its message to the transcript of its session and leaves   *)
(* the other sessions alone.                                               *)
LEMMA AppendExtends ==
  ASSUME StoreInv, NEW m \in Message, StoreAppend(m.session, m.role, m.content, m.id)
  PROVE  /\ DOMAIN row' = DOMAIN row
         /\ Transcript(m.session)' = Transcript(m.session) \cup {m}
         /\ \A s \in Session \ {m.session} :
               Transcript(s)' = Transcript(s) /\ MessagesOf(s)' = MessagesOf(s)
<1>1. PICK s : s = m.session
  OBVIOUS
<1>2. PICK out : out = OutsideWindow(MessagesOf(s) \cup {m})
  OBVIOUS
<1>3. m = [session |-> s, id |-> m.id, role |-> m.role, content |-> m.content] /\ s \in Session
  BY <1>1 DEF Message
<1>4. /\ messages' = (messages \cup {m}) \ out
      /\ row' = IF m.role = "user" THEN [row EXCEPT ![s].turns = @ + 1] ELSE row
      /\ evicted' = [evicted EXCEPT ![s] = @ \cup out]
  BY <1>1, <1>2, <1>3 DEF StoreAppend
<1>5. out \subseteq MessagesOf(s) \cup {m}
  BY <1>2 DEF OutsideWindow
<1>6. evicted \in [Session -> SUBSET Message]
  BY DEF StoreInv, TablesOK
<1>7. Transcript(s)' = Transcript(s) \cup {m}
  BY <1>1, <1>3, <1>4, <1>5, <1>6 DEF Transcript, MessagesOf
<1>8. \A r \in Session \ {s} : Transcript(r)' = Transcript(r) /\ MessagesOf(r)' = MessagesOf(r)
  BY <1>1, <1>4, <1>5, <1>6 DEF Transcript, MessagesOf
<1> QED
  BY <1>1, <1>4, <1>7, <1>8

(* COMMIT and the transactions that go on. *)
LEMMA CommitPreserves ==
  ASSUME PgInv, NEW c \in Client, AppendCommit(c)
  PROVE  StoreNext /\ PgInv'
<1>1. PICK t : t = txn[c]
  OBVIOUS
<1>2. PICK m : m = t.msg
  OBVIOUS
<1>3. m \in Message /\ StoreAppend(m.session, m.role, m.content, m.id)
  BY <1>1, <1>2, CommitIsAppend
<1>4. t # NoTxn /\ t.pc = "read" /\ InOrder(t)
  BY <1>1 DEF AppendCommit, NoTxn, PgInv
<1>5. StoreNext
  BY <1>3 DEF StoreNext, Message
<1>6. /\ seq' = seq /\ txn' = [d \in Client |-> txn'[d]] /\ txn'[c] = NoTxn
      /\ \A d \in Client \ {c} : txn'[d] = txn[d]
      /\ digest' = [digest EXCEPT ![m.session] = t.digest]
  BY <1>1, <1>2 DEF AppendCommit, PgInv
<1>7. /\ DOMAIN row' = DOMAIN row
      /\ Transcript(m.session)' = Transcript(m.session) \cup {m}
      /\ \A s \in Session \ {m.session} :
            Transcript(s)' = Transcript(s) /\ MessagesOf(s)' = MessagesOf(s)
  BY <1>3, AppendExtends DEF PgInv
<1>8. \A s \in Session : \A n \in Transcript(s)' : n.id <= seq
  BY <1>2, <1>4, <1>7 DEF PgInv, InOrder
<1>9. /\ digest' = [s \in Session |-> digest'[s]]
      /\ \A s \in Session \ {m.session} : digest'[s] = digest[s]
  BY <1>6 DEF PgInv
<1>10. ASSUME NEW d \in Client, txn'[d] # NoTxn
       PROVE  /\ txn[d].msg.session \in DOMAIN row'
              /\ \A n \in Transcript(txn[d].msg.session)' : n.id # txn[d].msg.id
              /\ txn[d].pc = "read" =>
                    /\ MessagesOf(txn[d].msg.session)' = MessagesOf(txn[d].msg.session)
                    /\ digest'[txn[d].msg.session] = digest[txn[d].msg.session]
  <2>1. PICK u : u = txn[d]
    OBVIOUS
  <2>2. d # c /\ txn'[d] = u /\ u # NoTxn /\ InOrder(u) /\ Apart(t, u)
    BY <1>1, <1>6, <1>10, <2>1 DEF PgInv
  <2>3. u.msg.session \in Session /\ u.msg.session \in DOMAIN row'
    BY <1>7, <2>2, IdsAreNumbers DEF InOrder, Message, PgInv
  <2>4. \A n \in Transcript(u.msg.session)' : n.id # u.msg.id
    BY <1>2, <1>4, <1>7, <2>2, <2>3 DEF InOrder, Apart
  <2>5. u.pc = "read" => u.msg.session # m.session
    BY <1>2, <1>4, <2>2 DEF Apart
  <2>6. u.pc = "read" => /\ MessagesOf(u.msg.session)' = MessagesOf(u.msg.session)
                         /\ digest'[u.msg.session] = digest[u.msg.session]
    BY <1>7, <1>9, <2>3, <2>5
  <2> QED
    BY <2>1, <2>2, <2>3, <2>4, <2>6
<1>11. \A d \in Client : txn'[d] = NoTxn \/ txn'[d] = txn[d]
  BY <1>6
<1> QED
  BY <1>5, <1>6, <1>8, <1>9, <1>10, <1>11, TablesMove

(* get and the two updates of the clarification leave messages and digest  *)
(* alone, so they disturb no transaction.                                  *)
LEMMA RowStepPreserves ==
  ASSUME PgInv, StoreNext, DOMAIN row \subseteq DOMAIN row',
         UNCHANGED <<digest, messages, evicted, topics, seq, txn>>
  PROVE  PgInv'
<1>1. \A s \in Session : Transcript(s)' = Transcript(s) /\ MessagesOf(s)' = MessagesOf(s)
  BY DEF Transcript, MessagesOf
<1>2. ASSUME NEW d \in Client, txn'[d] # NoTxn
      PROVE  /\ txn[d].msg.session \in DOMAIN row'
             /\ \A n \in Transcript(txn[d].msg.session)' : n.id # txn[d].msg.id
             /\ MessagesOf(txn[d].msg.session)' = MessagesOf(txn[d].msg.session)
  <2>1. PICK u : u = txn[d]
    OBVIOUS
  <2>2. u # NoTxn /\ InOrder(u)
    BY <1>2, <2>1 DEF PgInv
  <2>3. u.msg.session \in Session
    BY <2>2 DEF InOrder, Message
  <2> QED
    BY <1>1, <2>1, <2>2, <2>3 DEF InOrder
<1>3. txn' = [d \in Client |-> txn'[d]] /\ digest' = [s \in Session |-> digest'[s]]
  BY DEF PgInv
<1>4. \A s \in Session : \A n \in Transcript(s)' : n.id <= seq
  BY <1>1 DEF PgInv
<1> QED
  BY <1>2, <1>3, <1>4, TablesMove

(* A question is asked, answered or given up. *)
LEMMA UpdatePreserves ==
  ASSUME PgInv, NEW s \in Session, NEW q, NEW t, StoreSetPending(s, q, t), StoreNext,
         UNCHANGED <<seq, txn>>
  PROVE  PgInv'
<1>1. DOMAIN row' = DOMAIN row
  BY DEF StoreSetPending
<1> QED
  BY <1>1, RowStepPreserves DEF StoreSetPending

(* The DELETE of the purge takes no session that somebody appends to. *)
LEMMA PurgePreserves ==
  ASSUME PgInv, NEW c \in Client, NEW gone \in SUBSET Session, PgPurge(c, gone)
  PROVE  StoreNext /\ PgInv'
<1>1. StorePurge(gone) /\ UNCHANGED <<seq, txn>> /\ \A s \in gone : KeyShareHolders(s) = {}
  BY DEF PgPurge
<1>2. StoreNext
  BY <1>1 DEF StoreNext
<1>3. /\ DOMAIN row' = DOMAIN row \ gone
      /\ messages' = {m \in messages : m.session \notin gone}
      /\ digest' = [s \in Session |-> IF s \in gone THEN <<>> ELSE digest[s]]
      /\ evicted' = [s \in Session |-> IF s \in gone THEN {} ELSE evicted[s]]
  BY <1>1 DEF StorePurge
<1>4. \A s \in Session : Transcript(s)' \subseteq Transcript(s)
  BY <1>3 DEF Transcript, MessagesOf
<1>5. \A s \in Session \ gone : MessagesOf(s)' = MessagesOf(s) /\ digest'[s] = digest[s]
  BY <1>3 DEF MessagesOf
<1>6. ASSUME NEW d \in Client, txn'[d] # NoTxn
      PROVE  /\ txn[d].msg.session \in DOMAIN row'
             /\ \A n \in Transcript(txn[d].msg.session)' : n.id # txn[d].msg.id
             /\ MessagesOf(txn[d].msg.session)' = MessagesOf(txn[d].msg.session)
             /\ digest'[txn[d].msg.session] = digest[txn[d].msg.session]
  <2>1. PICK u : u = txn[d] /\ u = txn'[d]
    BY <1>1
  <2>2. u # NoTxn /\ InOrder(u)
    BY <1>6, <2>1 DEF PgInv
  <2>3. u.msg.session \in Session /\ u.msg.session \in DOMAIN row
    BY <2>2 DEF InOrder, Message
  <2>4. u.msg.session \notin gone
    <3>1. d \in KeyShareHolders(u.msg.session)
      BY <2>1, <2>2, IdleIsNoTxn DEF KeyShareHolders, On, Active
    <3> QED
      BY <1>1, <3>1
  <2>5. \A n \in Transcript(u.msg.session)' : n.id # u.msg.id
    BY <1>4, <2>2, <2>3 DEF InOrder
  <2>6. /\ u.msg.session \in DOMAIN row' /\ MessagesOf(u.msg.session)' = MessagesOf(u.msg.session)
        /\ digest'[u.msg.session] = digest[u.msg.session]
    BY <1>3, <1>5, <2>3, <2>4
  <2> QED
    BY <2>1, <2>5, <2>6
<1>7. txn' = [d \in Client |-> txn'[d]] /\ digest' = [s \in Session |-> digest'[s]]
  BY <1>1, <1>3 DEF PgInv
<1>8. \A s \in Session : \A n \in Transcript(s)' : n.id <= seq
  BY <1>4 DEF PgInv
<1>9. seq' = seq /\ \A d \in Client : txn'[d] = txn[d]
  BY <1>1
<1> QED
  BY <1>2, <1>6, <1>7, <1>8, <1>9, TablesMove

(* Empty tables and no transactions. *)
LEMMA PgInitially == PgInit => PgInv
<1> SUFFICES ASSUME PgInit PROVE PgInv
  OBVIOUS
<1>1. StoreInv
  BY StoreInitInv DEF PgInit
<1>2. \A s \in Session : Transcript(s) = {}
  BY DEF PgInit, StoreInit, Transcript, MessagesOf
<1>3. \A c \in Client : txn[c] = NoTxn
  BY DEF PgInit
<1>4. \A c, d \in Client : InOrder(txn[c]) /\ Apart(txn[c], txn[d])
  BY <1>3 DEF InOrder, Apart
<1>5. digest = [s \in Session |-> digest[s]] /\ txn = [c \in Client |-> txn[c]] /\ seq \in Nat
  BY DEF PgInit, StoreInit
<1> QED
  BY <1>1, <1>2, <1>4, <1>5 DEF PgInv

(* Every step of the backend is an operation of the store or shows nothing. *)
LEMMA PgStep ==
  ASSUME PgInv, [PgNext]_pgVars
  PROVE  [StoreNext]_storeVars /\ PgInv'
<1>1. ASSUME NEW c \in Client, NEW s \in Session, NEW role \in Role, NEW t \in Content,
             AppendInsert(c, s, role, t)
      PROVE  [StoreNext]_storeVars /\ PgInv'
  BY <1>1, InsertPreserves DEF AppendInsert
<1>2. ASSUME NEW c \in Client, NEW s \in Session, AppendNoSession(c, s)
      PROVE  [StoreNext]_storeVars /\ PgInv'
  BY <1>2, NoSessionPreserves DEF AppendNoSession
<1>3. ASSUME NEW c \in Client, AppendLockRow(c) PROVE [StoreNext]_storeVars /\ PgInv'
  BY <1>3, LockPreserves DEF AppendLockRow
<1>4. ASSUME NEW c \in Client, AppendReadOutside(c) PROVE [StoreNext]_storeVars /\ PgInv'
  BY <1>4, ReadPreserves DEF AppendReadOutside
<1>5. ASSUME NEW c \in Client, AppendCommit(c) PROVE [StoreNext]_storeVars /\ PgInv'
  BY <1>5, CommitPreserves
<1>6. ASSUME NEW c \in Client, AppendRollback(c) PROVE [StoreNext]_storeVars /\ PgInv'
  BY <1>6, RollbackPreserves DEF AppendRollback
<1>7. ASSUME NEW c \in Client, NEW s \in Session, NEW u \in User \cup {Null}, PgGet(c, s, u)
      PROVE  [StoreNext]_storeVars /\ PgInv'
  <2>1. StoreGet(s, u) /\ StoreNext /\ UNCHANGED <<seq, txn>>
    BY <1>7 DEF PgGet, StoreNext
  <2>2. DOMAIN row \subseteq DOMAIN row'
    BY <2>1 DEF StoreGet
  <2> QED
    BY <2>1, <2>2, RowStepPreserves DEF StoreGet
<1>8. ASSUME NEW c \in Client, NEW s \in Session, NEW q \in Question, NEW t \in Content,
             PgSetPending(c, s, q, t)
      PROVE  [StoreNext]_storeVars /\ PgInv'
  BY <1>8, UpdatePreserves DEF PgSetPending, StoreNext
<1>9. ASSUME NEW c \in Client, NEW s \in Session, PgClearPending(c, s)
      PROVE  [StoreNext]_storeVars /\ PgInv'
  <2>1. StoreClearPending(s) /\ StoreNext /\ UNCHANGED <<seq, txn>>
    BY <1>9 DEF PgClearPending, StoreNext
  <2> QED
    BY <2>1, UpdatePreserves DEF StoreClearPending
<1>10. ASSUME NEW c \in Client, NEW gone \in SUBSET Session, PgPurge(c, gone)
       PROVE  [StoreNext]_storeVars /\ PgInv'
  BY <1>10, PurgePreserves
<1>11. CASE UNCHANGED pgVars
  <2>1. UNCHANGED <<storeVars, seq, txn>>
    BY <1>11 DEF pgVars, storeVars
  <2>2. UNCHANGED <<row, digest, messages, evicted, topics>>
    BY <2>1 DEF storeVars
  <2>3. StoreInv'
    BY <2>1, StoreNextInv DEF PgInv
  <2>4. PgInv'
    BY <2>1, <2>2, <2>3 DEF PgInv, InOrder, Apart, Overflow, DigestAfter, Transcript, MessagesOf
  <2> QED
    BY <2>1, <2>4
<1> QED
  BY <1>1, <1>2, <1>3, <1>4, <1>5, <1>6, <1>7, <1>8, <1>9, <1>10, <1>11 DEF PgNext

(* So the backend is an atomic store between any two statements. *)
LEMMA PgInvariant == PgSpec => []PgInv
BY PgInitially, PgStep, PTL DEF PgSpec
-----------------------------------------------------------------------------
(* ImplementsStore: however many connections append, roll back, purge and  *)
(* wait for each other's locks, what the tables show is the atomic store:  *)
(* each commit is one append, and what it deletes is what the digest took. *)
THEOREM PgImplementsStore == PgSpec => ImplementsStore
<1>1. PgInit => StoreInit
  BY DEF PgInit
<1>2. PgInv /\ [PgNext]_pgVars => [StoreNext]_storeVars
  BY PgStep
<1> QED
  BY <1>1, <1>2, PgInvariant, PTL DEF PgSpec, StoreSpec, ImplementsStore

(* The history that the Postgres backend returns is the newest Window      *)
(* messages, in whatever order the ids that its sequence has drawn come to *)
(* be committed.                                                           *)
THEOREM PgWindowIsNewest == PgSpec => []WindowIsNewest
<1>1. PgInv => WindowIsNewest
  BY DEF PgInv, StoreInv
<1> QED
  BY <1>1, PgInvariant, PTL

(* Every user message that was committed has been counted, once. *)
THEOREM PgTurnsCounted == PgSpec => []TurnsCounted
<1>1. PgInv => TurnsCounted
  BY DEF PgInv, StoreInv
<1> QED
  BY <1>1, PgInvariant, PTL

(* Past the UPDATE of its row a session has one transaction at a time: the *)
(* read of what falls outside the window and its deletion are not torn.    *)
THEOREM PgOnePastTheLock ==
    PgSpec => [](\A s \in Session : \A c, d \in RowLockHolders(s) : c = d)
<1>1. PgInv => \A s \in Session : \A c, d \in RowLockHolders(s) : c = d
  <2> SUFFICES ASSUME PgInv, NEW s \in Session, NEW c \in RowLockHolders(s),
                      NEW d \in RowLockHolders(s), c # d
               PROVE  FALSE
    OBVIOUS
  <2>1. /\ c \in Client /\ On(c, s) /\ txn[c].pc # "inserted"
        /\ d \in Client /\ On(d, s) /\ txn[d].pc # "inserted"
    BY DEF RowLockHolders
  <2>2. Apart(txn[c], txn[d]) /\ txn[c] # NoTxn /\ txn[d] # NoTxn
    BY <2>1, IdleIsNoTxn DEF PgInv, On, Active
  <2> QED
    BY <2>1, <2>2 DEF Apart, On
<1> QED
  BY <1>1, PgInvariant, PTL

(* Tables, sequence and transactions hold what they are declared to: a     *)
(* transaction that has read holds the messages and the topics it read.    *)
THEOREM PgIsTyped == PgSpec => []PgTypeOK
<1>1. ASSUME PgInv, NEW c \in Client PROVE txn[c] \in {NoTxn} \cup Txn
  <2>1. PICK t : t = txn[c]
    OBVIOUS
  <2>2. t # NoTxn => t \in Unfinished \/ t \in HasRead
    BY <1>1, <2>1 DEF PgInv, InOrder
  <2> QED
    BY <2>1, <2>2 DEF Txn, Unfinished, HasRead
<1>2. PgInv => PgTypeOK
  BY <1>1 DEF PgInv, PgTypeOK, StoreTypeOK, StoreInv, DigestFolds
<1> QED
  BY <1>2, PgInvariant, PTL

(* Concurrent appends, each reading the digest under the row lock, lose no *)
(* topic: every committed digest is one truncation of all that its session *)
(* has rolled out.                                                         *)
THEOREM PgDigestComplete == PgSpec => []DigestComplete
BY PgImplementsStore, StoreDigestComplete, PTL DEF ImplementsStore
=============================================================================
