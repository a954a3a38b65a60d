------------------------ MODULE PostgresSessionStore ------------------------
(***************************************************************************)
(* PostgresSessionStore (app/session/postgres_store.py) under concurrent   *)
(* service instances, at READ COMMITTED.                                   *)
(*                                                                         *)
(* append_message is a transaction of several statements.  Its INSERT      *)
(* draws the message id and share-locks the parent row (foreign key); its  *)
(* UPDATE of chat_sessions takes the row lock and waits for whoever holds  *)
(* it; then it reads what falls outside the window, rewrites the digest,   *)
(* deletes and commits.  Its writes are visible to others only at commit.  *)
(* The other operations start with the statement that takes the row lock,  *)
(* so each is one step, enabled while nobody else holds it.                *)
(*                                                                         *)
(* The variables of SessionStore are the committed tables.                 *)
(***************************************************************************)
EXTENDS SessionStore

CONSTANT Client      \* connections: service instances and scripts

VARIABLES
    seq,             \* the chat_messages id sequence; never rolled back
    txn              \* the append_message transaction of each client

pgVars == <<row, digest, messages, evicted, topics, seq, txn>>

NoTxn == [pc |-> "idle"]
Txn == [pc : {"inserted", "locked"}, msg : Message]
       \cup [pc : {"read"}, msg : Message, out : SUBSET Message, digest : Seq(Topic)]

Active(c) == txn[c].pc # "idle"
On(c, s) == Active(c) /\ txn[c].msg.session = s

(* Who has share-locked the row of s through the foreign key, and who has  *)
(* updated it.  A share lock stops a DELETE of the row, not an UPDATE.     *)
KeyShareHolders(s) == {c \in Client : On(c, s)}
RowLockHolders(s) == {c \in Client : On(c, s) /\ txn[c].pc # "inserted"}

PgInit == StoreInit /\ seq = 0 /\ txn = [c \in Client |-> NoTxn]

(* INSERT INTO chat_messages *)
AppendInsert(c, s, role, content) ==
    /\ ~Active(c)
    /\ s \in DOMAIN row
    /\ seq + 1 \in MessageId
    /\ seq' = seq + 1
    /\ txn' = [txn EXCEPT ![c] = [pc |-> "inserted",
                 msg |-> [session |-> s, id |-> seq + 1, role |-> role, content |-> content]]]
    /\ UNCHANGED storeVars

(* The INSERT on a session that is gone violates the foreign key; the id    *)
(* it drew is lost.                                                         *)
AppendNoSession(c, s) ==
    /\ ~Active(c)
    /\ s \notin DOMAIN row
    /\ seq + 1 \in MessageId
    /\ seq' = seq + 1
    /\ UNCHANGED <<storeVars, txn>>

(* Mutants: an update that waits for nobody, and one that, as if the row     *)
(* were locked FOR UPDATE, waits for all who have inserted too.             *)
AppendNeverWaits(c) ==
    /\ txn[c].pc = "inserted"
    /\ txn' = [txn EXCEPT ![c].pc = "locked"]
    /\ UNCHANGED <<storeVars, seq>>

AppendWaitsForReaders(c) ==
    /\ txn[c].pc = "inserted"
    /\ KeyShareHolders(txn[c].msg.session) = {c}
    /\ txn' = [txn EXCEPT ![c].pc = "locked"]
    /\ UNCHANGED <<storeVars, seq>>

(* UPDATE chat_sessions: waits for the row lock. *)
AppendLockRow(c) ==
    /\ txn[c].pc = "inserted"
    /\ RowLockHolders(txn[c].msg.session) = {}
    /\ txn' = [txn EXCEPT ![c].pc = "locked"]
    /\ UNCHANGED <<storeVars, seq>>

(* SELECT what is outside the window, its own insert included, and, when   *)
(* something is, SELECT the digest and extend it.                          *)
AppendReadOutside(c) ==
    LET s   == txn[c].msg.session
        out == OutsideWindow(MessagesOf(s) \cup {txn[c].msg})
    IN  /\ txn[c].pc = "locked"
        /\ txn' = [txn EXCEPT ![c] =
              [pc |-> "read", msg |-> txn[c].msg, out |-> out,
               digest |-> IF out = {} THEN digest[s]
                          ELSE BuildTopicDigest(digest[s], InIdOrder(out))]]
        /\ UNCHANGED <<storeVars, seq>>

(* UPDATE the digest, DELETE (its subquery evaluated again), COMMIT. *)
AppendCommit(c) ==
    LET m       == txn[c].msg
        s       == m.session
        visible == MessagesOf(s) \cup {m}
        deleted == IF txn[c].out = {} THEN {} ELSE OutsideWindow(visible)
    IN  /\ txn[c].pc = "read"
        /\ messages' = (messages \cup {m}) \ deleted
        /\ row' = IF m.role = "user" THEN [row EXCEPT ![s].turns = @ + 1] ELSE row
        /\ digest' = [digest EXCEPT ![s] = txn[c].digest]
        /\ evicted' = [evicted EXCEPT ![s] = @ \cup deleted]
        /\ topics' = [topics EXCEPT ![s] = @ \o TopicsIn(InIdOrder(deleted))]
        /\ txn' = [txn EXCEPT ![c] = NoTxn]
        /\ UNCHANGED seq

(* An error, a lost connection or a crash of the instance. *)
AppendRollback(c) ==
    /\ Active(c)
    /\ txn' = [txn EXCEPT ![c] = NoTxn]
    /\ UNCHANGED <<storeVars, seq>>

PgGet(c, s, u) ==
    /\ ~Active(c) /\ RowLockHolders(s) = {}
    /\ StoreGet(s, u)
    /\ UNCHANGED <<seq, txn>>

PgSetPending(c, s, question, intent) ==
    /\ ~Active(c) /\ RowLockHolders(s) = {}
    /\ StoreSetPending(s, question, intent)
    /\ UNCHANGED <<seq, txn>>

PgClearPending(c, s) ==
    /\ ~Active(c) /\ RowLockHolders(s) = {}
    /\ StoreClearPending(s)
    /\ UNCHANGED <<seq, txn>>

(* Mutant: without the foreign key the DELETE does not wait. *)
PgPurgeAnyway(c, gone) ==
    /\ ~Active(c)
    /\ StorePurge(gone)
    /\ UNCHANGED <<seq, txn>>

(* DELETE waits for every lock on the rows it takes. *)
PgPurge(c, gone) ==
    /\ ~Active(c) /\ \A s \in gone : KeyShareHolders(s) = {}
    /\ StorePurge(gone)
    /\ UNCHANGED <<seq, txn>>

AppendStep(c) == AppendReadOutside(c) \/ AppendCommit(c)

PgNext ==
    \E c \in Client :
        \/ \E s \in Session, role \in Role, t \in Content : AppendInsert(c, s, role, t)
        \/ \E s \in Session : AppendNoSession(c, s)
        \/ AppendLockRow(c)
        \/ AppendReadOutside(c)
        \/ AppendCommit(c)
        \/ AppendRollback(c)
        \/ \E s \in Session, u \in User \cup {Null} : PgGet(c, s, u)
        \/ \E s \in Session, q \in Question, t \in Content : PgSetPending(c, s, q, t)
        \/ \E s \in Session : PgClearPending(c, s)
        \/ \E gone \in SUBSET Session : PgPurge(c, gone)

PgSpec == PgInit /\ [][PgNext]_pgVars

(* A statement that can run is run, and the queue for a row lock is first  *)
(* in, first out.                                                          *)
PgFairness == \A c \in Client : WF_pgVars(AppendStep(c)) /\ SF_pgVars(AppendLockRow(c))

PgFairSpec == PgSpec /\ PgFairness
-----------------------------------------------------------------------------
PgTypeOK ==
    /\ StoreTypeOK
    /\ seq \in Nat
    /\ txn \in [Client -> {NoTxn} \cup Txn]

(* The interleaved transactions implement the atomic operations of         *)
(* SessionStore: every commit is one StoreAppend, and no step in between   *)
(* shows.  In particular the messages deleted are the ones the digest took *)
(* in, although the DELETE evaluates its subquery afresh.                  *)
ImplementsStore == StoreSpec

(* Every append_message ends: no two appenders wait for each other, even   *)
(* when both share-lock the session before either updates it.              *)
TransactionsEnd == \A c \in Client : Active(c) ~> ~Active(c)
=============================================================================
