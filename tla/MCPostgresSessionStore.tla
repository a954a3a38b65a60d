----------------------- MODULE MCPostgresSessionStore -----------------------
(* Two connections on one session with a window of one message, so that    *)
(* the third append already rolls a second message out, and out of order   *)
(* too.  Two short topics fit the digest, a third does not, and one topic  *)
(* is longer than the whole digest.                                        *)
EXTENDS PostgresSessionStore

CONSTANTS c1, c2, double, huge, ta, tb, tc, tx

MCTopicsOf == [c \in Content |->
    IF c = double THEN <<tb, tc>>       \* "...; ..." in one message
                  ELSE <<tx>>]          \* longer than the digest
MCTopicLength == [t \in Topic |-> IF t = tx THEN 9 ELSE IF t = tc THEN 2 ELSE 3]
=============================================================================
