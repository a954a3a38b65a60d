------------------------- MODULE MCRedisSessionStore -------------------------
(* Distinct texts with a topic each, so that a lost topic shows. *)
EXTENDS RedisSessionStore

CONSTANTS t1, t2, t3, topic1, topic2, topic3

MCTopicsOf == [c \in Content |-> CASE c = t1 -> <<topic1>>
                                   [] c = t2 -> <<topic2>>
                                   [] c = t3 -> <<topic3>>]
MCTopicLength == [t \in Topic |-> 3]
==============================================================================
