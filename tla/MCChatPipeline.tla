--------------------------- MODULE MCChatPipeline ---------------------------
(* Topics play no part here: no message contributes one to the digest. *)
EXTENDS ChatPipeline

CONSTANTS r1, r2, r3, acme, globex, u1

MCTopicsOf == [c \in Content |-> <<>>]
MCTopicLength == [t \in Topic |-> 0]
MCCompanyOf == [r \in Request |->
    CASE r = r1 -> acme [] r = r2 -> globex [] OTHER -> Null]
MCUserOf == [r \in Request |-> IF r = r2 THEN u1 ELSE Null]
=============================================================================
