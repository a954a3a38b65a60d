----------------------------- MODULE TopicDigest -----------------------------
(***************************************************************************)
(* build_topic_digest (app/session/base.py): the non-LLM summary that      *)
(* messages leaving the rolling history window are folded into.            *)
(*                                                                         *)
(* The digest is text: topics joined by "; ".  Here it is the sequence of  *)
(* those topics.  TopicsOf maps a message text to the topics it            *)
(* contributes: none when only question marks and blanks are left of it,   *)
(* one for an ordinary question, several when the text itself contains     *)
(* "; ", because the code splits the joined text again when it truncates.  *)
(***************************************************************************)
EXTENDS Integers, Sequences, FiniteSets, FiniteSetsExt, SequencesExt

CONSTANTS
    Content,        \* message texts
    Topic,          \* topics as they stand between two separators
    TopicsOf,       \* [Content -> Seq(Topic)]
    TopicLength,    \* [Topic -> Nat], characters of a topic
    DigestLimit     \* the `limit` argument, 240 characters in the code

ASSUME TopicAssumption ==
    /\ TopicsOf \in [Content -> Seq(Topic)]
    /\ TopicLength \in [Topic -> Nat]
    /\ DigestLimit \in Nat

SeparatorLength == 2    \* len("; ")

(* The characters of the topics, each with a separator after it. *)
Characters(topics) ==
    FoldLeft(LAMBDA n, t : n + TopicLength[t] + SeparatorLength, 0, topics)

JoinedLength(topics) ==
    IF topics = <<>> THEN 0 ELSE Characters(topics) - SeparatorLength

(* Drop topics from the front until the rest fits the limit. *)
KeepRecent(topics) ==
    LET rest(k) == SubSeq(topics, k + 1, Len(topics))
        fitting == {k \in 0 .. Len(topics) : JoinedLength(rest(k)) <= DigestLimit}
    IN  rest(CHOOSE k \in fitting : \A j \in fitting : k <= j)

(* The topics of the user's messages among those evicted, oldest first. *)
TopicsIn(evicted) ==
    FlattenSeq([i \in DOMAIN evicted |->
                  IF evicted[i].role = "user" THEN TopicsOf[evicted[i].content] ELSE <<>>])

(* Mutant: only the topics of this eviction, those before them forgotten. *)
BuildTopicDigestAnew(existing, evicted) == KeepRecent(TopicsIn(evicted))

BuildTopicDigest(existing, evicted) == KeepRecent(existing \o TopicsIn(evicted))
==============================================================================
