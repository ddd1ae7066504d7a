------------------------------- MODULE Topic -------------------------------
(***************************************************************************)
(* Topic patterns. A routing key, and a pattern, is the sequence of the    *)
(* words between its dots; the empty string is one empty word.             *)
(***************************************************************************)
EXTENDS Naturals, Sequences

Hash == "#"
Star == "*"

Mutant_match_topic_noStar(pattern, topic) ==
    \/ pattern = <<Hash>>
    \/ pattern = topic

\* match_topic of broker.c: the two wildcards count only when they are the
\* whole pattern; "*" wants a topic without a dot.
match_topic(pattern, topic) ==
    \/ pattern = <<Hash>>
    \/ pattern = <<Star>> /\ Len(topic) = 1
    \/ pattern = topic

-----------------------------------------------------------------------------
(***************************************************************************)
(* The rule that the comment in match_topic gives: "'*' matches exactly    *)
(* one word", "'#' matches zero or more words".                            *)
(***************************************************************************)
\* A way to share the words of the topic out among those of the pattern: the
\* i-th word of the pattern stands for the words after the first cut[i - 1] of
\* the topic, up to the first cut[i].
Cuts(pattern, topic) ==
    {cut \in [0 .. Len(pattern) -> 0 .. Len(topic)] :
        /\ cut[0] = 0 /\ cut[Len(pattern)] = Len(topic)
        /\ \A i \in 1 .. Len(pattern) : cut[i - 1] <= cut[i]}

TopicRule(pattern, topic) ==
    \E cut \in Cuts(pattern, topic) :
        \A i \in 1 .. Len(pattern) :
            \/ pattern[i] = Hash
            \/ cut[i] = cut[i - 1] + 1 /\ pattern[i] \in {Star, topic[cut[i]]}

\* A pattern that is one word, or has no wildcard.
Supported(p) == Len(p) = 1 \/ \A i \in DOMAIN p : p[i] \notin {Hash, Star}

=============================================================================
