---------------------------- MODULE TopicProofs ----------------------------
(***************************************************************************)
(* What match_topic decides, for keys and patterns of any length: never    *)
(* more than the rule in its comment, and exactly that rule for a pattern  *)
(* that is one word or has no wildcard.                                    *)
(***************************************************************************)
EXTENDS Topic, WellFoundedInduction, TLAPS

\* Every set of naturals that is not empty has a least element.
LEMMA LeastNatural ==
  ASSUME NEW T \in SUBSET Nat, T # {}
  PROVE  \E n \in T : \A k \in T : n <= k
<1> DEFINE R == OpToRel(<, Nat)
<1>1. \E x \in T : \A y \in T : ~(<<y, x>> \in R)
  BY NatLessThanWellFounded, WFMin, Zenon
<1>2. \A x, y \in Nat : x < y => <<x, y>> \in R
  BY DEF OpToRel
<1>3. \A x, y \in Nat : ~(x < y) => y <= x
  OBVIOUS
<1> HIDE DEF R
<1>4. \A x, y \in T : x \in Nat /\ y \in Nat
  OBVIOUS
<1> QED  BY <1>1, <1>2, <1>3, <1>4, Zenon

\* A function that starts at 0 and grows by 1 with each step, up to n, is the
\* identity there: the least argument where it differs would come right after one
\* where it does not.
LEMMA CountsUp ==
  ASSUME NEW n \in Nat, NEW cut \in [0 .. n -> Nat], cut[0] = 0,
         \A i \in 1 .. n : cut[i] = cut[i - 1] + 1
  PROVE  \A i \in 0 .. n : cut[i] = i
<1> DEFINE T == {i \in 0 .. n : cut[i] # i}
<1>1. SUFFICES ASSUME T # {} PROVE FALSE
  OBVIOUS
<1>2. T \in SUBSET Nat
  OBVIOUS
<1>3. PICK i \in T : \A k \in T : i <= k
  BY <1>1, <1>2, LeastNatural
<1>4. i # 0 /\ i \in 1 .. n /\ i - 1 \in 0 .. n
  BY <1>3
<1>5. i - 1 \notin T
  BY <1>3, <1>4
<1> QED  BY <1>3, <1>4, <1>5

\* The rule, for a pattern without wildcards: the topic has the same words.
LEMMA PlainRule ==
  ASSUME NEW pattern \in Seq(STRING), NEW topic \in Seq(STRING),
         \A i \in DOMAIN pattern : pattern[i] \notin {Hash, Star},
         TopicRule(pattern, topic)
  PROVE  pattern = topic
<1>1. PICK cut \in Cuts(pattern, topic) :
        \A i \in 1 .. Len(pattern) :
            \/ pattern[i] = Hash
            \/ cut[i] = cut[i - 1] + 1 /\ pattern[i] \in {Star, topic[cut[i]]}
  BY DEF TopicRule
<1>2. /\ cut \in [0 .. Len(pattern) -> 0 .. Len(topic)]
      /\ cut[0] = 0 /\ cut[Len(pattern)] = Len(topic)
  BY DEF Cuts
<1>3. \A i \in 1 .. Len(pattern) : cut[i] = cut[i - 1] + 1 /\ pattern[i] = topic[cut[i]]
  BY <1>1
<1>4. \A i \in 0 .. Len(pattern) : cut[i] = i
  <2>1. cut \in [0 .. Len(pattern) -> Nat] /\ Len(pattern) \in Nat
    BY <1>2
  <2> QED  BY <1>2, <1>3, <2>1, CountsUp
<1>5. Len(pattern) = Len(topic)
  BY <1>2, <1>4
<1>6. \A i \in 1 .. Len(pattern) : pattern[i] = topic[i]
  BY <1>3, <1>4
<1> QED  BY <1>5, <1>6

\* Every topic that match_topic lets through is one that the rule in its comment
\* lets through, whatever the pattern.
THEOREM MatchesFollowTheRule ==
  ASSUME NEW pattern \in Seq(STRING), NEW topic \in Seq(STRING),
         match_topic(pattern, topic)
  PROVE  TopicRule(pattern, topic)
<1>1. CASE pattern = <<Hash>>
  <2> DEFINE cut == [i \in 0 .. 1 |-> IF i = 0 THEN 0 ELSE Len(topic)]
  <2>1. Len(pattern) = 1 /\ pattern[1] = Hash
    BY <1>1
  <2>2. cut \in Cuts(pattern, topic)
    BY <2>1 DEF Cuts
  <2> HIDE DEF cut
  <2> QED  BY <2>1, <2>2 DEF TopicRule
<1>2. CASE pattern = <<Star>> /\ Len(topic) = 1
  <2> DEFINE cut == [i \in 0 .. 1 |-> i]
  <2>1. Len(pattern) = 1 /\ pattern[1] = Star
    BY <1>2
  <2>2. cut \in Cuts(pattern, topic)
    BY <1>2, <2>1 DEF Cuts
  <2>3. cut[1] = cut[1 - 1] + 1
    OBVIOUS
  <2> HIDE DEF cut
  <2> QED  BY <2>1, <2>2, <2>3 DEF TopicRule
<1>3. CASE pattern = topic
  <2> DEFINE cut == [i \in 0 .. Len(pattern) |-> i]
  <2>1. cut \in Cuts(pattern, topic)
    BY <1>3 DEF Cuts
  <2>2. \A i \in 1 .. Len(pattern) : cut[i] = cut[i - 1] + 1 /\ pattern[i] = topic[cut[i]]
    BY <1>3
  <2> HIDE DEF cut
  <2> QED  BY <2>1, <2>2 DEF TopicRule
<1> QED  BY <1>1, <1>2, <1>3 DEF match_topic

\* For a pattern that is one word, or has no wildcard, match_topic decides as the
\* rule in its comment does.
THEOREM SupportedMatchesAreExact ==
  ASSUME NEW pattern \in Seq(STRING), NEW topic \in Seq(STRING), Supported(pattern)
  PROVE  match_topic(pattern, topic) <=> TopicRule(pattern, topic)
<1> SUFFICES ASSUME TopicRule(pattern, topic)
             PROVE  match_topic(pattern, topic)
  BY MatchesFollowTheRule
<1>1. CASE Len(pattern) = 1
  <2>1. PICK cut \in Cuts(pattern, topic) :
          \A i \in 1 .. Len(pattern) :
              \/ pattern[i] = Hash
              \/ cut[i] = cut[i - 1] + 1 /\ pattern[i] \in {Star, topic[cut[i]]}
    BY DEF TopicRule
  <2>2. cut[0] = 0 /\ cut[1] = Len(topic)
    BY <1>1 DEF Cuts
  <2>3. \/ pattern[1] = Hash
        \/ Len(topic) = 1 /\ pattern[1] \in {Star, topic[1]}
    BY <1>1, <2>1, <2>2
  <2>4. pattern = <<pattern[1]>> /\ (Len(topic) = 1 => topic = <<topic[1]>>)
    BY <1>1
  <2> QED  BY <2>3, <2>4 DEF match_topic
<1>2. CASE \A i \in DOMAIN pattern : pattern[i] \notin {Hash, Star}
  BY <1>2, PlainRule DEF match_topic
<1> QED  BY <1>1, <1>2 DEF Supported
=============================================================================
