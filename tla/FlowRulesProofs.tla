-------------------------- MODULE FlowRulesProofs --------------------------
(***************************************************************************)
(* The signature search reports, for any signatures and any payload, what  *)
(* is in the payload and nothing else; and the counters and windows of     *)
(* layer 1 are what recounting a flow's packets gives, and its verdicts    *)
(* what the code's comparisons give on those numbers, for any flows,       *)
(* packets, clock and thresholds.                                          *)
(***************************************************************************)
EXTENDS FlowRules, SequenceTheorems, NumberLemmas

-----------------------------------------------------------------------------
(*                     Texts and the texts they end with                   *)

Letter == STRING
Text   == Seq(Letter)

EndsWith(a, b) == /\ Len(b) <= Len(a)
                  /\ \A i \in 1 .. Len(b) : b[i] = a[Len(a) - Len(b) + i]

LEMMA TextLen ==
  ASSUME NEW a \in Text
  PROVE  /\ Len(a) \in Nat /\ DOMAIN a = 1 .. Len(a)
         /\ (a = << >> <=> Len(a) = 0)
         /\ \A i \in 1 .. Len(a) : a[i] \in Letter
BY DEF Text

LEMMA TextsEqual ==
  ASSUME NEW a \in Text, NEW b \in Text, Len(a) = Len(b), \A i \in 1 .. Len(a) : a[i] = b[i]
  PROVE  a = b
BY SeqEqual DEF Text

LEMMA EndsWithItself == ASSUME NEW a \in Text PROVE EndsWith(a, a) /\ EndsWith(a, << >>)
BY TextLen, EmptySeq DEF EndsWith

LEMMA EndsTransitive ==
  ASSUME NEW a \in Text, NEW b \in Text, NEW c \in Text, EndsWith(a, b), EndsWith(b, c)
  PROVE  EndsWith(a, c)
<1>1. Len(a) \in Nat /\ Len(b) \in Nat /\ Len(c) \in Nat BY TextLen
<1>2. Len(c) <= Len(a) BY <1>1 DEF EndsWith
<1>3. ASSUME NEW i \in 1 .. Len(c) PROVE c[i] = a[Len(a) - Len(c) + i]
  <2>1. c[i] = b[Len(b) - Len(c) + i] BY DEF EndsWith
  <2>2. Len(b) - Len(c) + i \in 1 .. Len(b) BY <1>1 DEF EndsWith
  <2>3. b[Len(b) - Len(c) + i] = a[Len(a) - Len(b) + (Len(b) - Len(c) + i)] BY <2>2 DEF EndsWith
  <2>4. Len(a) - Len(b) + (Len(b) - Len(c) + i) = Len(a) - Len(c) + i BY <1>1
  <2> QED BY <2>1, <2>3, <2>4
<1> QED BY <1>2, <1>3 DEF EndsWith

(* Of two ends of a text, the longer ends with the shorter.                *)
LEMMA EndsNested ==
  ASSUME NEW a \in Text, NEW b \in Text, NEW c \in Text,
         EndsWith(a, b), EndsWith(a, c), Len(c) <= Len(b)
  PROVE  EndsWith(b, c)
<1>1. Len(a) \in Nat /\ Len(b) \in Nat /\ Len(c) \in Nat BY TextLen
<1>2. ASSUME NEW i \in 1 .. Len(c) PROVE c[i] = b[Len(b) - Len(c) + i]
  <2>1. c[i] = a[Len(a) - Len(c) + i] BY DEF EndsWith
  <2>2. Len(b) - Len(c) + i \in 1 .. Len(b) BY <1>1
  <2>3. b[Len(b) - Len(c) + i] = a[Len(a) - Len(b) + (Len(b) - Len(c) + i)] BY <2>2 DEF EndsWith
  <2>4. Len(a) - Len(b) + (Len(b) - Len(c) + i) = Len(a) - Len(c) + i BY <1>1
  <2> QED BY <2>1, <2>3, <2>4
<1> QED BY <1>2 DEF EndsWith

LEMMA EndsOfOneLength ==
  ASSUME NEW a \in Text, NEW b \in Text, NEW c \in Text,
         EndsWith(a, b), EndsWith(a, c), Len(b) = Len(c)
  PROVE  b = c
<1>1. \A i \in 1 .. Len(b) : b[i] = c[i] BY DEF EndsWith
<1> QED BY <1>1, TextsEqual

LEMMA Appended ==
  ASSUME NEW a \in Text, NEW c \in Letter
  PROVE  /\ Append(a, c) \in Text /\ Len(Append(a, c)) = Len(a) + 1
         /\ Append(a, c)[Len(a) + 1] = c
         /\ \A i \in 1 .. Len(a) : Append(a, c)[i] = a[i]
BY AppendProperties DEF Text

LEMMA EndsOfAppended ==
  ASSUME NEW a \in Text, NEW b \in Text, NEW c \in Letter
  PROVE  EndsWith(Append(a, c), Append(b, c)) <=> EndsWith(a, b)
<1> DEFINE ac == Append(a, c)
           bc == Append(b, c)
<1>1. Len(a) \in Nat /\ Len(b) \in Nat BY TextLen
<1>2. /\ Len(ac) = Len(a) + 1 /\ ac[Len(a) + 1] = c
      /\ \A i \in 1 .. Len(a) : ac[i] = a[i] BY Appended
<1>3. /\ Len(bc) = Len(b) + 1 /\ bc[Len(b) + 1] = c
      /\ \A i \in 1 .. Len(b) : bc[i] = b[i] BY Appended
<1> HIDE DEF ac, bc
<1>4. ASSUME EndsWith(ac, bc) PROVE EndsWith(a, b)
  <2>1. Len(b) <= Len(a) BY <1>1, <1>2, <1>3, <1>4 DEF EndsWith
  <2>2. ASSUME NEW i \in 1 .. Len(b) PROVE b[i] = a[Len(a) - Len(b) + i]
    <3>1. i \in 1 .. Len(bc) /\ Len(ac) - Len(bc) + i = Len(a) - Len(b) + i BY <1>1, <1>2, <1>3
    <3>2. bc[i] = ac[Len(a) - Len(b) + i] BY <1>4, <3>1 DEF EndsWith
    <3>3. Len(a) - Len(b) + i \in 1 .. Len(a) BY <1>1, <2>1
    <3> QED BY <1>2, <1>3, <3>2, <3>3
  <2> QED BY <2>1, <2>2 DEF EndsWith
<1>5. ASSUME EndsWith(a, b) PROVE EndsWith(ac, bc)
  <2>1. Len(b) <= Len(a) BY <1>5 DEF EndsWith
  <2>2. ASSUME NEW i \in 1 .. Len(bc) PROVE bc[i] = ac[Len(ac) - Len(bc) + i]
    <3>1. Len(ac) - Len(bc) + i = Len(a) - Len(b) + i BY <1>1, <1>2, <1>3
    <3>2. CASE i = Len(b) + 1
      <4>1. Len(a) - Len(b) + i = Len(a) + 1 BY <1>1, <3>2
      <4> QED BY <1>2, <1>3, <3>1, <3>2, <4>1
    <3>3. CASE i \in 1 .. Len(b)
      <4>1. Len(a) - Len(b) + i \in 1 .. Len(a) BY <1>1, <2>1, <3>3
      <4>2. b[i] = a[Len(a) - Len(b) + i] BY <1>5, <3>3 DEF EndsWith
      <4> QED BY <1>2, <1>3, <3>1, <3>3, <4>1, <4>2
    <3> QED BY <1>1, <1>3, <3>2, <3>3
  <2>3. Len(bc) <= Len(ac) BY <1>1, <1>2, <1>3, <2>1
  <2> QED BY <2>2, <2>3 DEF EndsWith
<1> QED BY <1>4, <1>5 DEF ac, bc

LEMMA Beginning ==
  ASSUME NEW a \in Text, NEW k \in 0 .. Len(a)
  PROVE  /\ SubSeq(a, 1, k) \in Text /\ Len(SubSeq(a, 1, k)) = k
         /\ \A i \in 1 .. k : SubSeq(a, 1, k)[i] = a[i]
<1>1. k \in Nat /\ \A i \in 1 .. k : a[i] \in Letter BY TextLen
<1>2. /\ SubSeq(a, 1, k) \in Seq(Letter)
      /\ Len(SubSeq(a, 1, k)) = IF 1 <= k THEN k - 1 + 1 ELSE 0
      /\ \A i \in 1 .. k - 1 + 1 : SubSeq(a, 1, k)[i] = a[1 + i - 1]
  BY <1>1, SubSeqProperties
<1>3. k - 1 + 1 = k /\ (\A i \in 1 .. k : 1 + i - 1 = i) BY <1>1
<1> QED BY <1>1, <1>2, <1>3 DEF Text

(* A text that is not empty is its front and its last letter.              *)
LEMMA FrontAndLast ==
  ASSUME NEW a \in Text, a # << >>
  PROVE  /\ Front(a) \in Text /\ Last(a) \in Letter
         /\ Len(Front(a)) = Len(a) - 1
         /\ a = Append(Front(a), Last(a))
<1>1. Len(a) \in Nat \ {0} /\ \A i \in 1 .. Len(a) : a[i] \in Letter BY TextLen
<1>2. Last(a) \in Letter BY <1>1 DEF Last
<1>3. /\ Front(a) \in Text /\ Len(Front(a)) = Len(a) - 1
      /\ \A i \in 1 .. Len(a) - 1 : Front(a)[i] = a[i]
  <2>1. Len(a) - 1 \in 0 .. Len(a) BY <1>1
  <2> QED BY <2>1, Beginning DEF Front
<1>4. /\ Append(Front(a), Last(a)) \in Text /\ Len(Append(Front(a), Last(a))) = Len(a)
      /\ \A i \in 1 .. Len(a) : Append(Front(a), Last(a))[i] = a[i]
  <2>1. /\ Append(Front(a), Last(a)) \in Text /\ Len(Append(Front(a), Last(a))) = Len(a)
        /\ Append(Front(a), Last(a))[Len(a)] = Last(a)
        /\ \A i \in 1 .. Len(a) - 1 : Append(Front(a), Last(a))[i] = Front(a)[i]
    BY <1>1, <1>2, <1>3, Appended
  <2> QED BY <1>1, <1>3, <2>1 DEF Last
<1> QED BY <1>2, <1>3, <1>4, TextsEqual

(* What ends with something, ends with it but for the last letter.         *)
LEMMA EndsBeforeLast ==
  ASSUME NEW a \in Text, NEW c \in Letter, NEW b \in Text, b # << >>, EndsWith(Append(a, c), b)
  PROVE  Last(b) = c /\ EndsWith(a, Front(b)) /\ b = Append(Front(b), c)
<1>1. /\ Front(b) \in Text /\ Last(b) \in Letter /\ b = Append(Front(b), Last(b)) BY FrontAndLast
<1>2. Last(b) = c
  <2>1. Len(b) \in Nat \ {0} /\ Len(a) \in Nat BY TextLen
  <2>2. Len(Append(a, c)) = Len(a) + 1 /\ Append(a, c)[Len(a) + 1] = c BY Appended
  <2>3. b[Len(b)] = Append(a, c)[(Len(a) + 1) - Len(b) + Len(b)] BY <2>1, <2>2 DEF EndsWith
  <2>4. (Len(a) + 1) - Len(b) + Len(b) = Len(a) + 1 BY <2>1
  <2> QED BY <2>2, <2>3, <2>4 DEF Last
<1> QED BY <1>1, <1>2, EndsOfAppended

(* The ends of a tail are the shorter ends of the text.                    *)
LEMMA EndsOfTail ==
  ASSUME NEW a \in Text, a # << >>, NEW b \in Text
  PROVE  /\ Tail(a) \in Text /\ Len(Tail(a)) = Len(a) - 1
         /\ EndsWith(Tail(a), b) <=> EndsWith(a, b) /\ Len(b) < Len(a)
<1>1. /\ Tail(a) \in Text /\ Len(Tail(a)) = Len(a) - 1
      /\ \A i \in 1 .. Len(a) - 1 : Tail(a)[i] = a[i + 1]
  BY HeadTailProperties DEF Text
<1>2. Len(a) \in Nat \ {0} /\ Len(b) \in Nat BY TextLen
<1>3. ASSUME Len(b) < Len(a), NEW i \in 1 .. Len(b)
      PROVE  Tail(a)[(Len(a) - 1) - Len(b) + i] = a[Len(a) - Len(b) + i]
  <2>1. (Len(a) - 1) - Len(b) + i \in 1 .. Len(a) - 1 BY <1>2, <1>3
  <2>2. ((Len(a) - 1) - Len(b) + i) + 1 = Len(a) - Len(b) + i BY <1>2
  <2> QED BY <1>1, <2>1, <2>2
<1>4. CASE Len(b) < Len(a) BY <1>1, <1>2, <1>3, <1>4 DEF EndsWith
<1>5. CASE ~(Len(b) < Len(a)) BY <1>1, <1>2, <1>5 DEF EndsWith
<1> QED BY <1>1, <1>4, <1>5

-----------------------------------------------------------------------------
(*                        Nodes and walks along fail links                 *)

LEMMA NodesAreTexts ==
  /\ Root \in nodes_ /\ nodes_ \subseteq Text
  /\ \A s \in Signatures : s.text \in nodes_ /\ s.text \in Text
<1>1. ASSUME NEW s \in Signatures
      PROVE  s.text \in Prefixes(s.text) /\ Prefixes(s.text) \subseteq Text /\ s.text \in Text
  <2>1. s.text \in Text BY SignatureAssumption DEF Text, Letter
  <2>2. Len(s.text) \in 0 .. Len(s.text) /\ SubSeq(s.text, 1, Len(s.text)) = s.text
    BY <2>1, TextLen, SubSeqFull DEF Text
  <2>3. ASSUME NEW k \in 0 .. Len(s.text) PROVE SubSeq(s.text, 1, k) \in Text
    <3> QED BY <2>1, Beginning
  <2> QED BY <2>1, <2>2, <2>3 DEF Prefixes
<1>2. Root \in Text BY EmptySeq DEF Root, Text
<1> QED BY <1>1, <1>2 DEF nodes_

(* The trie holds with every text what the text begins with.               *)
LEMMA ParentIsNode ==
  ASSUME NEW m \in Text, NEW c \in Letter, Append(m, c) \in nodes_
  PROVE  m \in nodes_
<1> DEFINE n == Append(m, c)
<1>1. n # << >> /\ n \in Text /\ Len(n) = Len(m) + 1 /\ \A i \in 1 .. Len(m) : n[i] = m[i]
  <2>1. n \in Text /\ Len(n) = Len(m) + 1 /\ \A i \in 1 .. Len(m) : n[i] = m[i] BY Appended
  <2> HIDE DEF n
  <2> QED BY <2>1, TextLen
<1>2. PICK s \in Signatures : n \in Prefixes(s.text) BY <1>1 DEF nodes_, Root
<1>3. PICK k \in 0 .. Len(s.text) : n = SubSeq(s.text, 1, k) BY <1>2 DEF Prefixes
<1> HIDE DEF n
<1>4. s.text \in Text /\ Len(s.text) \in Nat /\ \A i \in 1 .. Len(s.text) : s.text[i] \in Letter
  BY NodesAreTexts, TextLen
<1>5. Len(n) = k /\ \A i \in 1 .. k : n[i] = s.text[i]
  BY <1>3, <1>4, Beginning
<1>6. Len(m) \in 0 .. Len(s.text) /\ Len(m) = k - 1 BY <1>1, <1>4, <1>5, TextLen
<1>7. /\ SubSeq(s.text, 1, Len(m)) \in Text /\ Len(SubSeq(s.text, 1, Len(m))) = Len(m)
      /\ \A i \in 1 .. Len(m) : SubSeq(s.text, 1, Len(m))[i] = s.text[i]
  BY <1>4, <1>6, Beginning
<1>8. SubSeq(s.text, 1, Len(m)) = m
  <2> DEFINE b == SubSeq(s.text, 1, Len(m))
  <2>1. b \in Text /\ Len(b) = Len(m) /\ \A i \in 1 .. Len(m) : b[i] = m[i]
    BY <1>1, <1>5, <1>6, <1>7
  <2> HIDE DEF b
  <2>2. b = m BY <2>1, TextsEqual
  <2> QED BY <2>2 DEF b
<1> QED BY <1>6, <1>8 DEF nodes_, Prefixes

(* Of the nodes a text ends with, m is the longest; walk lists them all,   *)
(* longest first.                                                          *)
Longest(a, m) == /\ m \in nodes_ /\ EndsWith(a, m)
                 /\ \A k \in nodes_ : EndsWith(a, k) => Len(k) <= Len(m)

Lists(walk, a) == /\ walk \in Seq(nodes_)
                  /\ \A i \in 1 .. Len(walk) : EndsWith(a, walk[i])
                  /\ \A m \in nodes_ : EndsWith(a, m) => \E i \in 1 .. Len(walk) : walk[i] = m
                  /\ \A i, j \in 1 .. Len(walk) : i < j => Len(walk[j]) < Len(walk[i])

LEMMA RootListsRoot == Lists(<<Root>>, Root) /\ Longest(Root, Root)
<1>1. Root \in nodes_ /\ Root \in Text /\ Len(Root) = 0 BY NodesAreTexts DEF Root
<1>2. EndsWith(Root, Root) BY <1>1, EndsWithItself
<1>3. \A m \in nodes_ : EndsWith(Root, m) => m = Root
  BY <1>1, NodesAreTexts, TextLen DEF EndsWith, Root
<1>4. /\ <<Root>> \in Seq(nodes_) /\ Len(<<Root>>) = 1 /\ <<Root>>[1] = Root
  BY <1>1
<1>5. Longest(Root, Root) BY <1>1, <1>2, <1>3 DEF Longest
<1> QED BY <1>2, <1>3, <1>4, <1>5 DEF Lists

(* The walk from the longest node that a text ends with is the text's.     *)
LEMMA ListsFromLongest ==
  ASSUME NEW a \in Text, NEW m \in nodes_, NEW walk, Longest(a, m), Lists(walk, m)
  PROVE  Lists(walk, a)
<1>1. m \in Text /\ nodes_ \subseteq Text BY NodesAreTexts
<1>2. walk \in Seq(nodes_) /\ \A i \in 1 .. Len(walk) : walk[i] \in nodes_
  BY ElementOfSeq DEF Lists
<1>3. \A i \in 1 .. Len(walk) : EndsWith(a, walk[i])
  BY <1>1, <1>2, EndsTransitive DEF Lists, Longest
<1>4. \A k \in nodes_ : EndsWith(a, k) => EndsWith(m, k)
  BY <1>1, EndsNested DEF Longest
<1> QED BY <1>2, <1>3, <1>4 DEF Lists

(* What a node's walk holds after the node is its tail's.                  *)
LEMMA TailLists ==
  ASSUME NEW n \in nodes_, n # Root, NEW walk, Lists(walk, n)
  PROVE  Lists(Tail(walk), Tail(n))
<1>1. n \in Text /\ nodes_ \subseteq Text /\ Len(n) \in Nat \ {0} BY NodesAreTexts, TextLen DEF Root
<1>2. /\ walk \in Seq(nodes_) /\ Len(walk) \in Nat /\ \A i \in 1 .. Len(walk) : walk[i] \in nodes_
  BY ElementOfSeq, LenProperties DEF Lists
<1>3. walk # << >> /\ walk[1] = n /\ Len(walk) >= 1
  <2>1. PICK i \in 1 .. Len(walk) : walk[i] = n BY <1>1, EndsWithItself DEF Lists
  <2>2. CASE i > 1
    <3>1. 1 \in 1 .. Len(walk) BY <1>2
    <3>2. Len(n) < Len(walk[1]) BY <2>1, <2>2, <3>1 DEF Lists
    <3>3. Len(walk[1]) <= Len(n) BY <3>1 DEF Lists, EndsWith
    <3>4. Len(walk[1]) \in Nat BY <1>1, <1>2, <3>1, TextLen
    <3> QED BY <1>1, <3>2, <3>3, <3>4
  <2>3. CASE i = 1 BY <1>2, <2>1, <2>3
  <2> QED BY <2>2, <2>3
<1>4. /\ Tail(walk) \in Seq(nodes_) /\ Len(Tail(walk)) = Len(walk) - 1
      /\ \A i \in 1 .. Len(walk) - 1 : Tail(walk)[i] = walk[i + 1]
  BY <1>2, <1>3, HeadTailProperties
<1>5. \A i \in 1 .. Len(walk) - 1 : Len(walk[i + 1]) < Len(n) /\ EndsWith(n, walk[i + 1])
  BY <1>2, <1>3 DEF Lists
<1>6. \A i \in 1 .. Len(Tail(walk)) : EndsWith(Tail(n), Tail(walk)[i])
  <2> TAKE i \in 1 .. Len(Tail(walk))
  <2>1. walk[i + 1] \in Text /\ Tail(walk)[i] = walk[i + 1] BY <1>1, <1>2, <1>4
  <2>2. i \in 1 .. Len(walk) - 1 BY <1>4
  <2> QED BY <1>1, <1>5, <2>1, <2>2, EndsOfTail DEF Root
<1>7. ASSUME NEW m \in nodes_, EndsWith(Tail(n), m)
      PROVE  \E i \in 1 .. Len(Tail(walk)) : Tail(walk)[i] = m
  <2>1. EndsWith(n, m) /\ Len(m) < Len(n) BY <1>1, <1>7, EndsOfTail DEF Root
  <2>2. PICK i \in 1 .. Len(walk) : walk[i] = m BY <2>1 DEF Lists
  <2>3. i # 1 BY <1>1, <1>3, <2>1, <2>2
  <2>4. i - 1 \in 1 .. Len(walk) - 1 /\ (i - 1) + 1 = i BY <1>2, <2>3
  <2> QED BY <1>4, <2>2, <2>4
<1>8. \A i, j \in 1 .. Len(Tail(walk)) : i < j => Len(Tail(walk)[j]) < Len(Tail(walk)[i])
  <2> TAKE i, j \in 1 .. Len(Tail(walk))
  <2> HAVE i < j
  <2>1. i + 1 \in 1 .. Len(walk) /\ j + 1 \in 1 .. Len(walk) /\ i + 1 < j + 1 BY <1>2, <1>4
  <2>2. Len(walk[j + 1]) < Len(walk[i + 1]) BY <2>1 DEF Lists
  <2> QED BY <1>4, <2>2
<1> QED BY <1>4, <1>6, <1>7, <1>8 DEF Lists

(* A node, and the walk from the longest node that its tail ends with.     *)
LEMMA NodeBeforeItsFailLink ==
  ASSUME NEW n \in nodes_, n # Root, NEW m, Longest(Tail(n), m), NEW walk, Lists(walk, m)
  PROVE  Lists(<<n>> \o walk, n)
<1> DEFINE all == <<n>> \o walk
<1>1. n \in Text /\ nodes_ \subseteq Text /\ Len(n) \in Nat \ {0} BY NodesAreTexts, TextLen DEF Root
<1>2. m \in nodes_ /\ Tail(n) \in Text BY <1>1, EndsOfTail DEF Longest, Root
<1>3. Lists(walk, Tail(n)) BY <1>2, ListsFromLongest
<1>4. /\ walk \in Seq(nodes_) /\ Len(walk) \in Nat /\ \A i \in 1 .. Len(walk) : walk[i] \in nodes_
  BY ElementOfSeq, LenProperties DEF Lists
<1>5. /\ all \in Seq(nodes_) /\ Len(all) = Len(walk) + 1 /\ all[1] = n
      /\ \A i \in 1 .. Len(walk) : all[i + 1] = walk[i]
  <2>1. <<n>> \in Seq(nodes_) /\ Len(<<n>>) = 1 /\ <<n>>[1] = n OBVIOUS
  <2>2. /\ all \in Seq(nodes_) /\ Len(all) = 1 + Len(walk)
        /\ \A i \in 1 .. 1 + Len(walk) : all[i] = IF i <= 1 THEN <<n>>[i] ELSE walk[i - 1]
    BY <1>4, <2>1, ConcatProperties
  <2> HIDE DEF all
  <2>3. \A i \in 1 .. Len(walk) : all[i + 1] = walk[(i + 1) - 1] /\ (i + 1) - 1 = i BY <1>4, <2>2
  <2> QED BY <1>4, <2>1, <2>2, <2>3
<1> HIDE DEF all
<1>6. \A i \in 1 .. Len(all) : i = 1 \/ (i - 1 \in 1 .. Len(walk) /\ all[i] = walk[i - 1])
  <2> TAKE i \in 1 .. Len(all)
  <2>1. CASE i # 1
    <3>1. i - 1 \in 1 .. Len(walk) /\ (i - 1) + 1 = i BY <1>4, <1>5, <2>1
    <3> QED BY <1>5, <3>1
  <2> QED BY <2>1
<1>7. \A i \in 1 .. Len(walk) : EndsWith(n, walk[i]) /\ Len(walk[i]) < Len(n)
  BY <1>1, <1>3, <1>4, EndsOfTail DEF Lists, Root
<1>8. \A i \in 1 .. Len(all) : EndsWith(n, all[i])
  BY <1>1, <1>5, <1>6, <1>7, EndsWithItself
<1>9. ASSUME NEW k \in nodes_, EndsWith(n, k) PROVE \E i \in 1 .. Len(all) : all[i] = k
  <2>1. Len(k) \in Nat /\ Len(k) <= Len(n) BY <1>1, <1>9, TextLen DEF EndsWith
  <2>2. CASE Len(k) = Len(n)
    <3>1. k = n BY <1>1, <1>9, <2>2, EndsWithItself, EndsOfOneLength
    <3> QED BY <1>4, <1>5, <3>1
  <2>3. CASE Len(k) < Len(n)
    <3>1. EndsWith(Tail(n), k) BY <1>1, <1>9, <2>3, EndsOfTail DEF Root
    <3>2. PICK i \in 1 .. Len(walk) : walk[i] = k BY <1>3, <3>1 DEF Lists
    <3>3. i + 1 \in 1 .. Len(all) BY <1>4, <1>5
    <3> QED BY <1>5, <3>2, <3>3
  <2> QED BY <1>1, <2>1, <2>2, <2>3
<1>10. ASSUME NEW i \in 1 .. Len(all), NEW j \in 1 .. Len(all), i < j
       PROVE  Len(all[j]) < Len(all[i])
  <2>1. j # 1 /\ j - 1 \in 1 .. Len(walk) /\ all[j] = walk[j - 1] BY <1>6, <1>10
  <2>2. CASE i = 1 BY <1>5, <1>7, <2>1, <2>2
  <2>3. CASE i # 1
    <3>1. i - 1 \in 1 .. Len(walk) /\ all[i] = walk[i - 1] BY <1>6, <2>3
    <3>2. i - 1 < j - 1 BY <1>10
    <3> QED BY <1>3, <2>1, <3>1, <3>2 DEF Lists
  <2> QED BY <2>2, <2>3
<1> QED BY <1>5, <1>8, <1>9, <1>10 DEF Lists, all

(* Following fail links to the first node with a child by c, search gets   *)
(* to the longest node that the text read so far ends with.                *)
LEMMA GoToLongest ==
  ASSUME NEW a \in Text, NEW c \in Letter, NEW walk, Lists(walk, a)
  PROVE  Longest(Append(a, c), GoTo(walk, c))
<1> DEFINE stops == {i \in DOMAIN walk : walk[i] = Root \/ HasChild(walk[i], c)}
           at == Min(stops)
           s == walk[at]
           ac == Append(a, c)
<1>1. nodes_ \subseteq Text /\ Root \in nodes_ BY NodesAreTexts
<1>2. /\ walk \in Seq(nodes_) /\ Len(walk) \in Nat /\ DOMAIN walk = 1 .. Len(walk)
      /\ \A i \in 1 .. Len(walk) : walk[i] \in nodes_
  BY ElementOfSeq, LenProperties DEF Lists
<1>3. stops # {} /\ stops \subseteq 1 .. Len(walk)
  <2>1. EndsWith(a, Root) BY EndsWithItself DEF Root
  <2> QED BY <1>1, <1>2, <2>1 DEF Lists
<1>4. at \in stops /\ \A i \in stops : at <= i
  <2>1. stops \subseteq Nat BY <1>3
  <2> HIDE DEF stops
  <2> QED BY <1>3, <2>1, MinIsLeast
<1>5. s \in nodes_ /\ s \in Text /\ EndsWith(a, s) /\ (s = Root \/ HasChild(s, c))
  BY <1>1, <1>2, <1>3, <1>4 DEF Lists
<1>6. GoTo(walk, c) = IF HasChild(s, c) THEN Append(s, c) ELSE Root BY DEF GoTo, StopOf
<1>7. ac \in Text BY Appended
<1>8. ASSUME NEW k \in nodes_, EndsWith(ac, k), k # Root
      PROVE  Len(k) <= Len(s) + 1 /\ HasChild(s, c)
  <2>1. k \in Text BY <1>1
  <2>2. EndsWith(a, Front(k)) /\ k = Append(Front(k), c)
    BY <1>8, <2>1, EndsBeforeLast DEF Root
  <2>3. Front(k) \in Text /\ Len(k) = Len(Front(k)) + 1 /\ Len(Front(k)) \in Nat
    BY <1>8, <2>1, FrontAndLast, TextLen DEF Root
  <2>4. Front(k) \in nodes_ /\ HasChild(Front(k), c) BY <1>8, <2>2, <2>3, ParentIsNode DEF HasChild
  <2>5. PICK i \in 1 .. Len(walk) : walk[i] = Front(k) BY <2>2, <2>4 DEF Lists
  <2>6. i \in stops BY <1>2, <2>4, <2>5
  <2>7. at \in 1 .. Len(walk) /\ at <= i BY <1>3, <1>4, <2>6
  <2>8. CASE at = i BY <2>3, <2>4, <2>5, <2>8
  <2>9. CASE at < i
    <3>1. Len(Front(k)) < Len(s) BY <2>5, <2>7, <2>9 DEF Lists
    <3>2. s # Root /\ Len(s) \in Nat BY <1>5, <2>3, <3>1, TextLen DEF Root
    <3> QED BY <1>5, <2>3, <3>1, <3>2
  <2> QED BY <1>2, <2>7, <2>8, <2>9
<1> HIDE DEF stops, at, s
<1>9. Len(s) \in Nat /\ Len(Root) = 0 BY <1>5, TextLen DEF Root
<1>10. CASE HasChild(s, c)
  <2>1. GoTo(walk, c) \in nodes_ /\ GoTo(walk, c) = Append(s, c) BY <1>6, <1>10 DEF HasChild
  <2>2. EndsWith(ac, Append(s, c)) BY <1>5, EndsOfAppended
  <2>3. Len(Append(s, c)) = Len(s) + 1 BY <1>5, Appended
  <2> QED BY <1>8, <1>9, <2>1, <2>2, <2>3 DEF Longest
<1>11. CASE ~HasChild(s, c)
  <2>1. GoTo(walk, c) = Root BY <1>6, <1>11
  <2>2. EndsWith(ac, Root) BY <1>7, EndsWithItself DEF Root
  <2>3. \A k \in nodes_ : EndsWith(ac, k) => k = Root BY <1>8, <1>11
  <2> QED BY <1>1, <1>9, <2>1, <2>2, <2>3 DEF Longest
<1> QED BY <1>10, <1>11

-----------------------------------------------------------------------------
(*                         The fail links of the nodes                     *)

(* What the definition of FailLinks asks of a function at a node.          *)
FailRule(f, n) ==
  IF n = Root THEN <<Root>>
  ELSE <<n>> \o IF Len(n) = 1 THEN <<Root>>
                ELSE f[GoTo(Tail(f[Front(n)]), Last(n))]

(* A node's walk is right once those of the shorter nodes are: the one it  *)
(* is taken from is the longest that the node ends with.                   *)
LEMMA FailStep ==
  ASSUME NEW f, NEW n \in nodes_, n # Root,
         \A m \in nodes_ : Len(m) < Len(n) => Lists(f[m], m)
  PROVE  /\ Lists(FailRule(f, n), n)
         /\ Len(n) # 1 => /\ Front(n) \in nodes_ /\ Len(Front(n)) < Len(n)
                          /\ GoTo(Tail(f[Front(n)]), Last(n)) \in nodes_
                          /\ Len(GoTo(Tail(f[Front(n)]), Last(n))) < Len(n)
<1>1. n \in Text /\ nodes_ \subseteq Text /\ Len(n) \in Nat \ {0} /\ n # << >>
  BY NodesAreTexts, TextLen DEF Root
<1>2. /\ Tail(n) \in Text /\ Len(Tail(n)) = Len(n) - 1
      /\ Front(n) \in Text /\ Last(n) \in Letter /\ Len(Front(n)) = Len(n) - 1
  BY <1>1, EndsOfTail, FrontAndLast
<1> DEFINE p == Front(n)
           c == Last(n)
           m == GoTo(Tail(f[p]), c)
<1>5. n = Append(p, c) BY <1>1, FrontAndLast
<1>3. CASE Len(n) = 1
  <2>1. Tail(n) = Root
    <3> DEFINE t == Tail(n)
    <3>1. t \in Text /\ Len(t) = 0 BY <1>2, <1>3
    <3> HIDE DEF t
    <3>2. t = << >> BY <3>1, TextLen
    <3> QED BY <3>2 DEF t, Root
  <2>2. Lists(<<n>> \o <<Root>>, n) BY <2>1, RootListsRoot, NodeBeforeItsFailLink
  <2> QED BY <1>3, <2>2 DEF FailRule
<1>4. CASE Len(n) # 1
  <2>1. p \in nodes_ /\ Len(p) < Len(n)
    <3>1. Append(p, c) \in nodes_ BY <1>5
    <3>2. p \in Text /\ c \in Letter BY <1>2
    <3> HIDE DEF p, c
    <3>3. p \in nodes_ BY <3>1, <3>2, ParentIsNode
    <3> QED BY <1>1, <1>2, <3>3 DEF p
  <2>2. p # Root /\ p # << >> /\ p \in Text BY <1>1, <1>2, <1>4, TextLen DEF Root
  <2>3. Lists(Tail(f[p]), Tail(p)) BY <2>1, <2>2, TailLists
  <2>4. Tail(p) \in Text BY <2>2, EndsOfTail
  <2>5. Longest(Append(Tail(p), c), m) BY <1>2, <2>3, <2>4, GoToLongest
  <2>6. Append(Tail(p), c) = Tail(n)
    <3>1. n = Append(p, c) /\ p \in Seq(Letter) /\ p # << >> BY <1>5, <2>2 DEF Text
    <3> HIDE DEF p, c
    <3>2. Tail(Append(p, c)) = Append(Tail(p), c) BY <3>1
    <3> QED BY <3>1, <3>2
  <2>7. Longest(Tail(n), m) BY <2>5, <2>6
  <2> HIDE DEF m, p
  <2>8. m \in nodes_ /\ Len(m) <= Len(Tail(n)) BY <2>7 DEF Longest, EndsWith
  <2>9. Len(m) < Len(n) BY <1>1, <1>2, <2>8, TextLen
  <2>10. Lists(<<n>> \o f[m], n) BY <2>7, <2>8, <2>9, NodeBeforeItsFailLink
  <2>11. FailRule(f, n) = <<n>> \o f[m] BY <1>4 DEF FailRule, m, p
  <2> QED BY <2>1, <2>8, <2>9, <2>10, <2>11 DEF m, p
<1> QED BY <1>3, <1>4

(* Finitely many texts are of bounded length.                              *)
LEMMA TextsBounded == \E k \in Nat : \A n \in nodes_ : Len(n) <= k
<1> DEFINE Bounded(T) == \E k \in Nat : \A s \in T : Len(s.text) <= k
           Good == {n \in Nat : \A T \in SUBSET Signatures : Cardinality(T) = n => Bounded(T)}
<1>0. \A T \in SUBSET Signatures : IsFiniteSet(T) /\ Cardinality(T) \in Nat
  BY SignatureAssumption, FS_Subset, FS_CardinalityType
<1>1. 0 \in Good BY <1>0, FS_EmptySet
<1>2. ASSUME NEW n \in Nat, n \in Good PROVE n + 1 \in Good
  <2> SUFFICES ASSUME NEW T \in SUBSET Signatures, Cardinality(T) = n + 1 PROVE Bounded(T)
    OBVIOUS
  <2>1. PICK s \in T : TRUE BY FS_EmptySet
  <2>2. Cardinality(T \ {s}) = n BY <1>0, FS_RemoveElement
  <2>3. PICK k \in Nat : \A r \in T \ {s} : Len(r.text) <= k BY <1>2, <2>2
  <2>4. \A r \in T : Len(r.text) \in Nat BY NodesAreTexts, TextLen
  <2>5. \A r \in T : Len(r.text) <= k + Len(s.text) BY <2>3, <2>4
  <2> QED BY <2>4, <2>5
<1>3. Nat \subseteq Good
  <2> HIDE DEF Good
  <2> QED BY <1>1, <1>2, NatsFromZero
<1>4. PICK k \in Nat : \A s \in Signatures : Len(s.text) <= k BY <1>0, <1>3
<1>5. ASSUME NEW n \in nodes_ PROVE Len(n) <= k
  <2>1. CASE n = Root BY <2>1 DEF Root
  <2>2. CASE n # Root
    <3>1. PICK s \in Signatures : n \in Prefixes(s.text) BY <2>2 DEF nodes_
    <3>2. PICK l \in 0 .. Len(s.text) : n = SubSeq(s.text, 1, l) BY <3>1 DEF Prefixes
    <3>3. Len(n) = l BY <3>2, NodesAreTexts, Beginning
    <3>4. Len(s.text) \in Nat /\ Len(s.text) <= k BY <1>4, NodesAreTexts, TextLen
    <3> QED BY <3>3, <3>4
  <2> QED BY <2>1, <2>2
<1> QED BY <1>5

(* Nodes of at most k letters.                                             *)
UpTo(k) == {n \in nodes_ : Len(n) <= k}
FailsUpTo(f, k) == /\ f = [n \in UpTo(k) |-> FailRule(f, n)]
                   /\ \A n \in UpTo(k) : Lists(f[n], n)

LEMMA FailLinksExist == \E f : f = [n \in nodes_ |-> FailRule(f, n)]
<1> DEFINE Reached == {k \in Nat : \E f : FailsUpTo(f, k)}
<1>0. \A n \in nodes_ : Len(n) \in Nat /\ (Len(n) = 0 => n = Root)
  BY NodesAreTexts, TextLen DEF Root
<1>1. 0 \in Reached
  <2> DEFINE f == [n \in UpTo(0) |-> <<Root>>]
  <2>1. \A n \in UpTo(0) : n = Root BY <1>0 DEF UpTo
  <2>2. FailsUpTo(f, 0) BY <2>1, RootListsRoot DEF FailsUpTo, FailRule
  <2> QED BY <2>2
<1>2. ASSUME NEW k \in Nat, k \in Reached PROVE k + 1 \in Reached
  <2>1. PICK f : FailsUpTo(f, k) BY <1>2
  <2> DEFINE g == [n \in UpTo(k + 1) |-> FailRule(f, n)]
  <2>2. UpTo(k) \subseteq UpTo(k + 1) BY <1>0 DEF UpTo
  <2>3. \A n \in UpTo(k) : f[n] = FailRule(f, n) /\ Lists(f[n], n) BY <2>1 DEF FailsUpTo
  <2>4. \A n \in UpTo(k) : g[n] = f[n] BY <2>2, <2>3
  <2>5. ASSUME NEW n \in UpTo(k + 1)
        PROVE  Lists(FailRule(f, n), n) /\ FailRule(f, n) = FailRule(g, n)
    <3>1. CASE n = Root BY <3>1, RootListsRoot DEF FailRule
    <3>2. CASE n # Root
      <4>1. \A m \in nodes_ : Len(m) < Len(n) => m \in UpTo(k) BY <1>0 DEF UpTo
      <4>2. n \in nodes_ /\ \A m \in nodes_ : Len(m) < Len(n) => Lists(f[m], m)
        BY <2>3, <4>1 DEF UpTo
      <4> HIDE DEF g
      <4>3. Lists(FailRule(f, n), n) BY <3>2, <4>2, FailStep
      <4>4. CASE Len(n) = 1 BY <4>3, <4>4 DEF FailRule
      <4>5. CASE Len(n) # 1
        <5> DEFINE m == GoTo(Tail(f[Front(n)]), Last(n))
        <5>1. Front(n) \in UpTo(k) /\ m \in UpTo(k) BY <3>2, <4>1, <4>2, <4>5, FailStep
        <5>2. g[Front(n)] = f[Front(n)] /\ g[m] = f[m] BY <2>4, <5>1
        <5>3. FailRule(f, n) = <<n>> \o f[m] BY <3>2, <4>5 DEF FailRule
        <5>4. FailRule(g, n) = <<n>> \o g[GoTo(Tail(g[Front(n)]), Last(n))]
          BY <3>2, <4>5 DEF FailRule
        <5> QED BY <4>3, <5>2, <5>3, <5>4
      <4> QED BY <4>4, <4>5
    <3> QED BY <3>1, <3>2
  <2>6. FailsUpTo(g, k + 1) BY <2>5 DEF FailsUpTo
  <2> QED BY <2>6
<1>3. Nat \subseteq Reached
  <2> HIDE DEF Reached
  <2> QED BY <1>1, <1>2, NatsFromZero
<1>4. PICK k \in Nat : \A n \in nodes_ : Len(n) <= k BY TextsBounded
<1>5. UpTo(k) = nodes_ BY <1>4 DEF UpTo
<1>6. PICK f : FailsUpTo(f, k) BY <1>3
<1> QED BY <1>5, <1>6 DEF FailsUpTo

LEMMA FailLinksRule == FailLinks = [n \in nodes_ |-> FailRule(FailLinks, n)]
BY FailLinksExist DEF FailLinks, FailRule

(* buildFailLinks: the fail links of a node lead to the nodes it ends      *)
(* with, all of them, one after the other.                                 *)
THEOREM FailLinksAreRight == \A n \in nodes_ : Lists(FailLinks[n], n)
<1> DEFINE Right == {k \in Nat : \A n \in UpTo(k) : Lists(FailLinks[n], n)}
<1>0. \A n \in nodes_ : Len(n) \in Nat /\ (Len(n) = 0 => n = Root)
  BY NodesAreTexts, TextLen DEF Root
<1>1. \A n \in nodes_ : FailLinks[n] = FailRule(FailLinks, n) BY FailLinksRule
<1>2. Root \in nodes_ /\ Lists(FailLinks[Root], Root)
  BY <1>1, NodesAreTexts, RootListsRoot DEF FailRule
<1>3. 0 \in Right BY <1>0, <1>2 DEF UpTo
<1>4. ASSUME NEW k \in Nat, k \in Right PROVE k + 1 \in Right
  <2> SUFFICES ASSUME NEW n \in UpTo(k + 1), n # Root PROVE Lists(FailLinks[n], n)
    BY <1>2
  <2>1. n \in nodes_ /\ \A m \in nodes_ : Len(m) < Len(n) => m \in UpTo(k)
    BY <1>0 DEF UpTo
  <2>2. \A m \in nodes_ : Len(m) < Len(n) => Lists(FailLinks[m], m) BY <1>4, <2>1
  <2>3. Lists(FailRule(FailLinks, n), n) BY <2>1, <2>2, FailStep
  <2> QED BY <1>1, <2>1, <2>3
<1>5. Nat \subseteq Right
  <2> HIDE DEF Right
  <2> QED BY <1>3, <1>4, NatsFromZero
<1> QED BY <1>0, <1>5 DEF UpTo

-----------------------------------------------------------------------------
(*                               The search                                *)

(* The first i letters of a payload, and the node reached after each.      *)
Read(data, i) == SubSeq(data, 1, i)

Reaches(f, data, k) ==
  f = [i \in 0 .. k |-> IF i = 0 THEN Root ELSE GoTo(FailLinks[f[i - 1]], data[i])]

LEMMA ReachesExists ==
  ASSUME NEW data, NEW k \in Nat
  PROVE  \E f : Reaches(f, data, k)
<1> DEFINE Good == {n \in Nat : \E f : Reaches(f, data, n)}
<1>1. 0 \in Good
  <2>1. Reaches([i \in 0 .. 0 |-> Root], data, 0) BY DEF Reaches
  <2> QED BY <2>1
<1>2. ASSUME NEW n \in Nat, n \in Good PROVE n + 1 \in Good
  <2>1. PICK f : Reaches(f, data, n) BY <1>2
  <2> DEFINE g == [i \in 0 .. n + 1 |-> IF i = 0 THEN Root ELSE GoTo(FailLinks[f[i - 1]], data[i])]
  <2>2. \A i \in 0 .. n : g[i] = f[i]
    <3>1. \A i \in 0 .. n : f[i] = IF i = 0 THEN Root ELSE GoTo(FailLinks[f[i - 1]], data[i])
      BY <2>1 DEF Reaches
    <3> QED BY <3>1
  <2>3. \A i \in 0 .. n + 1 : i # 0 => i - 1 \in 0 .. n OBVIOUS
  <2>4. \A i \in 0 .. n + 1 : i # 0 => f[i - 1] = g[i - 1] BY <2>2, <2>3
  <2>5. Reaches(g, data, n + 1) BY <2>4 DEF Reaches
  <2> QED BY <2>5
<1>3. Nat \subseteq Good
  <2> HIDE DEF Good
  <2> QED BY <1>1, <1>2, NatsFromZero
<1> QED BY <1>3

LEMMA ReadMore ==
  ASSUME NEW data \in Text, NEW i \in 0 .. Len(data) - 1
  PROVE  /\ Read(data, i) \in Text /\ data[i + 1] \in Letter
         /\ Read(data, i + 1) = Append(Read(data, i), data[i + 1])
<1> DEFINE a == Read(data, i)
           b == Read(data, i + 1)
           c == data[i + 1]
           ac == Append(a, c)
<1>1. Len(data) \in Nat /\ i \in Nat /\ i \in 0 .. Len(data) /\ i + 1 \in 0 .. Len(data) /\ c \in Letter
  BY TextLen
<1>2. a \in Text /\ Len(a) = i /\ \A j \in 1 .. i : a[j] = data[j] BY <1>1, Beginning DEF Read
<1>3. b \in Text /\ Len(b) = i + 1 /\ \A j \in 1 .. i + 1 : b[j] = data[j] BY <1>1, Beginning DEF Read
<1> HIDE DEF a, b, c
<1>4. ac \in Text /\ Len(ac) = i + 1 /\ ac[i + 1] = c /\ \A j \in 1 .. i : ac[j] = a[j]
  BY <1>1, <1>2, Appended
<1> HIDE DEF ac
<1>5. \A j \in 1 .. i + 1 : b[j] = ac[j] BY <1>1, <1>2, <1>3, <1>4 DEF c
<1>6. b = ac BY <1>3, <1>4, <1>5, TextsEqual
<1> QED BY <1>1, <1>2, <1>6 DEF a, b, c, ac

(* search is at the longest node that the letters read so far end with.    *)
LEMMA ReachesLongest ==
  ASSUME NEW data \in Text, NEW f, Reaches(f, data, Len(data)), NEW i \in 0 .. Len(data)
  PROVE  Longest(Read(data, i), f[i])
<1> DEFINE Good == {k \in Nat : k <= Len(data) => Longest(Read(data, k), f[k])}
<1>0. Len(data) \in Nat BY TextLen
<1>1. \A k \in 0 .. Len(data) : f[k] = IF k = 0 THEN Root ELSE GoTo(FailLinks[f[k - 1]], data[k])
  BY DEF Reaches
<1>2. 0 \in Good
  <2>1. f[0] = Root BY <1>0, <1>1
  <2>2. Read(data, 0) = Root BY <1>0, Beginning, TextLen DEF Read, Root
  <2> QED BY <2>1, <2>2, RootListsRoot
<1>3. ASSUME NEW k \in Nat, k \in Good PROVE k + 1 \in Good
  <2> SUFFICES ASSUME k + 1 <= Len(data) PROVE Longest(Read(data, k + 1), f[k + 1])
    OBVIOUS
  <2>1. Longest(Read(data, k), f[k]) BY <1>0, <1>3
  <2>2. f[k + 1] = GoTo(FailLinks[f[k]], data[k + 1])
    <3>1. k + 1 \in 0 .. Len(data) /\ k + 1 # 0 /\ (k + 1) - 1 = k BY <1>0
    <3> QED BY <1>1, <3>1
  <2>3. f[k] \in nodes_ /\ Lists(FailLinks[f[k]], f[k]) BY <2>1, FailLinksAreRight DEF Longest
  <2>4. k \in 0 .. Len(data) - 1 BY <1>0
  <2>5. Read(data, k) \in Text /\ data[k + 1] \in Letter
        /\ Read(data, k + 1) = Append(Read(data, k), data[k + 1])
    BY <2>4, ReadMore
  <2>6. Lists(FailLinks[f[k]], Read(data, k)) BY <2>1, <2>3, <2>5, ListsFromLongest
  <2>7. Longest(Append(Read(data, k), data[k + 1]), GoTo(FailLinks[f[k]], data[k + 1]))
    BY <2>5, <2>6, GoToLongest
  <2> QED BY <2>2, <2>5, <2>7
<1>4. Nat \subseteq Good
  <2> HIDE DEF Good
  <2> QED BY <1>2, <1>3, NatsFromZero
<1>5. i \in Nat /\ i <= Len(data) BY <1>0
<1> QED BY <1>4, <1>5

(* A text is in the payload where the letters read so far end with it.     *)
LEMMA TextIsReadSomewhere ==
  ASSUME NEW data \in Text, NEW t \in Text, t # << >>
  PROVE  HasText(data, t) <=> \E i \in 1 .. Len(data) : EndsWith(Read(data, i), t)
<1>0. Len(data) \in Nat /\ Len(t) \in Nat \ {0} BY TextLen
<1>1. ASSUME NEW i \in 1 .. Len(data)
      PROVE  EndsWith(Read(data, i), t)
               <=> Len(t) <= i /\ \A j \in 1 .. Len(t) : data[i - Len(t) + j] = t[j]
  <2>1. i \in 0 .. Len(data) BY <1>0
  <2>2. Len(Read(data, i)) = i /\ \A j \in 1 .. i : Read(data, i)[j] = data[j]
    BY <2>1, Beginning DEF Read
  <2>3. Len(t) <= i => \A j \in 1 .. Len(t) : i - Len(t) + j \in 1 .. i BY <1>0
  <2> QED BY <2>2, <2>3 DEF EndsWith
<1>2. ASSUME NEW i \in 0 .. Len(data) - Len(t)
      PROVE  SubSeq(data, i + 1, i + Len(t)) = t <=> \A j \in 1 .. Len(t) : data[i + j] = t[j]
  <2> DEFINE u == SubSeq(data, i + 1, i + Len(t))
  <2>1. i + 1 \in Int /\ i + Len(t) \in Int /\ \A j \in i + 1 .. i + Len(t) : data[j] \in Letter
    BY <1>0, TextLen
  <2>2. /\ u \in Seq(Letter)
        /\ Len(u) = IF i + 1 <= i + Len(t) THEN (i + Len(t)) - (i + 1) + 1 ELSE 0
        /\ \A j \in 1 .. (i + Len(t)) - (i + 1) + 1 : u[j] = data[(i + 1) + j - 1]
    BY <2>1, SubSeqProperties
  <2>3. /\ (i + Len(t)) - (i + 1) + 1 = Len(t) /\ i + 1 <= i + Len(t)
        /\ \A j \in 1 .. Len(t) : (i + 1) + j - 1 = i + j
    BY <1>0
  <2>4. u \in Text /\ Len(u) = Len(t) /\ \A j \in 1 .. Len(t) : u[j] = data[i + j]
    BY <2>2, <2>3 DEF Text
  <2> HIDE DEF u
  <2>5. u = t <=> \A j \in 1 .. Len(t) : u[j] = t[j] BY <2>4, TextsEqual
  <2>6. u = t <=> \A j \in 1 .. Len(t) : data[i + j] = t[j] BY <2>4, <2>5
  <2> QED BY <2>6 DEF u
<1>3. ASSUME HasText(data, t) PROVE \E i \in 1 .. Len(data) : EndsWith(Read(data, i), t)
  <2>1. PICK i \in 0 .. Len(data) - Len(t) : SubSeq(data, i + 1, i + Len(t)) = t
    BY <1>3 DEF HasText
  <2>2. \A j \in 1 .. Len(t) : data[i + j] = t[j] BY <1>2, <2>1
  <2>3. i + Len(t) \in 1 .. Len(data) /\ (i + Len(t)) - Len(t) = i /\ Len(t) <= i + Len(t) BY <1>0
  <2> QED BY <1>1, <2>2, <2>3
<1>4. ASSUME NEW i \in 1 .. Len(data), EndsWith(Read(data, i), t) PROVE HasText(data, t)
  <2>1. Len(t) <= i /\ \A j \in 1 .. Len(t) : data[i - Len(t) + j] = t[j] BY <1>1, <1>4
  <2>2. i - Len(t) \in 0 .. Len(data) - Len(t) BY <1>0, <2>1
  <2> QED BY <1>2, <2>1, <2>2 DEF HasText
<1> QED BY <1>3, <1>4

(* search, the automaton of Aho and Corasick: what it reports of a payload *)
(* is every signature that the payload contains, and no other.             *)
THEOREM SearchIsExact ==
  \A data \in Text :
    search(data) = {s.id : s \in {s \in Signatures : HasText(data, s.text)}}
<1> SUFFICES ASSUME NEW data \in Text
             PROVE  search(data) = {s.id : s \in {s \in Signatures : HasText(data, s.text)}}
  OBVIOUS
<1>0. Len(data) \in Nat /\ DOMAIN data = 1 .. Len(data) BY TextLen
<1>1. PICK f : Reaches(f, data, Len(data)) /\ search(data) = UNION {outputs(f[i]) : i \in DOMAIN data}
  <2> DEFINE g == CHOOSE f : Reaches(f, data, Len(data))
  <2>1. Reaches(g, data, Len(data)) BY <1>0, ReachesExists
  <2>2. search(data) = UNION {outputs(g[i]) : i \in DOMAIN data} BY DEF search, Reaches
  <2> QED BY <2>1, <2>2
<1>2. ASSUME NEW i \in 1 .. Len(data), NEW s \in Signatures
      PROVE  (\E j \in DOMAIN FailLinks[f[i]] : FailLinks[f[i]][j] = s.text)
               <=> EndsWith(Read(data, i), s.text)
  <2> DEFINE walk == FailLinks[f[i]]
  <2>1. i \in 0 .. Len(data) BY <1>0
  <2>2. Longest(Read(data, i), f[i]) /\ Read(data, i) \in Text
    BY <1>1, <2>1, ReachesLongest, Beginning DEF Read
  <2>3. f[i] \in nodes_ /\ Lists(walk, f[i]) BY <2>2, FailLinksAreRight DEF Longest
  <2>4. Lists(walk, Read(data, i)) BY <2>2, <2>3, ListsFromLongest
  <2>5. s.text \in nodes_ BY NodesAreTexts
  <2> HIDE DEF walk
  <2>6. DOMAIN walk = 1 .. Len(walk) BY <2>4, LenProperties DEF Lists
  <2>7. (\E j \in DOMAIN walk : walk[j] = s.text) <=> EndsWith(Read(data, i), s.text)
    BY <2>4, <2>5, <2>6 DEF Lists
  <2> QED BY <2>7 DEF walk
<1>3. \A i \in 1 .. Len(data) :
        outputs(f[i]) = {s.id : s \in {s \in Signatures : EndsWith(Read(data, i), s.text)}}
  BY <1>2 DEF outputs
<1>4. \A s \in Signatures :
        HasText(data, s.text) <=> \E i \in 1 .. Len(data) : EndsWith(Read(data, i), s.text)
  <2> TAKE s \in Signatures
  <2>1. s.text \in Text /\ s.text # << >> BY SignatureAssumption, NodesAreTexts
  <2> QED BY <2>1, TextIsReadSomewhere
<1> DEFINE Found(i) == {s \in Signatures : EndsWith(Read(data, i), s.text)}
<1>5. search(data) = UNION {{s.id : s \in Found(i)} : i \in 1 .. Len(data)} BY <1>0, <1>1, <1>3
<1>6. {s \in Signatures : HasText(data, s.text)} = UNION {Found(i) : i \in 1 .. Len(data)} BY <1>4
<1> HIDE DEF Found
<1> QED BY <1>5, <1>6

-----------------------------------------------------------------------------
(*                              What a flow keeps                          *)

History == Seq(Event)

(* The packets of a history of one kind.                                   *)
Of(h, kind) == {i \in DOMAIN h : h[i].packet \in kind}
Syns == {p \in Packet : "SYN" \in p.flags}
Rsts == {p \in Packet : "RST" \in p.flags}
Bare == {p \in Packet : BareSYN(p)}

(* The counters are those of the flow's packets.                           *)
CountsFit(f, fl, h) ==
  /\ fl.total_packets = Len(h)
  /\ fl.syn_count = Cardinality(Of(h, Syns))
  /\ fl.rst_count = Cardinality(Of(h, Rsts))
  /\ fl.syn_no_ack = Cardinality(Of(h, Bare))
  /\ fl.dst_ports_seen \subseteq {f.dst_port}

(* The window began with the last of the packets that begin one, and its   *)
(* packets are counted since.                                              *)
Begins(S, h) ==
  \A i \in DOMAIN h : i \in S <=> \A j \in S : j < i => h[i].at - h[j].at > WINDOW

WindowFits(fl, h) ==
  IF h = << >> THEN fl.pkt_rate_window = 0
  ELSE \E S \in SUBSET DOMAIN h : \E m \in S :
         /\ Begins(S, h) /\ \A j \in S : j <= m
         /\ fl.window_start = h[m].at
         /\ fl.pkt_rate_window = Len(h) - m + 1

(* The parts of the request that the anomaly engine tracks.                *)
Begun(f, h)     == {i \in Judged(f, h) : BareSYN(h[i].packet)}
Requested(f, h) == {i \in Judged(f, h) : \A s \in Begun(f, h) : i > s}
Bytes(h, R)     == SumFunction([i \in R |-> Len(h[i].packet.payload)])

RequestFits(f, fl, h) ==
  /\ fl.http_start = IF Begun(f, h) = {} THEN 0 ELSE h[Max(Begun(f, h))].done
  /\ fl.http_bytes_received = Bytes(h, Requested(f, h))
  /\ fl.http_header_complete <=> \E i \in Requested(f, h) : HasHeaderEnd(h[i].packet)

VerdictFits == LET h == history[last.flow] IN h # << >> => last.result = TakenFor(last.flow, h)

FlowFits(f, fl, h) == /\ CountsFit(f, fl, h) /\ WindowFits(fl, h)
                      /\ IsHttp(f) => RequestFits(f, fl, h)

(* The readings of the clock are in order, and none is after t.            *)
Timely(h, t) == \A i \in DOMAIN h : /\ h[i].at <= h[i].done /\ h[i].done <= t
                                     /\ \A j \in DOMAIN h : i < j => h[i].at <= h[j].at

(* Only the history and the flow are looked at together: a flow is in the  *)
(* table once it had a packet, and keeps what its packets come to.         *)
FlowInv ==
  /\ TypeOK /\ Uptime <= now
  /\ DOMAIN flows = {f \in Flows : history[f] # << >>}
  /\ \A f \in Flows : Timely(history[f], now)
  /\ \A f \in DOMAIN flows : FlowFits(f, flows[f], history[f])
  /\ VerdictFits

-----------------------------------------------------------------------------
(*                           One packet more                               *)

LEMMA OneMore ==
  ASSUME NEW h \in History, NEW e \in Event
  PROVE  LET g == Append(h, e) n == Len(h) IN
         /\ n \in Nat /\ DOMAIN h = 1 .. n
         /\ g \in History /\ g # << >> /\ Len(g) = n + 1 /\ DOMAIN g = 1 .. n + 1
         /\ g[n + 1] = e /\ \A i \in 1 .. n : g[i] = h[i]
<1> DEFINE g == Append(h, e)
           n == Len(h)
<1>1. n \in Nat /\ DOMAIN h = 1 .. n BY LenProperties DEF History
<1>2. /\ g \in History /\ Len(g) = n + 1 /\ g[n + 1] = e /\ \A i \in 1 .. n : g[i] = h[i]
  BY <1>1, AppendProperties DEF History
<1> HIDE DEF g, n
<1>3. DOMAIN g = 1 .. n + 1 /\ g # << >> BY <1>1, <1>2, LenProperties, EmptySeq DEF History
<1> QED BY <1>1, <1>2, <1>3 DEF g, n

LEMMA OfOneMore ==
  ASSUME NEW h \in History, NEW e \in Event, NEW kind
  PROVE  /\ Cardinality(Of(h, kind)) \in Nat
         /\ Cardinality(Of(Append(h, e), kind))
              = Cardinality(Of(h, kind)) + Bit(e.packet \in kind)
<1> DEFINE g == Append(h, e)
           n == Len(h)
<1>1. /\ n \in Nat /\ DOMAIN h = 1 .. n /\ DOMAIN g = 1 .. n + 1
      /\ g[n + 1] = e /\ \A i \in 1 .. n : g[i] = h[i] BY OneMore
<1> HIDE DEF g, n
<1>2. Of(h, kind) \subseteq 1 .. n BY <1>1 DEF Of
<1>3. IsFiniteSet(Of(h, kind))
  <2>1. IsFiniteSet(1 .. n) BY <1>1, FS_Interval
  <2> QED BY <1>2, <2>1, FS_Subset
<1>4. Cardinality(Of(h, kind)) \in Nat BY <1>3, FS_CardinalityType
<1>5. Of(g, kind) = IF e.packet \in kind THEN Of(h, kind) \union {n + 1} ELSE Of(h, kind)
  <2>1. \A i : i \in 1 .. n + 1 <=> i \in 1 .. n \/ i = n + 1 BY <1>1
  <2> QED BY <1>1, <2>1 DEF Of
<1>6. n + 1 \notin Of(h, kind) BY <1>1, <1>2
<1>7. CASE e.packet \in kind
  <2>1. Cardinality(Of(g, kind)) = Cardinality(Of(h, kind)) + 1
    BY <1>3, <1>5, <1>6, <1>7, FS_AddElement
  <2> QED BY <1>4, <1>7, <2>1 DEF g, Bit
<1>8. CASE e.packet \notin kind BY <1>4, <1>5, <1>8 DEF g, Bit
<1> QED BY <1>4, <1>7, <1>8

LEMMA FlowStateFields ==
  ASSUME NEW fl \in FlowState
  PROVE  /\ fl.total_packets \in Nat /\ fl.syn_count \in Nat /\ fl.rst_count \in Nat
         /\ fl.pkt_rate_window \in Nat /\ fl.window_start \in Nat /\ fl.syn_no_ack \in Nat
         /\ fl.dst_ports_seen \in SUBSET Ports /\ fl.http_start \in Nat
         /\ fl.http_bytes_received \in Nat /\ fl.http_header_complete \in BOOLEAN
BY DEF FlowState

LEMMA CountedFields ==
  ASSUME NEW fl \in FlowState, NEW p, NEW t \in Nat
  PROVE  LET c == Counted(fl, p, t) expired == t - fl.window_start > WINDOW IN
         /\ c \in FlowState
         /\ c.total_packets = fl.total_packets + 1
         /\ c.syn_count = fl.syn_count + Bit("SYN" \in p.flags)
         /\ c.rst_count = fl.rst_count + Bit("RST" \in p.flags)
         /\ c.syn_no_ack = fl.syn_no_ack + Bit(BareSYN(p))
         /\ c.window_start = IF expired THEN t ELSE fl.window_start
         /\ c.pkt_rate_window = 1 + IF expired THEN 0 ELSE fl.pkt_rate_window
         /\ c.dst_ports_seen = fl.dst_ports_seen /\ c.http_start = fl.http_start
         /\ c.http_bytes_received = fl.http_bytes_received
         /\ c.http_header_complete = fl.http_header_complete
<1> DEFINE expired == t - fl.window_start > WINDOW
           total == fl.total_packets + 1
           syn == fl.syn_count + Bit("SYN" \in p.flags)
           rst == fl.rst_count + Bit("RST" \in p.flags)
           bare == fl.syn_no_ack + Bit(BareSYN(p))
           start == IF expired THEN t ELSE fl.window_start
           rate == 1 + IF expired THEN 0 ELSE fl.pkt_rate_window
           c == Counted(fl, p, t)
<1>1. c = [fl EXCEPT !.total_packets = total, !.syn_count = syn, !.rst_count = rst,
                     !.syn_no_ack = bare, !.window_start = start, !.pkt_rate_window = rate]
  BY DEF Counted
<1>2. Bit("SYN" \in p.flags) \in Nat /\ Bit("RST" \in p.flags) \in Nat /\ Bit(BareSYN(p)) \in Nat
  BY DEF Bit
<1>3. /\ total \in Nat /\ syn \in Nat /\ rst \in Nat /\ bare \in Nat
      /\ start \in Nat /\ rate \in Nat
  BY <1>2, FlowStateFields
<1> HIDE DEF total, syn, rst, bare, start, rate, c
<1>4. c \in FlowState BY <1>1, <1>3 DEF FlowState
<1>5. /\ c.total_packets = total /\ c.syn_count = syn /\ c.rst_count = rst
      /\ c.syn_no_ack = bare /\ c.window_start = start /\ c.pkt_rate_window = rate
  BY <1>1 DEF FlowState
<1>6. /\ c.dst_ports_seen = fl.dst_ports_seen /\ c.http_start = fl.http_start
      /\ c.http_bytes_received = fl.http_bytes_received
      /\ c.http_header_complete = fl.http_header_complete
  BY <1>1 DEF FlowState
<1> QED BY <1>4, <1>5, <1>6 DEF total, syn, rst, bare, start, rate, c

LEMMA CountedCounts ==
  ASSUME NEW f \in Flows, NEW fl \in FlowState, NEW h \in History, CountsFit(f, fl, h),
         NEW e \in Event
  PROVE  CountsFit(f, Counted(fl, e.packet, e.at), Append(h, e))
<1> DEFINE p == e.packet
           c == Counted(fl, p, e.at)
           g == Append(h, e)
<1>1. p \in Packet /\ e.at \in Nat BY DEF Event
<1>2. /\ c.total_packets = fl.total_packets + 1
      /\ c.syn_count = fl.syn_count + Bit("SYN" \in p.flags)
      /\ c.rst_count = fl.rst_count + Bit("RST" \in p.flags)
      /\ c.syn_no_ack = fl.syn_no_ack + Bit(BareSYN(p))
      /\ c.dst_ports_seen = fl.dst_ports_seen
  BY <1>1, CountedFields
<1>3. /\ p \in Syns <=> "SYN" \in p.flags
      /\ p \in Rsts <=> "RST" \in p.flags
      /\ p \in Bare <=> BareSYN(p)
  BY <1>1 DEF Syns, Rsts, Bare
<1>4. Len(g) = Len(h) + 1 BY OneMore
<1>5. /\ Cardinality(Of(g, Syns)) = Cardinality(Of(h, Syns)) + Bit(p \in Syns)
      /\ Cardinality(Of(g, Rsts)) = Cardinality(Of(h, Rsts)) + Bit(p \in Rsts)
      /\ Cardinality(Of(g, Bare)) = Cardinality(Of(h, Bare)) + Bit(p \in Bare)
  BY OfOneMore
<1> HIDE DEF p, c, g
<1>6. CountsFit(f, c, g) BY <1>2, <1>3, <1>4, <1>5 DEF CountsFit, Bit
<1> QED BY <1>6 DEF p, c, g

(* Counted, when the window of the packet rate goes on or begins anew.     *)
LEMMA CountedWindow ==
  ASSUME NEW fl \in FlowState, NEW h \in History, NEW e \in Event,
         WindowFits(fl, h), Timely(h, e.at), h = << >> => fl.window_start = e.at
  PROVE  WindowFits(Counted(fl, e.packet, e.at), Append(h, e))
<1> DEFINE c == Counted(fl, e.packet, e.at)
           g == Append(h, e)
           n == Len(h)
           expired == e.at - fl.window_start > WINDOW
<1>1. /\ n \in Nat /\ DOMAIN h = 1 .. n /\ DOMAIN g = 1 .. n + 1 /\ Len(g) = n + 1 /\ g # << >>
      /\ g[n + 1] = e /\ \A i \in 1 .. n : g[i] = h[i] BY OneMore
<1>2. /\ c.window_start = IF expired THEN e.at ELSE fl.window_start
      /\ c.pkt_rate_window = 1 + IF expired THEN 0 ELSE fl.pkt_rate_window
  <2>1. e.at \in Nat BY DEF Event
  <2> QED BY <2>1, CountedFields
<1>3. /\ e.at \in Nat /\ fl.window_start \in Nat /\ fl.pkt_rate_window \in Nat /\ WINDOW \in Nat
      /\ \A i \in 1 .. n : h[i].at \in Nat /\ h[i].done \in Nat
  <2>1. \A i \in 1 .. n : h[i] \in Event BY ElementOfSeq DEF History
  <2>2. fl.window_start \in Nat /\ fl.pkt_rate_window \in Nat BY FlowStateFields
  <2>3. WINDOW \in Nat BY FlowRulesAssumption
  <2> QED BY <2>1, <2>2, <2>3 DEF Event
<1>4. \A i \in 1 .. n : h[i].at <= e.at BY <1>1, <1>3 DEF Timely
<1>5. \A i : i \in 1 .. n + 1 <=> i \in 1 .. n \/ i = n + 1 BY <1>1
<1> HIDE DEF c, g
<1>6. CASE h = << >>
  <2>1. n = 0 /\ ~expired BY <1>3, <1>6
  <2>2. fl.pkt_rate_window = 0 BY <1>6 DEF WindowFits
  <2>3. c.window_start = g[1].at /\ c.pkt_rate_window = 1 BY <1>1, <1>2, <1>6, <2>1, <2>2
  <2>4. DOMAIN g = {1} /\ Len(g) - 1 + 1 = 1 BY <1>1, <2>1
  <2>5. {1} \in SUBSET DOMAIN g /\ 1 \in {1} /\ Begins({1}, g) /\ \A j \in {1} : j <= 1
    BY <2>4 DEF Begins
  <2>6. WindowFits(c, g) BY <1>1, <2>3, <2>4, <2>5 DEF WindowFits
  <2> QED BY <2>6 DEF c, g
<1>7. CASE h # << >>
  <2>0. PICK S \in SUBSET DOMAIN h : \E m \in S :
          /\ Begins(S, h) /\ \A j \in S : j <= m
          /\ fl.window_start = h[m].at /\ fl.pkt_rate_window = n - m + 1
    BY <1>7 DEF WindowFits
  <2>1. PICK m \in S : /\ Begins(S, h) /\ \A j \in S : j <= m
                      /\ fl.window_start = h[m].at /\ fl.pkt_rate_window = n - m + 1
    BY <2>0
  <2>2. m \in 1 .. n /\ S \subseteq 1 .. n BY <1>1, <2>1
  <2>3. \A j \in S : h[j].at <= h[m].at
    <3> TAKE j \in S
    <3>1. j \in 1 .. n /\ j <= m BY <2>1, <2>2
    <3>2. CASE j = m BY <1>3, <2>2, <3>2
    <3>3. CASE j < m BY <1>1, <2>2, <3>1, <3>3 DEF Timely
    <3> QED BY <2>2, <3>1, <3>2, <3>3
  <2>4. \A i \in 1 .. n : i \in S <=> \A j \in S : j < i => g[i].at - g[j].at > WINDOW
    BY <1>1, <2>1, <2>2 DEF Begins
  <2>5. CASE expired
    <3> DEFINE T == S \union {n + 1}
    <3>1. T \in SUBSET DOMAIN g /\ n + 1 \in T /\ \A j \in T : j <= n + 1 BY <1>1, <1>5, <2>2
    <3>2. \A j \in S : g[n + 1].at - g[j].at > WINDOW
      BY <1>1, <1>3, <2>1, <2>2, <2>3, <2>5
    <3>3. \A i \in 1 .. n : (i \in T <=> i \in S) /\ \A j \in T : j < i => j \in S BY <1>1
    <3>4. Begins(T, g)
      <4>1. \A j \in T : j < n + 1 => j \in S BY <1>1
      <4>2. n + 1 \in T /\ \A j \in T : j < n + 1 => g[n + 1].at - g[j].at > WINDOW
        BY <3>2, <4>1
      <4>3. \A i \in 1 .. n : i \in T <=> \A j \in T : j < i => g[i].at - g[j].at > WINDOW
        BY <2>4, <3>3
      <4> HIDE DEF T
      <4> QED BY <1>1, <1>5, <4>2, <4>3 DEF Begins
    <3>5. c.window_start = g[n + 1].at /\ c.pkt_rate_window = Len(g) - (n + 1) + 1
      BY <1>1, <1>2, <2>5
    <3> HIDE DEF T
    <3>6. WindowFits(c, g) BY <1>1, <3>1, <3>4, <3>5 DEF WindowFits
    <3> QED BY <3>6 DEF c, g
  <2>6. CASE ~expired
    <3>1. S \in SUBSET DOMAIN g BY <1>1, <1>5, <2>2
    <3>2. n + 1 \notin S /\ m < n + 1 /\ ~(g[n + 1].at - g[m].at > WINDOW)
      BY <1>1, <2>1, <2>2, <2>6
    <3>3. Begins(S, g) BY <1>1, <1>5, <2>4, <3>2 DEF Begins
    <3>4. c.window_start = g[m].at /\ c.pkt_rate_window = Len(g) - m + 1
      BY <1>1, <1>2, <2>1, <2>2, <2>6
    <3>5. WindowFits(c, g) BY <1>1, <2>1, <3>1, <3>3, <3>4 DEF WindowFits
    <3> QED BY <3>5 DEF c, g
  <2> QED BY <2>5, <2>6
<1> QED BY <1>6, <1>7

-----------------------------------------------------------------------------
(*                     The rules see what the packets say                  *)

(* Which packets begin a window is determined from the first one on.       *)
LEMMA WindowStartsAre ==
  ASSUME NEW h \in History, NEW S \in SUBSET DOMAIN h, Begins(S, h)
  PROVE  WindowStarts(h) = S
<1>0. DOMAIN h = 1 .. Len(h) /\ Len(h) \in Nat BY LenProperties DEF History
<1>1. ASSUME NEW T \in SUBSET DOMAIN h, Begins(T, h) PROVE T = S
  <2> DEFINE Agree == {k \in Nat : \A i \in 1 .. Len(h) : i <= k => (i \in S <=> i \in T)}
  <2>1. 0 \in Agree OBVIOUS
  <2>2. ASSUME NEW k \in Nat, k \in Agree PROVE k + 1 \in Agree
    <3> SUFFICES ASSUME k + 1 \in 1 .. Len(h) PROVE k + 1 \in S <=> k + 1 \in T
      BY <1>0, <2>2
    <3>1. \A j : (j \in S /\ j < k + 1) <=> (j \in T /\ j < k + 1)
      <4> TAKE j
      <4>1. j \in S => j \in 1 .. Len(h) BY <1>0
      <4>2. j \in T => j \in 1 .. Len(h) BY <1>0
      <4>3. j \in 1 .. Len(h) /\ j < k + 1 => j <= k BY <1>0
      <4> QED BY <2>2, <4>1, <4>2, <4>3
    <3>2. k + 1 \in S <=> \A j \in S : j < k + 1 => h[k + 1].at - h[j].at > WINDOW
      BY <1>0 DEF Begins
    <3>3. k + 1 \in T <=> \A j \in T : j < k + 1 => h[k + 1].at - h[j].at > WINDOW
      BY <1>0, <1>1 DEF Begins
    <3> QED BY <3>1, <3>2, <3>3
  <2>3. Nat \subseteq Agree
    <3> HIDE DEF Agree
    <3> QED BY <2>1, <2>2, NatsFromZero
  <2>4. \A i \in 1 .. Len(h) : i \in S <=> i \in T BY <1>0, <2>3
  <2> QED BY <1>0, <2>4
<1>2. WindowStarts(h) = CHOOSE T \in SUBSET DOMAIN h : Begins(T, h) BY DEF WindowStarts, Begins
<1> QED BY <1>1, <1>2

LEMMA KindsOf ==
  ASSUME NEW h \in History
  PROVE  /\ Indices(h, BareSYN) = Of(h, Bare)
         /\ Indices(h, LAMBDA p : "SYN" \in p.flags) = Of(h, Syns)
         /\ Indices(h, LAMBDA p : "RST" \in p.flags) = Of(h, Rsts)
<1>1. DOMAIN h = 1 .. Len(h) BY LenProperties DEF History
<1>2. \A i \in DOMAIN h : h[i].packet \in Packet
  <2>1. \A i \in DOMAIN h : h[i] \in Event BY <1>1, ElementOfSeq DEF History
  <2> QED BY <2>1 DEF Event
<1>3. {i \in DOMAIN h : BareSYN(h[i].packet)} = Of(h, Bare) BY <1>2 DEF Of, Bare
<1>4. {i \in DOMAIN h : "SYN" \in h[i].packet.flags} = Of(h, Syns) BY <1>2 DEF Of, Syns
<1>5. {i \in DOMAIN h : "RST" \in h[i].packet.flags} = Of(h, Rsts) BY <1>2 DEF Of, Rsts
<1> QED BY <1>3, <1>4, <1>5 DEF Indices

LEMMA WindowIs ==
  ASSUME NEW fl, NEW h \in History, h # << >>, WindowFits(fl, h)
  PROVE  LET m == Max(WindowStarts(h)) IN
         /\ m \in 1 .. Len(h)
         /\ fl.window_start = h[m].at /\ fl.pkt_rate_window = Len(h) - m + 1
<1>0. PICK S \in SUBSET DOMAIN h : \E m \in S :
        /\ Begins(S, h) /\ \A j \in S : j <= m
        /\ fl.window_start = h[m].at /\ fl.pkt_rate_window = Len(h) - m + 1
  BY DEF WindowFits
<1>1. PICK m \in S : /\ Begins(S, h) /\ \A j \in S : j <= m
                    /\ fl.window_start = h[m].at /\ fl.pkt_rate_window = Len(h) - m + 1
  BY <1>0
<1>2. DOMAIN h = 1 .. Len(h) /\ Len(h) \in Nat BY LenProperties DEF History
<1>3. Max(WindowStarts(h)) = m
  <2>1. S \subseteq Int /\ \A x \in S : m >= x BY <1>1, <1>2
  <2> QED BY <1>1, <2>1, WindowStartsAre, MaxBounds
<1> QED BY <1>1, <1>2, <1>3

LEMMA RateFits ==
  ASSUME NEW fl, NEW h \in History, h # << >>, WindowFits(fl, h)
  PROVE  packetRateExceeds(fl, h[Len(h)].done) <=> FastSinceWindow(h)
<1> DEFINE m == Max(WindowStarts(h))
<1>1. m \in 1 .. Len(h) /\ fl.window_start = h[m].at /\ fl.pkt_rate_window = Len(h) - m + 1
  BY WindowIs
<1>2. DOMAIN h = 1 .. Len(h) /\ Len(h) \in Nat \ {0}
  BY LenProperties, EmptySeq DEF History
<1> DEFINE done == h[Len(h)].done
           at == h[m].at
           count == (Len(h) - m + 1) * Second
           time == done - at
<1>3. done \in Int /\ at \in Int
  <2>1. Len(h) \in 1 .. Len(h) BY <1>2
  <2>2. h[m] \in Event /\ h[Len(h)] \in Event BY <1>1, <2>1, ElementOfSeq DEF History
  <2> QED BY <2>2 DEF Event
<1>4. packetRateExceeds(fl, done) <=> done > at /\ count > UDP_RATE_THRESHOLD * time
  BY <1>1 DEF packetRateExceeds
<1>5. FastSinceWindow(h) <=> time > 0 /\ count > UDP_RATE_THRESHOLD * time
  BY DEF FastSinceWindow
<1> HIDE DEF count
<1>6. done > at <=> time > 0 BY <1>3
<1> HIDE DEF done, time, at
<1> QED BY <1>4, <1>5, <1>6 DEF done

LEMMA FloodFits ==
  ASSUME NEW f, NEW fl, NEW h \in History, h # << >>,
         CountsFit(f, fl, h), WindowFits(fl, h)
  PROVE  IsDDoS(f, h[Len(h)].packet, fl, h[Len(h)].done) <=> TakenForFlood(f, h)
<1>1. fl.syn_no_ack = Cardinality(Indices(h, BareSYN)) BY KindsOf DEF CountsFit
<1>2. packetRateExceeds(fl, h[Len(h)].done) <=> FastSinceWindow(h) BY RateFits
<1> QED BY <1>1, <1>2 DEF IsDDoS, TakenForFlood, ManyBareSYNs

LEMMA ScanFits ==
  ASSUME NEW f \in Flows, NEW fl \in FlowState, NEW h \in History, h # << >>,
         CountsFit(f, fl, h)
  PROVE  IsPortScan(f, h[Len(h)].packet, fl) <=> TakenForScan(f, h)
<1>1. ~(Cardinality(fl.dst_ports_seen) > PORT_SCAN_THRESHOLD)
  <2>1. fl.dst_ports_seen = {} \/ fl.dst_ports_seen = {f.dst_port} BY DEF CountsFit
  <2>2. Cardinality(fl.dst_ports_seen) \in {0, 1} BY <2>1, FS_EmptySet, FS_Singleton
  <2>3. PORT_SCAN_THRESHOLD \in Nat \ {0} BY FlowRulesAssumption
  <2> QED BY <2>2, <2>3
<1>2. /\ fl.syn_count = Cardinality(Indices(h, LAMBDA p : "SYN" \in p.flags))
      /\ fl.rst_count = Cardinality(Indices(h, LAMBDA p : "RST" \in p.flags))
  BY KindsOf DEF CountsFit
<1> QED BY <1>1, <1>2 DEF IsPortScan, TakenForScan

LEMMA SignatureFits ==
  ASSUME NEW p \in Packet
  PROVE  IsSlowloris(p) <=> HasSignature(p, "SIG_SLOWLORIS")
<1>1. p.payload \in Text BY DEF Packet, Text, Letter
<1>2. search(p.payload) = {s.id : s \in {s \in Signatures : HasText(p.payload, s.text)}}
  BY <1>1, SearchIsExact
<1> QED BY <1>2 DEF IsSlowloris, HasSignature

-----------------------------------------------------------------------------
(*                       The request that is tracked                       *)

LEMMA JudgedOneMore ==
  ASSUME NEW f, NEW h \in History, NEW e \in Event
  PROVE  LET g == Append(h, e) n == Len(h) IN
         Judged(f, g) = IF Suspicious(f, g) THEN Judged(f, h) ELSE Judged(f, h) \union {n + 1}
<1> DEFINE g == Append(h, e)
           n == Len(h)
<1>1. /\ n \in Nat /\ g \in History /\ Len(g) = n + 1
      /\ \A i \in 1 .. n : g[i] = h[i] BY OneMore
<1>2. \A i : i \in 1 .. n + 1 <=> i \in 1 .. n \/ i = n + 1 BY <1>1
<1>3. SubSeq(g, 1, n + 1) = g BY <1>1, SubSeqFull DEF History
<1>4. ASSUME NEW i \in 1 .. n PROVE SubSeq(g, 1, i) = SubSeq(h, 1, i)
  <2>1. <<e>> \in History /\ g = h \o <<e>> BY DEF History
  <2>2. 1 \in 1 .. Len(h) /\ i \in 1 .. Len(h) BY <1>1
  <2> HIDE DEF g
  <2> QED BY <2>1, <2>2, SubSeqOfConcat1 DEF History
<1> HIDE DEF g, n
<1>5. \A i : i \in Judged(f, g) <=> (i \in Judged(f, h) \/ (i = n + 1 /\ ~Suspicious(f, g)))
  BY <1>1, <1>2, <1>3, <1>4 DEF Judged, n
<1> QED BY <1>5 DEF g, n

LEMMA TrackedFields ==
  ASSUME NEW fl \in FlowState, NEW p \in Packet, NEW t \in Nat
  PROVE  LET k == TracksHttp(p, fl, t) IN
         /\ k \in FlowState
         /\ k.total_packets = fl.total_packets /\ k.syn_count = fl.syn_count
         /\ k.rst_count = fl.rst_count /\ k.pkt_rate_window = fl.pkt_rate_window
         /\ k.window_start = fl.window_start /\ k.syn_no_ack = fl.syn_no_ack
         /\ k.dst_ports_seen = fl.dst_ports_seen
         /\ k.http_start = IF BareSYN(p) THEN t ELSE fl.http_start
         /\ k.http_bytes_received = IF BareSYN(p) THEN 0 ELSE fl.http_bytes_received + Len(p.payload)
         /\ k.http_header_complete = IF BareSYN(p) THEN FALSE
                                     ELSE fl.http_header_complete \/ HasHeaderEnd(p)
<1> DEFINE start == IF BareSYN(p) THEN t ELSE fl.http_start
           bytes == IF BareSYN(p) THEN 0 ELSE fl.http_bytes_received + Len(p.payload)
           complete == IF BareSYN(p) THEN FALSE ELSE fl.http_header_complete \/ HasHeaderEnd(p)
           k == TracksHttp(p, fl, t)
           with == [fl EXCEPT !.http_start = start, !.http_bytes_received = bytes,
                              !.http_header_complete = complete]
<1>1. Len(p.payload) \in Nat BY DEF Packet
<1>2. start \in Nat /\ bytes \in Nat BY <1>1, FlowStateFields
<1>3. complete \in BOOLEAN
  <2>1. fl.http_header_complete \in BOOLEAN BY FlowStateFields
  <2>2. HasHeaderEnd(p) \in BOOLEAN BY DEF HasHeaderEnd, HasText
  <2> HIDE DEF k
  <2> QED BY <2>1, <2>2
<1>4. k = with
  <2>1. CASE BareSYN(p) BY <2>1 DEF TracksHttp
  <2>2. CASE ~BareSYN(p)
    <3>1. k = [fl EXCEPT !.http_bytes_received = bytes, !.http_header_complete = complete]
      BY <2>2 DEF TracksHttp
    <3>2. start = fl.http_start BY <2>2
    <3> HIDE DEF start, bytes, complete, k
    <3> QED BY <3>1, <3>2 DEF FlowState
  <2> QED BY <2>1, <2>2
<1> HIDE DEF start, bytes, complete, k
<1>5. k \in FlowState BY <1>2, <1>3, <1>4 DEF FlowState
<1>6. k.http_start = start /\ k.http_bytes_received = bytes /\ k.http_header_complete = complete
  BY <1>4 DEF FlowState
<1>7. /\ k.total_packets = fl.total_packets /\ k.syn_count = fl.syn_count
      /\ k.rst_count = fl.rst_count /\ k.pkt_rate_window = fl.pkt_rate_window
      /\ k.window_start = fl.window_start /\ k.syn_no_ack = fl.syn_no_ack
      /\ k.dst_ports_seen = fl.dst_ports_seen
  BY <1>4 DEF FlowState
<1> QED BY <1>5, <1>6, <1>7 DEF start, bytes, complete, k

\* What HTTP tracking leaves alone, whatever the packet: the counters, the
\* window and the port set; the request clock is kept or restarted now.
LEMMA TrackedKeeps ==
  ASSUME NEW fl \in FlowState, NEW p \in Packet, NEW t \in Nat
  PROVE  LET k == TracksHttp(p, fl, t) IN
         /\ k \in FlowState /\ k.window_start = fl.window_start
         /\ k.http_start \in {fl.http_start, t}
         /\ k.total_packets = fl.total_packets /\ k.syn_count = fl.syn_count
         /\ k.rst_count = fl.rst_count /\ k.syn_no_ack = fl.syn_no_ack
         /\ k.pkt_rate_window = fl.pkt_rate_window
         /\ k.dst_ports_seen = fl.dst_ports_seen
<1> DEFINE k == TracksHttp(p, fl, t)
<1>1. k.http_start = IF BareSYN(p) THEN t ELSE fl.http_start BY TrackedFields
<1>2. k.http_start \in {fl.http_start, t} BY <1>1
<1> QED BY <1>2, TrackedFields

LEMMA BytesOneMore ==
  ASSUME NEW h \in History, NEW e \in Event, NEW R \in SUBSET (1 .. Len(h))
  PROVE  LET g == Append(h, e) n == Len(h) IN
         /\ Bytes(h, R) \in Int
         /\ Bytes(g, R) = Bytes(h, R)
         /\ Bytes(g, R \union {n + 1}) = Bytes(h, R) + Len(e.packet.payload)
<1> DEFINE g == Append(h, e)
           n == Len(h)
           v == [i \in R |-> Len(h[i].packet.payload)]
           u == [i \in R |-> Len(g[i].packet.payload)]
           w == [i \in R \union {n + 1} |-> Len(g[i].packet.payload)]
<1>1. /\ n \in Nat /\ DOMAIN g = 1 .. n + 1 /\ Len(g) = n + 1 /\ g \in History
      /\ g[n + 1] = e /\ \A i \in 1 .. n : g[i] = h[i] BY OneMore
<1>2. \A i \in 1 .. n + 1 : Len(g[i].packet.payload) \in Int
  <2> HIDE DEF g
  <2> TAKE i \in 1 .. n + 1
  <2>1. g[i] \in Event BY <1>1, ElementOfSeq DEF History
  <2> QED BY <2>1 DEF Event, Packet
<1>3. IsFiniteSet(R)
  <2>1. IsFiniteSet(1 .. n) BY <1>1, FS_Interval
  <2> QED BY <2>1, FS_Subset
<1>4. IsFiniteSet(R \union {n + 1}) BY <1>3, FS_AddElement
<1>5. Bytes(h, R) = SumFunctionOnSet(v, R) /\ Bytes(g, R) = SumFunctionOnSet(u, R)
      /\ Bytes(g, R \union {n + 1}) = SumFunctionOnSet(w, R \union {n + 1})
  BY DEF Bytes, SumFunction
<1> HIDE DEF g
<1>6. \A i \in R : u[i] = v[i] /\ w[i] = v[i] /\ v[i] \in Int
  <2>1. \A i \in R : g[i] = h[i] /\ Len(g[i].packet.payload) \in Int /\ i \in R \union {n + 1}
    BY <1>1, <1>2
  <2> QED BY <2>1
<1>7. w[n + 1] = Len(e.packet.payload) /\ w[n + 1] \in Int /\ n + 1 \notin R
      /\ n + 1 \in R \union {n + 1}
  BY <1>1, <1>2
<1> HIDE DEF u, v, w, n
<1>8. SumFunctionOnSet(v, R) \in Int BY <1>3, <1>6, SumIsInt
<1>9. SumFunctionOnSet(u, R) = SumFunctionOnSet(v, R) BY <1>6, SumAlike
<1>10. SumFunctionOnSet(w, R) = SumFunctionOnSet(v, R) BY <1>6, SumAlike
<1>11. (R \union {n + 1}) \ {n + 1} = R BY <1>7
<1>12. SumFunctionOnSet(w, R \union {n + 1}) = w[n + 1] + SumFunctionOnSet(w, R)
  <2> DEFINE Q == R \union {n + 1}
  <2>1. n + 1 \in Q /\ Q \ {n + 1} = R /\ IsFiniteSet(Q) /\ \A i \in Q : w[i] \in Int
    BY <1>4, <1>6, <1>7, <1>11
  <2> HIDE DEF Q
  <2>2. SumFunctionOnSet(w, Q) = w[n + 1] + SumFunctionOnSet(w, Q \ {n + 1}) BY <2>1, SumWithout
  <2> QED BY <2>1, <2>2 DEF Q
<1>13. /\ Bytes(h, R) \in Int /\ Bytes(g, R) = Bytes(h, R)
       /\ Bytes(g, R \union {n + 1}) = Bytes(h, R) + Len(e.packet.payload)
  BY <1>5, <1>7, <1>8, <1>9, <1>10, <1>12
<1> QED BY <1>13 DEF g, n

(* A packet that the anomaly engine does not get to see changes nothing.   *)
LEMMA UnjudgedKeeps ==
  ASSUME NEW f, NEW h \in History, NEW e \in Event, Suspicious(f, Append(h, e)),
         NEW fl, RequestFits(f, fl, h)
  PROVE  RequestFits(f, fl, Append(h, e))
<1> DEFINE g == Append(h, e)
           n == Len(h)
<1>1. n \in Nat /\ \A i \in 1 .. n : g[i] = h[i] BY OneMore
<1>2. Judged(f, g) = Judged(f, h) /\ Judged(f, h) \subseteq 1 .. n
  BY JudgedOneMore DEF Judged
<1>3. Bytes(g, Requested(f, h)) = Bytes(h, Requested(f, h))
  <2>1. Requested(f, h) \subseteq 1 .. Len(h) BY <1>2 DEF Requested
  <2> QED BY <2>1, BytesOneMore
<1> HIDE DEF g, n
<1>4. Begun(f, g) = Begun(f, h) BY <1>1, <1>2 DEF Begun
<1>5. Requested(f, g) = Requested(f, h) BY <1>2, <1>4 DEF Requested
<1>6. Begun(f, h) # {} => Max(Begun(f, h)) \in 1 .. n
  <2>1. Begun(f, h) \subseteq 1 .. n BY <1>2 DEF Begun
  <2>2. Begun(f, h) \subseteq Nat /\ \A x \in Begun(f, h) : x <= n BY <1>1, <2>1
  <2> QED BY <1>1, <2>1, <2>2, MaxIsGreatest
<1>7. \A i \in Requested(f, h) : g[i] = h[i] BY <1>1, <1>2 DEF Requested
<1>8. RequestFits(f, fl, g) BY <1>1, <1>3, <1>4, <1>5, <1>6, <1>7 DEF RequestFits
<1> QED BY <1>8 DEF g

(* One that it sees begins a request or adds to one.                       *)
LEMMA JudgedTracks ==
  ASSUME NEW f, NEW h \in History, NEW e \in Event, ~Suspicious(f, Append(h, e)),
         NEW fl \in FlowState, RequestFits(f, fl, h)
  PROVE  RequestFits(f, TracksHttp(e.packet, fl, e.done), Append(h, e))
<1> DEFINE g == Append(h, e)
           n == Len(h)
           p == e.packet
           k == TracksHttp(p, fl, e.done)
<1>1. n \in Nat /\ g[n + 1] = e /\ \A i \in 1 .. n : g[i] = h[i] BY OneMore
<1>2. Judged(f, g) = Judged(f, h) \union {n + 1} /\ Judged(f, h) \subseteq 1 .. n
  BY JudgedOneMore DEF Judged
<1>3. /\ k.http_start = IF BareSYN(p) THEN e.done ELSE fl.http_start
      /\ k.http_bytes_received = IF BareSYN(p) THEN 0 ELSE fl.http_bytes_received + Len(p.payload)
      /\ k.http_header_complete = IF BareSYN(p) THEN FALSE
                                  ELSE fl.http_header_complete \/ HasHeaderEnd(p)
  <2>1. p \in Packet /\ e.done \in Nat BY DEF Event
  <2> QED BY <2>1, TrackedFields
<1>4. Requested(f, h) \subseteq 1 .. n BY <1>2 DEF Requested
<1>5. /\ Bytes(g, Requested(f, h) \union {n + 1}) = Bytes(h, Requested(f, h)) + Len(p.payload)
  BY <1>4, BytesOneMore
<1> HIDE DEF g, n, k
<1>6. CASE BareSYN(p)
  <2>1. Begun(f, g) = Begun(f, h) \union {n + 1} BY <1>1, <1>2, <1>6 DEF Begun
  <2>2. Begun(f, h) \subseteq 1 .. n BY <1>2 DEF Begun
  <2>3. Max(Begun(f, g)) = n + 1
    <3>1. Begun(f, g) \subseteq Int /\ n + 1 \in Begun(f, g) /\ \A x \in Begun(f, g) : n + 1 >= x
      BY <1>1, <2>1, <2>2
    <3> QED BY <3>1, MaxBounds
  <2>4. Requested(f, g) = {}
    <3>1. \A i \in Judged(f, g) : ~(i > n + 1) BY <1>1, <1>2
    <3> QED BY <2>1, <3>1 DEF Requested
  <2>5. Bytes(g, {}) = 0 BY EmptySum DEF Bytes, SumFunction
  <2>6. Begun(f, g) # {} BY <2>1
  <2>7. RequestFits(f, k, g) BY <1>1, <1>3, <1>6, <2>3, <2>4, <2>5, <2>6 DEF RequestFits
  <2> QED BY <2>7 DEF g, k
<1>7. CASE ~BareSYN(p)
  <2>1. Begun(f, g) = Begun(f, h) BY <1>1, <1>2, <1>7 DEF Begun
  <2>2. Begun(f, h) \subseteq 1 .. n BY <1>2 DEF Begun
  <2>3. Begun(f, h) # {} => Max(Begun(f, h)) \in 1 .. n
    <3>1. Begun(f, h) \subseteq Nat /\ \A x \in Begun(f, h) : x <= n BY <1>1, <2>2
    <3> QED BY <1>1, <2>2, <3>1, MaxIsGreatest
  <2>4. \A s \in Begun(f, h) : n + 1 > s BY <1>1, <2>2
  <2>5. Requested(f, g) = Requested(f, h) \union {n + 1} BY <1>2, <2>1, <2>4 DEF Requested
  <2>6. (\E i \in Requested(f, g) : HasHeaderEnd(g[i].packet))
          <=> (\E i \in Requested(f, h) : HasHeaderEnd(h[i].packet)) \/ HasHeaderEnd(p)
    BY <1>1, <1>4, <2>5
  <2>7. k.http_start = IF Begun(f, g) = {} THEN 0 ELSE g[Max(Begun(f, g))].done
    BY <1>1, <1>3, <1>7, <2>1, <2>3 DEF RequestFits
  <2>8. k.http_bytes_received = Bytes(g, Requested(f, g))
    BY <1>3, <1>5, <1>7, <2>5 DEF RequestFits
  <2>9. k.http_header_complete <=> \E i \in Requested(f, g) : HasHeaderEnd(g[i].packet)
    BY <1>3, <1>7, <2>6 DEF RequestFits
  <2>10. RequestFits(f, k, g) BY <2>7, <2>8, <2>9 DEF RequestFits
  <2> QED BY <2>10 DEF g, k
<1> QED BY <1>6, <1>7

(* The request is made of these parts.                                     *)
LEMMA RequestIs ==
  ASSUME NEW f, NEW h
  PROVE  /\ Request(f, h).packets = Requested(f, h)
         /\ Request(f, h).start = IF Begun(f, h) = {} THEN 0 ELSE h[Max(Begun(f, h))].done
         /\ Request(f, h).bytes = Bytes(h, Requested(f, h))
         /\ Request(f, h).complete = \E i \in Requested(f, h) : HasHeaderEnd(h[i].packet)
BY DEF Request, Requested, Begun, Bytes

LEMMA SlowFits ==
  ASSUME NEW f, NEW h \in History, h # << >>, ~Suspicious(f, h),
         NEW fl, RequestFits(f, fl, h), fl.total_packets = Len(h)
  PROVE  IsSlow(h[Len(h)].packet, fl, h[Len(h)].done) <=> TakenForSlow(f, h)
<1> DEFINE n == Len(h)
           p == h[n].packet
           time == h[n].done - IF Begun(f, h) = {} THEN 0 ELSE h[Max(Begun(f, h))].done
<1>1. n \in Nat \ {0} /\ SubSeq(h, 1, n) = h BY LenProperties, EmptySeq, SubSeqFull DEF History
<1>2. n \in Judged(f, h) /\ Judged(f, h) \subseteq 1 .. n
  <2>1. ~Suspicious(f, SubSeq(h, 1, n)) BY <1>1
  <2>2. n \in 1 .. n BY <1>1
  <2> HIDE DEF n
  <2> QED BY <2>1, <2>2 DEF Judged, n
<1>3. n \in Requested(f, h) <=> ~BareSYN(p)
  <2>1. CASE BareSYN(p)
    <3>1. n \in Begun(f, h) /\ ~(n > n) BY <1>1, <1>2, <2>1 DEF Begun
    <3> QED BY <2>1, <3>1 DEF Requested
  <2>2. CASE ~BareSYN(p)
    <3>1. \A s \in Begun(f, h) : s \in 1 .. n /\ s # n BY <1>2, <2>2 DEF Begun
    <3>2. \A s \in Begun(f, h) : n > s BY <1>1, <3>1
    <3> QED BY <1>2, <2>2, <3>2 DEF Requested
  <2> QED BY <2>1, <2>2
<1>4. TakenForSlow(f, h) <=>
        /\ n \in Requested(f, h)
        /\ \/ /\ time > HTTP_HEADER_TIMEOUT
              /\ \/ \A i \in Requested(f, h) : ~HasHeaderEnd(h[i].packet)
                 \/ Bytes(h, Requested(f, h)) < MIN_BYTES * time
           \/ p.win_zero /\ n > MinPackets
  <2> DEFINE request == Request(f, h)
  <2>1. /\ request.packets = Requested(f, h) /\ h[n].done - request.start = time
        /\ request.bytes = Bytes(h, Requested(f, h))
        /\ ~request.complete <=> \A i \in Requested(f, h) : ~HasHeaderEnd(h[i].packet)
    BY RequestIs
  <2>2. TakenForSlow(f, h) <=>
          /\ n \in request.packets
          /\ \/ /\ h[n].done - request.start > HTTP_HEADER_TIMEOUT
                /\ \/ ~request.complete
                   \/ request.bytes < MIN_BYTES * (h[n].done - request.start)
             \/ p.win_zero /\ n > MinPackets
    BY DEF TakenForSlow
  <2> HIDE DEF request, time, p, n
  <2> QED BY <2>1, <2>2
<1>5. IsSlow(p, fl, h[n].done) <=>
        /\ ~BareSYN(p)
        /\ \/ ~fl.http_header_complete /\ time > HTTP_HEADER_TIMEOUT
           \/ time > HTTP_HEADER_TIMEOUT /\ Bytes(h, Requested(f, h)) < MIN_BYTES * time
           \/ p.win_zero /\ n > MinPackets
  BY DEF IsSlow, RequestFits
<1>6. fl.http_header_complete <=> ~\A i \in Requested(f, h) : ~HasHeaderEnd(h[i].packet)
  BY DEF RequestFits
<1> HIDE DEF n, p, time
<1>7. IsSlow(p, fl, h[n].done) <=> TakenForSlow(f, h) BY <1>3, <1>4, <1>5, <1>6
<1> QED BY <1>7 DEF n, p

-----------------------------------------------------------------------------
(*                               The verdict                               *)

LEMMA SeesPortFields ==
  ASSUME NEW f \in Flows, NEW fl \in FlowState
  PROVE  LET s == SeesPort(f, fl) IN
         /\ s \in FlowState
         /\ s.total_packets = fl.total_packets /\ s.syn_count = fl.syn_count
         /\ s.rst_count = fl.rst_count /\ s.pkt_rate_window = fl.pkt_rate_window
         /\ s.window_start = fl.window_start /\ s.syn_no_ack = fl.syn_no_ack
         /\ s.dst_ports_seen = fl.dst_ports_seen \union {f.dst_port}
         /\ s.http_start = fl.http_start
         /\ s.http_bytes_received = fl.http_bytes_received
         /\ s.http_header_complete = fl.http_header_complete
<1> DEFINE ports == fl.dst_ports_seen \union {f.dst_port}
           s == SeesPort(f, fl)
<1>1. ports \in SUBSET Ports
  <2>1. f.dst_port \in Ports BY FlowRulesAssumption
  <2> QED BY <2>1, FlowStateFields
<1>2. s = [fl EXCEPT !.dst_ports_seen = ports] BY DEF SeesPort
<1> HIDE DEF ports, s
<1>3. s \in FlowState BY <1>1, <1>2 DEF FlowState
<1>4. /\ s.total_packets = fl.total_packets /\ s.syn_count = fl.syn_count
      /\ s.rst_count = fl.rst_count /\ s.pkt_rate_window = fl.pkt_rate_window
      /\ s.window_start = fl.window_start /\ s.syn_no_ack = fl.syn_no_ack
      /\ s.dst_ports_seen = ports
      /\ s.http_start = fl.http_start
      /\ s.http_bytes_received = fl.http_bytes_received
      /\ s.http_header_complete = fl.http_header_complete
  BY <1>2 DEF FlowState
<1> QED BY <1>3, <1>4 DEF ports, s

(* The verdict on one packet more, and what the flow keeps of it.          *)
LEMMA JudgeFits ==
  ASSUME NEW f \in Flows, NEW h \in History, NEW e \in Event, NEW fl \in FlowState,
         FlowFits(f, fl, h), Timely(h, e.at), h = << >> => fl.window_start = e.at
  PROVE  LET new == Judge(f, e.packet, fl, e.at, e.done) g == Append(h, e) IN
         /\ new.flow \in FlowState /\ FlowFits(f, new.flow, g)
         /\ new.flow.window_start \in {fl.window_start, e.at}
         /\ new.flow.http_start \in {fl.http_start, e.done}
         /\ new.result = TakenFor(f, g) /\ new.result \in Results
<1> DEFINE g == Append(h, e)
           p == e.packet
           c == Counted(fl, p, e.at)
           s == SeesPort(f, c)
           k == IF IsHttp(f) THEN TracksHttp(p, s, e.done) ELSE s
           new == Judge(f, p, fl, e.at, e.done)
<1>0. g \in History /\ g # << >> /\ g[Len(g)] = e BY OneMore
<1>1. p \in Packet /\ e.at \in Nat /\ e.done \in Nat BY DEF Event
<1>2. /\ c \in FlowState
      /\ c.window_start \in {fl.window_start, e.at} /\ c.http_start = fl.http_start
      /\ c.http_bytes_received = fl.http_bytes_received
      /\ c.http_header_complete = fl.http_header_complete
  BY <1>1, CountedFields
<1>3. CountsFit(f, c, g) BY CountedCounts DEF FlowFits
<1>4. WindowFits(c, g) BY CountedWindow DEF FlowFits
<1>5. new = IF IsDDoS(f, p, c, e.done) THEN [flow |-> c, result |-> "DDOS_VOLUMETRIC"]
            ELSE IF IsPortScan(f, p, s) THEN [flow |-> s, result |-> "PORT_SCAN"]
            ELSE IF IsSlowloris(p) THEN [flow |-> s, result |-> "SLOW_DDOS"]
            ELSE IF IsHttp(f) /\ IsSlow(p, k, e.done) THEN [flow |-> k, result |-> "SLOW_DDOS"]
            ELSE [flow |-> k, result |-> "NORMAL"]
  BY DEF Judge
<1> HIDE DEF c, g, new
<1>6. /\ s \in FlowState /\ s.window_start = c.window_start /\ s.http_start = c.http_start
      /\ s.http_bytes_received = c.http_bytes_received
      /\ s.http_header_complete = c.http_header_complete
      /\ s.total_packets = c.total_packets /\ s.syn_count = c.syn_count
      /\ s.rst_count = c.rst_count /\ s.syn_no_ack = c.syn_no_ack
      /\ s.pkt_rate_window = c.pkt_rate_window
      /\ s.dst_ports_seen = c.dst_ports_seen \union {f.dst_port}
  BY <1>2, SeesPortFields
<1> HIDE DEF s
<1>7. CountsFit(f, s, g) BY <1>3, <1>6 DEF CountsFit
<1>8. WindowFits(s, g) BY <1>4, <1>6 DEF WindowFits
<1>9. IsHttp(f) => RequestFits(f, c, h) /\ RequestFits(f, s, h)
  BY <1>2, <1>6 DEF FlowFits, RequestFits
<1>10. /\ k \in FlowState /\ k.window_start = s.window_start
       /\ k.http_start \in {s.http_start, e.done}
       /\ k.total_packets = s.total_packets /\ k.syn_count = s.syn_count
       /\ k.rst_count = s.rst_count /\ k.syn_no_ack = s.syn_no_ack
       /\ k.pkt_rate_window = s.pkt_rate_window /\ k.dst_ports_seen = s.dst_ports_seen
  <2> DEFINE tr == TracksHttp(p, s, e.done)
  <2>0. s \in FlowState /\ p \in Packet /\ e.done \in Nat BY <1>1, <1>6
  <2> HIDE DEF p, k
  <2>1. /\ tr \in FlowState /\ tr.window_start = s.window_start
        /\ tr.http_start \in {s.http_start, e.done}
        /\ tr.total_packets = s.total_packets /\ tr.syn_count = s.syn_count
        /\ tr.rst_count = s.rst_count /\ tr.syn_no_ack = s.syn_no_ack
        /\ tr.pkt_rate_window = s.pkt_rate_window /\ tr.dst_ports_seen = s.dst_ports_seen
    BY <2>0, TrackedKeeps
  <2>2. k \in {tr, s} BY DEF k, p
  <2> HIDE DEF tr
  <2> QED BY <1>6, <2>1, <2>2
<1>11. ~Suspicious(f, g) /\ IsHttp(f) => RequestFits(f, k, g)
  BY <1>6, <1>9, JudgedTracks DEF g
<1>12. Suspicious(f, g) /\ IsHttp(f) => RequestFits(f, c, g) /\ RequestFits(f, s, g)
  BY <1>9, UnjudgedKeeps DEF g
<1> HIDE DEF k
<1>13. CountsFit(f, k, g) BY <1>7, <1>10 DEF CountsFit
<1>14. WindowFits(k, g) BY <1>8, <1>10 DEF WindowFits
<1>15. IsDDoS(f, p, c, e.done) <=> TakenForFlood(f, g) BY <1>0, <1>3, <1>4, FloodFits
<1>16. IsPortScan(f, p, s) <=> TakenForScan(f, g) BY <1>0, <1>6, <1>7, ScanFits
<1>17. IsSlowloris(p) <=> HasSignature(p, "SIG_SLOWLORIS") BY <1>1, SignatureFits
<1>18. Suspicious(f, g) <=> \/ TakenForFlood(f, g) \/ TakenForScan(f, g)
                           \/ HasSignature(p, "SIG_SLOWLORIS")
  BY <1>0 DEF Suspicious
<1>19. ~Suspicious(f, g) /\ IsHttp(f) => (IsSlow(p, k, e.done) <=> TakenForSlow(f, g))
  BY <1>0, <1>11, <1>13, SlowFits DEF CountsFit
<1>20. CASE IsDDoS(f, p, c, e.done)
  <2>1. new.flow = c /\ new.result = "DDOS_VOLUMETRIC" BY <1>5, <1>20
  <2>2. TakenFor(f, g) = "DDOS_VOLUMETRIC" /\ Suspicious(f, g) BY <1>15, <1>18, <1>20 DEF TakenFor
  <2>3. FlowFits(f, c, g) BY <1>3, <1>4, <1>12, <2>2 DEF FlowFits
  <2> QED BY <1>2, <2>1, <2>2, <2>3 DEF Results, new, g
<1>21. CASE ~IsDDoS(f, p, c, e.done) /\ IsPortScan(f, p, s)
  <2>1. new.flow = s /\ new.result = "PORT_SCAN" BY <1>5, <1>21
  <2>2. TakenFor(f, g) = "PORT_SCAN" /\ Suspicious(f, g)
    BY <1>15, <1>16, <1>18, <1>21 DEF TakenFor
  <2>3. FlowFits(f, s, g) BY <1>7, <1>8, <1>12, <2>2 DEF FlowFits
  <2> QED BY <1>2, <1>6, <2>1, <2>2, <2>3 DEF Results, new, g
<1>22. CASE ~IsDDoS(f, p, c, e.done) /\ ~IsPortScan(f, p, s) /\ IsSlowloris(p)
  <2>1. new.flow = s /\ new.result = "SLOW_DDOS" BY <1>5, <1>22
  <2>2. TakenFor(f, g) = "SLOW_DDOS" /\ Suspicious(f, g)
    BY <1>15, <1>16, <1>17, <1>18, <1>22 DEF TakenFor
  <2>3. FlowFits(f, s, g) BY <1>7, <1>8, <1>12, <2>2 DEF FlowFits
  <2> QED BY <1>2, <1>6, <2>1, <2>2, <2>3 DEF Results, new, g
<1>23. CASE ~IsDDoS(f, p, c, e.done) /\ ~IsPortScan(f, p, s) /\ ~IsSlowloris(p)
  <2>1. /\ new.flow = k
        /\ new.result = IF IsHttp(f) /\ IsSlow(p, k, e.done) THEN "SLOW_DDOS" ELSE "NORMAL"
    BY <1>5, <1>23
  <2>2. ~Suspicious(f, g) BY <1>15, <1>16, <1>17, <1>18, <1>23
  <2>3. TakenFor(f, g) = IF IsHttp(f) /\ TakenForSlow(f, g) THEN "SLOW_DDOS" ELSE "NORMAL"
    BY <1>15, <1>16, <1>23, <2>2 DEF TakenFor
  <2>4. FlowFits(f, k, g) BY <1>11, <1>13, <1>14, <2>2 DEF FlowFits
  <2>5. new.result = TakenFor(f, g) /\ new.result \in Results
    BY <1>19, <2>1, <2>2, <2>3 DEF Results
  <2> QED BY <1>2, <1>6, <1>10, <2>1, <2>4, <2>5 DEF new, g
<1> QED BY <1>20, <1>21, <1>22, <1>23

-----------------------------------------------------------------------------
(*                              The invariant                              *)

LEMMA FlowInvInit == Init => FlowInv
<1> SUFFICES ASSUME Init PROVE FlowInv
  OBVIOUS
<1>1. DOMAIN flows = {} /\ \A f \in Flows : history[f] = << >> BY DEF Init
<1>2. TypeOK
  <2>1. history \in [Flows -> Seq(Event)]
    <3>1. << >> \in Seq(Event) OBVIOUS
    <3> QED BY <3>1 DEF Init
  <2>2. now \in Nat BY FlowRulesAssumption DEF Init
  <2>3. last \in [flow : Flows, result : Results] BY DEF Init, Results
  <2> QED BY <1>1, <2>1, <2>2, <2>3 DEF TypeOK
<1>3. \A f \in Flows : Timely(history[f], now) BY <1>1 DEF Timely
<1>4. VerdictFits
  <2>1. last.flow \in Flows BY DEF Init
  <2> QED BY <1>1, <2>1 DEF VerdictFits
<1>5. Uptime <= now BY FlowRulesAssumption DEF Init
<1> QED BY <1>1, <1>2, <1>3, <1>4, <1>5 DEF FlowInv

LEMMA NewFlowFits ==
  ASSUME NEW f, NEW t \in Nat
  PROVE  /\ NewFlow(t) \in FlowState /\ NewFlow(t).window_start = t
         /\ NewFlow(t).http_start = 0 /\ FlowFits(f, NewFlow(t), << >>)
<1>1. NewFlow(t) \in FlowState BY DEF NewFlow, FlowState
<1>2. \A kind : Of(<< >>, kind) = {} BY DEF Of
<1>3. CountsFit(f, NewFlow(t), << >>) BY <1>2, FS_EmptySet DEF NewFlow, CountsFit
<1>4. WindowFits(NewFlow(t), << >>) BY DEF NewFlow, WindowFits
<1>5. Judged(f, << >>) = {} /\ Begun(f, << >>) = {} /\ Requested(f, << >>) = {}
  BY DEF Judged, Begun, Requested
<1>6. Bytes(<< >>, {}) = 0 BY EmptySum DEF Bytes, SumFunction
<1>7. RequestFits(f, NewFlow(t), << >>) BY <1>5, <1>6 DEF NewFlow, RequestFits
<1> QED BY <1>1, <1>3, <1>4, <1>7 DEF NewFlow, FlowFits

LEMMA FlowInvNext == FlowInv /\ [Next]_vars => FlowInv'
<1> SUFFICES ASSUME FlowInv, [Next]_vars PROVE FlowInv'
  OBVIOUS
<1>1. CASE UNCHANGED vars
  <2>1. UNCHANGED <<flows, now, last, history>> BY <1>1 DEF vars
  <2>2. TypeOK' BY <2>1 DEF FlowInv, TypeOK
  <2>3. VerdictFits' BY <2>1 DEF FlowInv, VerdictFits
  <2> QED BY <2>1, <2>2, <2>3 DEF FlowInv
<1>2. ASSUME NEW f \in Flows, NEW gap \in Gaps, NEW cost \in Costs, NEW p \in PacketsOf[f],
             ProcessPacket(f, p, gap, cost)
      PROVE  FlowInv'
  <2> DEFINE t == now + gap
             done == t + cost
             h == history[f]
             e == [packet |-> p, at |-> t, done |-> done]
             fl == IF f \in DOMAIN flows THEN flows[f] ELSE NewFlow(t)
             new == Judge(f, p, fl, t, done)
             g == Append(h, e)
  <2>1. /\ flows' = [x \in DOMAIN flows \union {f} |-> IF x = f THEN new.flow ELSE flows[x]]
        /\ last' = [flow |-> f, result |-> new.result] /\ now' = done
        /\ history' = [history EXCEPT ![f] = g]
    BY <1>2 DEF ProcessPacket
  <2>2. /\ now \in Nat /\ t \in Nat /\ done \in Nat /\ now <= t /\ t <= done /\ p \in Packet
        /\ Uptime \in Nat
    BY FlowRulesAssumption DEF FlowInv, TypeOK
  <2>3. e \in Event /\ e.packet = p /\ e.at = t /\ e.done = done BY <2>2 DEF Event
  <2>4. h \in History BY DEF FlowInv, TypeOK, History
  <2>5. Timely(h, now) BY DEF FlowInv
  <2>6. DOMAIN h = 1 .. Len(h) /\ Len(h) \in Nat BY <2>4, LenProperties DEF History
  <2>7. \A i \in DOMAIN h : h[i].at \in Nat /\ h[i].done \in Nat
    <3>1. \A i \in DOMAIN h : h[i] \in Event BY <2>4, <2>6, ElementOfSeq DEF History
    <3> QED BY <3>1 DEF Event
  <2>8. Timely(h, t) BY <2>2, <2>5, <2>7 DEF Timely
  <2>9. /\ fl \in FlowState /\ FlowFits(f, fl, h) /\ (h = << >> => fl.window_start = t)
        /\ fl.window_start \in Uptime .. done
        /\ fl.http_start \in {0} \union Uptime .. done
    <3>1. f \in DOMAIN flows <=> h # << >> BY DEF FlowInv
    <3>2. CASE f \in DOMAIN flows
      <4>1. fl = flows[f] /\ flows[f] \in FlowState /\ FlowFits(f, flows[f], h)
            /\ flows[f].window_start \in Uptime .. now
            /\ flows[f].http_start \in {0} \union Uptime .. now
        BY <3>2 DEF FlowInv, TypeOK
      <4> HIDE DEF fl, t, done, h
      <4> QED BY <2>2, <3>1, <3>2, <4>1
    <3>3. CASE f \notin DOMAIN flows
      <4>1. fl = NewFlow(t) /\ h = << >> BY <3>1, <3>3
      <4>2. t \in Uptime .. done BY <2>2 DEF FlowInv
      <4> HIDE DEF fl, t, done, h
      <4> QED BY <2>2, <4>1, <4>2, NewFlowFits
    <3> QED BY <3>2, <3>3
  <2> HIDE DEF fl, new, g, e
  <2>10. /\ new.flow \in FlowState /\ FlowFits(f, new.flow, g)
         /\ new.flow.window_start \in {fl.window_start, t}
         /\ new.flow.http_start \in {fl.http_start, done}
         /\ new.result = TakenFor(f, g) /\ new.result \in Results
    BY <2>3, <2>4, <2>8, <2>9, JudgeFits DEF new, g
  <2>11. /\ g \in History /\ g # << >> /\ Len(g) = Len(h) + 1 /\ DOMAIN g = 1 .. Len(h) + 1
         /\ g[Len(h) + 1] = e /\ \A i \in 1 .. Len(h) : g[i] = h[i]
    BY <2>3, <2>4, OneMore DEF g
  <2> HIDE DEF t, done, h
  <2>12. /\ history' \in [Flows -> Seq(Event)] /\ history'[f] = g
         /\ \A x \in Flows : x # f => history'[x] = history[x]
    BY <2>1, <2>11 DEF FlowInv, TypeOK, History
  <2>13. /\ DOMAIN flows' = DOMAIN flows \union {f} /\ flows'[f] = new.flow
         /\ \A x \in DOMAIN flows : x # f => flows'[x] = flows[x]
    BY <2>1
  <2>14. now' = done /\ now' \in Nat /\ now <= now' /\ Uptime <= now'
    BY <2>1, <2>2 DEF FlowInv
  <2>15. TypeOK'
    <3>1. last' \in [flow : Flows, result : Results] BY <2>1, <2>10
    <3>2. ASSUME NEW x \in DOMAIN flows'
          PROVE  /\ flows'[x] \in FlowState
                 /\ flows'[x].window_start \in Uptime .. now'
                 /\ flows'[x].http_start \in {0} \union Uptime .. now'
      <4>1. CASE x = f
        <5>1. flows'[x] = new.flow /\ t \in Uptime .. done /\ done \in Uptime .. done
          BY <2>2, <2>13, <4>1 DEF FlowInv
        <5> QED BY <2>9, <2>10, <2>14, <5>1
      <4>2. CASE x # f
        <5>1. flows'[x] = flows[x] /\ x \in DOMAIN flows BY <2>13, <4>2
        <5>2. /\ flows[x] \in FlowState /\ flows[x].window_start \in Uptime .. now
              /\ flows[x].http_start \in {0} \union Uptime .. now
          BY <5>1 DEF FlowInv, TypeOK
        <5> QED BY <2>2, <2>14, <5>1, <5>2
      <4> QED BY <4>1, <4>2
    <3>3. DOMAIN flows' \subseteq Flows BY <2>13 DEF FlowInv, TypeOK
    <3> QED BY <2>12, <2>14, <3>1, <3>2, <3>3 DEF TypeOK
  <2>16. DOMAIN flows' = {x \in Flows : history'[x] # << >>}
    BY <2>11, <2>12, <2>13 DEF FlowInv
  <2>17. ASSUME NEW x \in Flows PROVE Timely(history'[x], now')
    <3>1. CASE x # f
      <4>1. history'[x] = history[x] /\ Timely(history[x], now) BY <2>12, <3>1 DEF FlowInv
      <4>2. \A i \in DOMAIN history[x] : history[x][i].done \in Nat
        <5> DEFINE hx == history[x]
        <5>1. hx \in Seq(Event) BY DEF FlowInv, TypeOK
        <5> HIDE DEF hx
        <5>2. \A i \in DOMAIN hx : hx[i] \in Event BY <5>1, LenProperties, ElementOfSeq
        <5> QED BY <5>2 DEF Event, hx
      <4> QED BY <2>2, <2>14, <4>1, <4>2 DEF Timely
    <3>2. CASE x = f
      <4>1. \A i \in DOMAIN g : g[i] = e \/ (i \in 1 .. Len(h) /\ g[i] = h[i])
        BY <2>6, <2>11
      <4>2. \A i \in 1 .. Len(h) : h[i].at <= t /\ h[i].done <= done /\ h[i].at <= h[i].done
        BY <2>2, <2>6, <2>7, <2>8 DEF Timely
      <4>3. \A i, j \in DOMAIN g : i < j => g[i].at <= g[j].at
        <5> TAKE i, j \in DOMAIN g
        <5> HAVE i < j
        <5>1. i \in 1 .. Len(h) /\ g[i] = h[i] BY <2>6, <2>11
        <5>2. CASE j \in 1 .. Len(h) BY <2>6, <2>8, <2>11, <5>1, <5>2 DEF Timely
        <5>3. CASE j = Len(h) + 1 BY <2>3, <2>11, <4>2, <5>1, <5>3
        <5> QED BY <2>6, <2>11, <5>2, <5>3
      <4>4. \A i \in DOMAIN g : g[i].at <= g[i].done /\ g[i].done <= done
        BY <2>2, <2>3, <4>1, <4>2
      <4>5. Timely(g, done) BY <4>3, <4>4 DEF Timely
      <4> QED BY <2>12, <2>14, <3>2, <4>5
    <3> QED BY <3>1, <3>2
  <2>18. \A x \in DOMAIN flows' : FlowFits(x, flows'[x], history'[x])
    BY <2>10, <2>12, <2>13 DEF FlowInv, TypeOK
  <2>19. VerdictFits'
    <3>1. last'.flow = f /\ last'.result = new.result BY <2>1
    <3> QED BY <2>10, <2>12, <3>1 DEF VerdictFits
  <2> QED BY <2>14, <2>15, <2>16, <2>17, <2>18, <2>19 DEF FlowInv
<1> QED BY <1>1, <1>2 DEF Next

LEMMA FlowInvHolds == Spec => []FlowInv
BY FlowInvInit, FlowInvNext, PTL DEF Spec

(* Every flow in the table keeps well-formed state, begun within the       *)
(* program's life.                                                         *)
THEOREM TypeCorrect == Spec => []TypeOK
<1>1. FlowInv => TypeOK BY DEF FlowInv
<1> QED BY <1>1, FlowInvHolds, PTL

LEMMA FitsAreRecounted ==
  ASSUME NEW f \in Flows, NEW fl \in FlowState, NEW h \in History, h # << >>, FlowFits(f, fl, h)
  PROVE  Recounted(f, fl, h)
<1>1. /\ fl.total_packets = Len(h)
      /\ fl.syn_count = Cardinality(Indices(h, LAMBDA p : "SYN" \in p.flags))
      /\ fl.rst_count = Cardinality(Indices(h, LAMBDA p : "RST" \in p.flags))
      /\ fl.syn_no_ack = Cardinality(Indices(h, BareSYN))
  BY KindsOf DEF FlowFits, CountsFit
<1>2. /\ fl.window_start = h[Max(WindowStarts(h))].at
      /\ fl.pkt_rate_window = Len(h) - Max(WindowStarts(h)) + 1
  BY WindowIs DEF FlowFits
<1>3. IsHttp(f) => /\ fl.http_start = Request(f, h).start
                   /\ fl.http_bytes_received = Request(f, h).bytes
                   /\ fl.http_header_complete = Request(f, h).complete
  <2>1. fl.http_header_complete \in BOOLEAN BY DEF FlowState
  <2> QED BY <2>1, RequestIs DEF FlowFits, RequestFits
<1> QED BY <1>1, <1>2, <1>3 DEF Recounted

(* The counters, windows and flags of every flow, with their resets and    *)
(* the early returns that skip some of them, are what recounting its       *)
(* packets gives, and every verdict is the one that the code's comparisons *)
(* give on the recounted numbers.                                          *)
THEOREM CountersAreRecountedHolds == Spec => []CountersAreRecounted
<1>1. FlowInv => CountersAreRecounted
  <2> SUFFICES ASSUME FlowInv, history[last.flow] # << >>
               PROVE  /\ Recounted(last.flow, flows[last.flow], history[last.flow])
                      /\ last.result = TakenFor(last.flow, history[last.flow])
    BY DEF CountersAreRecounted
  <2>1. last.flow \in Flows /\ history[last.flow] \in History
    BY DEF FlowInv, TypeOK, History
  <2>2. flows[last.flow] \in FlowState /\ FlowFits(last.flow, flows[last.flow], history[last.flow])
    BY <2>1 DEF FlowInv, TypeOK
  <2> QED BY <2>1, <2>2, FitsAreRecounted DEF FlowInv, VerdictFits
<1> QED BY <1>1, FlowInvHolds, PTL
=============================================================================
