-------------------------- MODULE SignatureSearch --------------------------
(***************************************************************************)
(* SignatureEngine's Aho-Corasick automaton (layer1/signature_engine.cpp): *)
(* addPattern, buildFailLinks and search.  A node is the text that leads   *)
(* to it from the root; a text is a sequence of letters.                   *)
(***************************************************************************)
EXTENDS Integers, SequencesExt

CONSTANT Signatures   \* the patterns added: [text, id]

SignatureID == {"SIG_SLOWLORIS", "SIG_SLOW_POST"}

ASSUME SignatureAssumption ==
  /\ IsFiniteSet(Signatures)
  /\ \A s \in Signatures : s.text \in Seq(STRING) \ {<< >>} /\ s.id \in SignatureID

HasText(data, text) ==
  \E i \in 0 .. Len(data) - Len(text) : SubSeq(data, i + 1, i + Len(text)) = text

(* The constructor's root, and addPattern for all patterns.                *)
Root   == << >>
nodes_ == {Root} \union UNION {Prefixes(s.text) : s \in Signatures}

HasChild(n, c) == Append(n, c) \in nodes_

(* Where a walk along fail links that looks for a child by c stops.        *)
StopOf(walk, c) == walk[Min({i \in DOMAIN walk : walk[i] = Root \/ HasChild(walk[i], c)})]

GoTo(walk, c) == IF HasChild(StopOf(walk, c), c) THEN Append(StopOf(walk, c), c) ELSE Root

(* buildFailLinks: from each node, the nodes along its fail links.         *)
FailLinks[n \in nodes_] ==
  IF n = Root THEN <<Root>>
  ELSE <<n>> \o IF Len(n) = 1 THEN <<Root>>
                ELSE FailLinks[GoTo(Tail(FailLinks[Front(n)]), Last(n))]

(* A node's own outputs and those inherited from its fail links.           *)
outputs(n) == {s.id : s \in {s \in Signatures : \E i \in DOMAIN FailLinks[n] : FailLinks[n][i] = s.text}}

(* Byte by byte, the node reached and the patterns found there.            *)
search(data) ==
  LET cur[i \in 0 .. Len(data)] ==
        IF i = 0 THEN Root ELSE GoTo(FailLinks[cur[i - 1]], data[i])
  IN  UNION {outputs(cur[i]) : i \in DOMAIN data}
=============================================================================
