---------------------------- MODULE MCFlowRules ----------------------------
(* A web flow with a packet of each kind the rules tell apart, and a UDP   *)
(* flow; or the web flow alone.                                            *)
EXTENDS FlowRules

(* Three signatures that overlap in each other and in themselves.          *)
MCSignatures == {[text |-> <<"x", "x", "z">>, id |-> "SIG_SLOWLORIS"],
                 [text |-> <<"y", "y">>,      id |-> "SIG_SLOWLORIS"],
                 [text |-> <<"x", "z">>,      id |-> "SIG_SLOW_POST"]}

Web == [src |-> "a", dst_port |-> 80, protocol |-> "TCP"]
Dns == [src |-> "a", dst_port |-> 53, protocol |-> "UDP"]

Empty     == << >>
Data      == <<"x", "y", "x", "z">>
EndHeader == <<"CR", "LF", "CR", "LF">>
Slowloris == <<"x", "x", "x", "z">>

P(flags, payload, zero) == [flags |-> flags, payload |-> payload, win_zero |-> zero]

MCFlows     == {Web, Dns}
MCPacketsOf == [f \in MCFlows |->
  IF f = Dns THEN {P({}, Data, TRUE)}
  ELSE {P({"SYN"}, Empty, FALSE), P({"ACK"}, Data, FALSE),
        P({"ACK"}, EndHeader, FALSE), P({"ACK"}, Slowloris, FALSE),
        P({"RST"}, Empty, TRUE), P({"FIN", "PSH", "URG"}, Empty, FALSE),
        P({}, Empty, FALSE)}]

MCWeb        == {Web}
MCWebPackets == [f \in MCWeb |-> MCPacketsOf[f]]

MCGaps  == {0, 3}
MCCosts == {0, 1}

(* The search reports what is in the text and nothing else, in every text  *)
(* of up to six letters.                                                   *)
ASSUME SearchIsExact ==
  \A n \in 0 .. 6 : \A text \in [1 .. n -> {"x", "y", "z"}] :
    search(text) = {s.id : s \in {s \in Signatures : HasText(text, s.text)}}
=============================================================================
