---------------------------- MODULE DisplayFilter ---------------------------
(***************************************************************************)
(* The filter line of a packet tab: FilterBar::parseFilter and             *)
(* parseCondition (ui/qt/filter_bar.cpp) and what                          *)
(* PacketListModel::matchFilter does with the result.  A line is a         *)
(* sequence of terms joined by "&&" or "and"; a term has an operator and   *)
(* two sides, or is a single word.  Lines are lower-cased before they are  *)
(* parsed; the detectors write threat names in capitals.                   *)
(***************************************************************************)
EXTENDS FrameParsing

Ops == {"NEQ", "GTE", "LTE", "GT", "LT", "EQ", "CONTAINS"}

(* A term as typed; addresses, ports and words on the right are numbers.   *)
Term == [lhs : STRING, op : Ops \union {"word"}, rhs : Int]

Shortcuts == {"tcp", "udp", "icmp", "http", "dns", "arp"}

(* DisplayFilter::Field, by the name that the line uses.  frame.len is     *)
(* accepted and means nothing; tcp.port is the destination's.              *)
FieldOf(name) ==
  CASE name = "ip.src"                       -> "SRC_IP"
    [] name = "ip.dst"                       -> "DST_IP"
    [] name \in {"tcp.srcport", "udp.srcport"} -> "SRC_PORT"
    [] name \in {"tcp.dstport", "udp.dstport", "tcp.port", "udp.port"} -> "DST_PORT"
    [] name = "frame.len"                    -> "NONE"
    [] name = "threat"                       -> "THREAT"
    [] OTHER                                 -> "rejected"

(* std::stoul(value, nullptr, 16): how many of the letters are digits.     *)
FlagWords == [syn |-> "throws", ack |-> "mask", rst |-> "throws", fin |-> "mask",
              psh |-> "throws"]

(* A word tcp.flags.<flag> is a condition whose operator is CONTAINS.      *)
parseCondition(term) ==
  CASE term.op # "word" ->
         [field |-> FieldOf(term.lhs), op |-> term.op, value |-> term.rhs]
    [] term.op = "word" /\ term.lhs \in DOMAIN FlagWords ->
         [field |-> "TCP_FLAGS", op |-> "CONTAINS", value |-> term.lhs]
    [] OTHER -> [field |-> "rejected", op |-> "word", value |-> 0]

NoFilter == [valid |-> TRUE, proto_filter |-> "ANY", conditions |-> << >>]

(* One bad term makes the whole filter invalid, and it then filters        *)
(* nothing.  A shortcut has no conditions.                                 *)
parseFilter(line) ==
  LET conditions == [i \in DOMAIN line |-> parseCondition(line[i])]
      bad        == \E i \in DOMAIN line : conditions[i].field = "rejected"
      shortcut   == Len(line) = 1 /\ line[1].op = "word" /\ line[1].lhs \in Shortcuts
  IN  CASE shortcut -> [NoFilter EXCEPT !.proto_filter = line[1].lhs]
        [] ~shortcut /\ bad -> [NoFilter EXCEPT !.valid = FALSE]
        [] OTHER -> [NoFilter EXCEPT !.conditions = conditions]

(* Fault: > and >= are the same.                                           *)
evalOpLoosely(op, lhs, rhs) ==
  \/ op \in {"EQ", "GTE", "LTE"} /\ lhs = rhs
  \/ op \in {"NEQ", "GT", "GTE"} /\ lhs >= rhs
  \/ op \in {"NEQ", "LT", "LTE"} /\ lhs < rhs

evalOp(op, lhs, rhs) ==
  \/ op \in {"EQ", "GTE", "LTE"} /\ lhs = rhs
  \/ op \in {"NEQ", "GT", "GTE"} /\ lhs > rhs
  \/ op \in {"NEQ", "LT", "LTE"} /\ lhs < rhs

Equality(op, eq) == (op = "EQ" => eq) /\ (op = "NEQ" => ~eq)

(* std::stoul of a port: a word throws, a number loses its upper bits.     *)
NotANumber == -1
Port(value) == value % 65536

(* What one condition says of a record.  No threat name in capitals        *)
(* contains a lower-case word: THREAT == never holds, THREAT != always.    *)
Check(c, h) ==
  CASE c.field = "SRC_IP"   -> Equality(c.op, h.src = c.value)
    [] c.field = "DST_IP"   -> Equality(c.op, h.dst = c.value)
    [] c.field = "SRC_PORT" -> evalOp(c.op, h.sport, Port(c.value))
    [] c.field = "DST_PORT" -> evalOp(c.op, h.dport, Port(c.value))
    [] c.field = "THREAT"   -> Equality(c.op, FALSE)
    [] OTHER                -> TRUE

Throws(c) == \/ c.field = "TCP_FLAGS" /\ FlagWords[c.value] = "throws"
             \/ c.field \in {"SRC_PORT", "DST_PORT"} /\ c.value = NotANumber

(* The conditions are tried in turn until one fails, or throws.            *)
matchFilter(f, h) ==
  LET stops == {i \in DOMAIN f.conditions : Throws(f.conditions[i]) \/ ~Check(f.conditions[i], h)}
      first == {i \in stops : \A j \in stops : i <= j}
  IN  CASE stops = {} -> "yes"
        [] \E i \in first : Throws(f.conditions[i]) -> "throws"
        [] OTHER -> "no"

-----------------------------------------------------------------------------
(* What a term says to the user, for the terms that the code evaluates:    *)
(* addresses by == and !=, one port by any comparison, of either transport.*)
Means(term, h) ==
  LET port == IF term.lhs \in {"tcp.srcport", "udp.srcport"} THEN h.sport ELSE h.dport
  IN  IF term.lhs \in {"ip.src", "ip.dst"}
      THEN (term.op = "EQ") = ((IF term.lhs = "ip.src" THEN h.src ELSE h.dst) = term.rhs)
      ELSE CASE term.op = "EQ" -> port = term.rhs
             [] term.op = "NEQ" -> port # term.rhs
             [] term.op = "GT"  -> port > term.rhs
             [] term.op = "LT"  -> port < term.rhs
             [] term.op = "GTE" -> port >= term.rhs
             [] term.op = "LTE" -> port <= term.rhs

Evaluated(term) ==
  \/ term.lhs \in {"ip.src", "ip.dst"} /\ term.op \in {"EQ", "NEQ"}
  \/ /\ term.lhs \in {"tcp.srcport", "udp.srcport", "tcp.dstport", "udp.dstport"}
     /\ term.op \in Ops \ {"CONTAINS"}
     /\ term.rhs >= 0 /\ term.rhs < 65536
=============================================================================
