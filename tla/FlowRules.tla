----------------------------- MODULE FlowRules -----------------------------
(***************************************************************************)
(* The detection rules of layer 1: SignatureEngine::analyze and            *)
(* ProtocolAnomalyEngine::analyze on the FlowState of a flow, as a worker  *)
(* applies them to one packet after the other.  All packets of a flow meet *)
(* the same worker in order (Pipeline!FlowOrder), so a packet is one step. *)
(* The clock is read several times on the way: a packet arrives some time  *)
(* after the last one (gap), and by the later readings it may have moved   *)
(* on (cost).                                                              *)
(*                                                                         *)
(* A flow that cleanup erases begins anew; one life of each flow is        *)
(* modelled.                                                               *)
(***************************************************************************)
EXTENDS SignatureSearch

CONSTANTS
  Flows,        \* flow keys: [src, dst_port, protocol]
  PacketsOf,    \* the packets that occur in each flow
  Gaps, Costs,  \* how far the clock moves between and during packets
  Uptime,       \* the steady clock when the program starts
  Second,       \* clock ticks per second
  SYN_RATE_THRESHOLD, UDP_RATE_THRESHOLD, PORT_SCAN_THRESHOLD,
  MinSyns,      \* SYNs before the ratio of RSTs counts: 10
  WINDOW, HTTP_HEADER_TIMEOUT,    \* in ticks
  MIN_BYTES,    \* MIN_BYTES_PER_SEC, per tick
  MinPackets,   \* packets before a zero window counts: 5
  MaxPackets    \* bound: packets in all

Ports     == 1 .. 65535
HeaderEnd == <<"CR", "LF", "CR", "LF">>
TCPFlags  == {"FIN", "SYN", "RST", "PSH", "ACK", "URG"}
Packet    == [flags : SUBSET TCPFlags, payload : Seq(STRING), win_zero : BOOLEAN]

ASSUME FlowRulesAssumption ==
  /\ \A f \in Flows : f.dst_port \in Ports /\ f.protocol \in {"TCP", "UDP"}
  /\ DOMAIN PacketsOf = Flows /\ \A f \in Flows : \A p \in PacketsOf[f] : p \in Packet
  /\ \A f \in Flows : f.protocol = "UDP" => \A p \in PacketsOf[f] : p.flags = {}
  /\ Gaps \subseteq Nat /\ Costs \subseteq Nat
  /\ Uptime \in Nat /\ Second \in Nat \ {0}
  /\ {SYN_RATE_THRESHOLD, UDP_RATE_THRESHOLD, MinSyns, WINDOW,
      HTTP_HEADER_TIMEOUT, MIN_BYTES, MinPackets} \subseteq Nat
  /\ PORT_SCAN_THRESHOLD \in Nat \ {0}

VARIABLES flows,    \* the FlowState of each flow in the table
          now,      \* the steady clock
          last,     \* the last packet's flow and verdict
          history   \* the packets of each flow and the clock readings

vars == <<flows, now, last, history>>

FlowState == [total_packets : Nat, syn_count : Nat, rst_count : Nat,
              pkt_rate_window : Nat, window_start : Nat, syn_no_ack : Nat,
              dst_ports_seen : SUBSET Ports,
              http_start : Nat, http_bytes_received : Nat,
              http_header_complete : BOOLEAN]

Results == {"NORMAL", "DDOS_VOLUMETRIC", "SLOW_DDOS", "PORT_SCAN"}
Event   == [packet : Packet, at : Nat, done : Nat]

TypeOK == /\ DOMAIN flows \subseteq Flows
          /\ \A f \in DOMAIN flows :
               /\ flows[f] \in FlowState
               /\ flows[f].window_start \in Uptime .. now
               /\ flows[f].http_start \in {0} \union Uptime .. now
          /\ now \in Nat
          /\ last \in [flow : Flows, result : Results]
          /\ history \in [Flows -> Seq(Event)]

Init == /\ flows = << >>
        /\ now = Uptime
        /\ last \in [flow : Flows, result : {"NORMAL"}]
        /\ history = [f \in Flows |-> << >>]

Bit(b) == IF b THEN 1 ELSE 0

(* hasSYN() && !hasACK()                                                   *)
BareSYN(p) == "SYN" \in p.flags /\ "ACK" \notin p.flags

(* memmem finds the end of the HTTP header.                                *)
HasHeaderEnd(p) == HasText(p.payload, HeaderEnd)

-----------------------------------------------------------------------------
(*                              The flow's state                           *)

(* Fault: http_start is set before the clock began.                        *)
NewFlowUnset(t) ==
  [total_packets |-> 0, syn_count |-> 0, rst_count |-> 0,
   pkt_rate_window |-> 0, window_start |-> t, syn_no_ack |-> 0,
   dst_ports_seen |-> {}, http_start |-> -1,
   http_bytes_received |-> 0, http_header_complete |-> FALSE]

(* createFlow; http_start is left at the clock's epoch.                    *)
NewFlow(t) == [total_packets |-> 0, syn_count |-> 0, rst_count |-> 0,
               pkt_rate_window |-> 0, window_start |-> t, syn_no_ack |-> 0,
               dst_ports_seen |-> {}, http_start |-> 0,
               http_bytes_received |-> 0, http_header_complete |-> FALSE]

(* analyze 1: the counters, and the sliding window of the packet rate.     *)
Counted(fl, p, t) ==
  LET expired == t - fl.window_start > WINDOW IN
  [fl EXCEPT !.total_packets   = @ + 1,
             !.syn_count       = @ + Bit("SYN" \in p.flags),
             !.rst_count       = @ + Bit("RST" \in p.flags),
             !.syn_no_ack      = @ + Bit(BareSYN(p)),
             !.window_start    = IF expired THEN t ELSE @,
             !.pkt_rate_window = 1 + IF expired THEN 0 ELSE @]

SeesPort(f, fl) == [fl EXCEPT !.dst_ports_seen = @ \union {f.dst_port}]

(* Fault: a new request keeps the old header flag.                         *)
TracksHttpOnce(p, fl, t) ==
  IF BareSYN(p)
    THEN [fl EXCEPT !.http_start = t, !.http_bytes_received = 0]
    ELSE [fl EXCEPT !.http_bytes_received  = @ + Len(p.payload),
                    !.http_header_complete = @ \/ HasHeaderEnd(p)]

(* checkSlowDDoS: a SYN begins a request, other packets add to it.         *)
TracksHttp(p, fl, t) ==
  IF BareSYN(p)
    THEN [fl EXCEPT !.http_start = t, !.http_bytes_received = 0,
                    !.http_header_complete = FALSE]
    ELSE [fl EXCEPT !.http_bytes_received  = @ + Len(p.payload),
                    !.http_header_complete = @ \/ HasHeaderEnd(p)]

-----------------------------------------------------------------------------
(*                                 The rules                               *)

packetRateExceeds(fl, t) ==
  /\ t > fl.window_start
  /\ fl.pkt_rate_window * Second > UDP_RATE_THRESHOLD * (t - fl.window_start)

IsDDoS(f, p, fl, t) ==
  \/ BareSYN(p) /\ fl.syn_no_ack > SYN_RATE_THRESHOLD
  \/ f.protocol = "UDP" /\ packetRateExceeds(fl, t)

IsPortScan(f, p, fl) ==
  \/ Cardinality(fl.dst_ports_seen) > PORT_SCAN_THRESHOLD
  \/ {"FIN", "PSH", "URG"} \subseteq p.flags
  \/ f.protocol = "TCP" /\ p.flags = {}
  \/ /\ fl.syn_count > MinSyns
     /\ fl.rst_count > 0
     /\ fl.rst_count * 10 > fl.syn_count * 8

(* checkPayloadSignatures: SIG_SLOW_POST is left to the anomaly engine.    *)
IsSlowloris(p) == "SIG_SLOWLORIS" \in search(p.payload)

IsHttp(f) == f.protocol = "TCP" /\ f.dst_port \in {80, 443}

IsSlow(p, fl, t) ==
  LET duration == t - fl.http_start IN
  /\ ~BareSYN(p)
  /\ \/ ~fl.http_header_complete /\ duration > HTTP_HEADER_TIMEOUT
     \/ duration > HTTP_HEADER_TIMEOUT /\ fl.http_bytes_received < MIN_BYTES * duration
     \/ p.win_zero /\ fl.total_packets > MinPackets

(* What both engines make of a packet: the verdict, and the flow's state,  *)
(* of which a verdict leaves the later parts as they were.                 *)
Judge(f, p, fl, t, done) ==
  LET counted == Counted(fl, p, t)
      seen    == SeesPort(f, counted)
      http    == IF IsHttp(f) THEN TracksHttp(p, seen, done) ELSE seen
  IN  IF IsDDoS(f, p, counted, done)
        THEN [flow |-> counted, result |-> "DDOS_VOLUMETRIC"]
      ELSE IF IsPortScan(f, p, seen)
        THEN [flow |-> seen, result |-> "PORT_SCAN"]
      ELSE IF IsSlowloris(p)
        THEN [flow |-> seen, result |-> "SLOW_DDOS"]
      ELSE IF IsHttp(f) /\ IsSlow(p, http, done)
        THEN [flow |-> http, result |-> "SLOW_DDOS"]
      ELSE [flow |-> http, result |-> "NORMAL"]

(* WorkerThread::processPacket, its flow table not full.                   *)
ProcessPacket(f, p, gap, cost) ==
  LET t    == now + gap
      done == t + cost
      fl   == IF f \in DOMAIN flows THEN flows[f] ELSE NewFlow(t)
      new  == Judge(f, p, fl, t, done)
  IN  /\ flows' = [g \in DOMAIN flows \union {f} |-> IF g = f THEN new.flow ELSE flows[g]]
      /\ last' = [flow |-> f, result |-> new.result]
      /\ now' = done
      /\ history' = [history EXCEPT ![f] = Append(@, [packet |-> p, at |-> t, done |-> done])]

Seen == MapThenSumSet(LAMBDA f : Len(history[f]), Flows)

Next == /\ Seen < MaxPackets
        /\ \E f \in Flows, gap \in Gaps, cost \in Costs :
             \E p \in PacketsOf[f] : ProcessPacket(f, p, gap, cost)

Spec == Init /\ [][Next]_vars

-----------------------------------------------------------------------------
(*        What a flow is taken for, recounted from its packets             *)

(* As the code counts, and not always as the rules are described: the SYNs *)
(* are those of the flow's whole life, the time for an HTTP header runs    *)
(* from the clock's epoch until the anomaly engine has seen a SYN, and     *)
(* SIG_SLOW_POST makes no verdict.                                         *)
Indices(h, P(_)) == {i \in DOMAIN h : P(h[i].packet)}

ManyBareSYNs(h) ==
  /\ BareSYN(h[Len(h)].packet)
  /\ Cardinality(Indices(h, BareSYN)) > SYN_RATE_THRESHOLD

(* The packets that begin a window: the first, and each that comes more    *)
(* than WINDOW after the last that did.                                    *)
WindowStarts(h) ==
  CHOOSE S \in SUBSET DOMAIN h :
    \A i \in DOMAIN h : i \in S <=> \A j \in S : j < i => h[i].at - h[j].at > WINDOW

FastSinceWindow(h) ==
  LET n    == Len(h)
      from == Max(WindowStarts(h))
      time == h[n].done - h[from].at
  IN  time > 0 /\ (n - from + 1) * Second > UDP_RATE_THRESHOLD * time

TakenForFlood(f, h) == ManyBareSYNs(h) \/ (f.protocol = "UDP" /\ FastSinceWindow(h))

(* A scan by its flags; a flow has one destination port.                   *)
TakenForScan(f, h) ==
  LET syns == Cardinality(Indices(h, LAMBDA p : "SYN" \in p.flags))
      rsts == Cardinality(Indices(h, LAMBDA p : "RST" \in p.flags))
      flags == h[Len(h)].packet.flags
  IN  \/ {"FIN", "PSH", "URG"} \subseteq flags
      \/ flags = {} /\ f.protocol = "TCP"
      \/ syns > MinSyns /\ rsts > 0 /\ rsts * 10 > syns * 8

HasSignature(p, id) == \E s \in Signatures : s.id = id /\ HasText(p.payload, s.text)

Suspicious(f, h) == \/ TakenForFlood(f, h)
                    \/ TakenForScan(f, h)
                    \/ HasSignature(h[Len(h)].packet, "SIG_SLOWLORIS")

(* The request the anomaly engine tracks: of the packets it got to see,    *)
(* those since the last SYN.                                               *)
Judged(f, h) == {i \in 1 .. Len(h) : ~Suspicious(f, SubSeq(h, 1, i))}

Request(f, h) ==
  LET judged  == Judged(f, h)
      begun   == {i \in judged : BareSYN(h[i].packet)}
      packets == {i \in judged : \A s \in begun : i > s}
  IN  [packets  |-> packets,
       start    |-> IF begun = {} THEN 0 ELSE h[Max(begun)].done,
       bytes    |-> SumFunction([i \in packets |-> Len(h[i].packet.payload)]),
       complete |-> \E i \in packets : HasHeaderEnd(h[i].packet)]

TakenForSlow(f, h) ==
  LET n       == Len(h)
      request == Request(f, h)
      time    == h[n].done - request.start
  IN  /\ n \in request.packets
      /\ \/ /\ time > HTTP_HEADER_TIMEOUT
            /\ ~request.complete \/ request.bytes < MIN_BYTES * time
         \/ h[n].packet.win_zero /\ n > MinPackets

TakenFor(f, h) ==
  IF TakenForFlood(f, h) THEN "DDOS_VOLUMETRIC"
  ELSE IF TakenForScan(f, h) THEN "PORT_SCAN"
  ELSE IF Suspicious(f, h) \/ (IsHttp(f) /\ TakenForSlow(f, h)) THEN "SLOW_DDOS"
  ELSE "NORMAL"

(* What FlowState holds of the packets h.                                  *)
Recounted(f, fl, h) ==
  LET from    == Max(WindowStarts(h))
      request == Request(f, h)
  IN  /\ fl.total_packets = Len(h)
      /\ fl.syn_count = Cardinality(Indices(h, LAMBDA p : "SYN" \in p.flags))
      /\ fl.rst_count = Cardinality(Indices(h, LAMBDA p : "RST" \in p.flags))
      /\ fl.syn_no_ack = Cardinality(Indices(h, BareSYN))
      /\ fl.window_start = h[from].at /\ fl.pkt_rate_window = Len(h) - from + 1
      /\ IsHttp(f) =>
           /\ fl.http_start = request.start
           /\ fl.http_bytes_received = request.bytes
           /\ fl.http_header_complete = request.complete

-----------------------------------------------------------------------------
(*                                Properties                               *)

(* The counters, windows and flags kept in FlowState, with their resets    *)
(* and the early returns that skip some of them, are after every packet    *)
(* what recounting the flow's packets gives, and the verdict is the one    *)
(* that the code's comparisons give on the recounted numbers.              *)
CountersAreRecounted ==
  LET f == last.flow
      h == history[f]
  IN  h # << >> => Recounted(f, flows[f], h) /\ last.result = TakenFor(f, h)

(* "SYN/10s", "syn_no_ack > 100 in 10s", "Packets trong 10s gan nhat": a   *)
(* flood is more packets than allowed within the last WINDOW.              *)
FloodIsRecent ==
  last.result = "DDOS_VOLUMETRIC" =>
    LET f      == last.flow
        h      == history[f]
        recent == {i \in DOMAIN h : now - h[i].at <= WINDOW}
    IN  \/ Cardinality(recent \intersect Indices(h, BareSYN)) > SYN_RATE_THRESHOLD
        \/ f.protocol = "UDP" /\ Cardinality(recent) > UDP_RATE_THRESHOLD
=============================================================================
