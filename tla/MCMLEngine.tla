----------------------------- MODULE MCMLEngine -----------------------------
(* A queue of one job for three jobs of two flows, two administrators.     *)
EXTENDS MLEngine

OneProducer == {"feeder"}

Tls == [duration |-> 4, total_packets |-> 6, total_bytes |-> 4000, syn_count |-> 1,
        ack_count |-> 5, rst_count |-> 0, fin_count |-> 0, syn_no_ack |-> 1,
        http_header_complete |-> FALSE, dst_ports_seen |-> 1, is_malicious |-> FALSE]
Udp == [Tls EXCEPT !.duration = 3, !.total_packets = 30000, !.total_bytes = 2000000,
                   !.syn_count = 0, !.syn_no_ack = 0, !.ack_count = 0]

MCFlowLives ==
  [web |-> <<[Tls EXCEPT !.total_packets = 4],
             [Tls EXCEPT !.http_header_complete = TRUE, !.rst_count = 3]>>,
   udp |-> <<Udp>>]
=============================================================================
