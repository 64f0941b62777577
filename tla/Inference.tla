----------------------------- MODULE Inference -----------------------------
(***************************************************************************)
(* What layer 2 makes of a flow: FeatureExtractor, the models that the     *)
(* program falls back to without ONNX Runtime (MockIsolationForest,        *)
(* MockAutoencoder), and MLEngine's vote and classification.  A feature is *)
(* a fraction; scores and confidences are in thousandths, rounded down.    *)
(***************************************************************************)
EXTENDS Integers, Functions, FiniteSetsExt

(* FlowState, as far as extract reads it; durationSeconds in whole seconds.*)
FlowState == [duration : Nat, total_packets : Nat, total_bytes : Nat,
              syn_count : Nat, ack_count : Nat, rst_count : Nat, fin_count : Nat,
              syn_no_ack : Nat, http_header_complete : BOOLEAN,
              dst_ports_seen : Nat, is_malicious : BOOLEAN]

(* The largest value of each feature; the smallest is always 0.            *)
BOUNDS == [flow_duration |-> 3600, total_pkt_fwd |-> 100000, total_pkt_bwd |-> 100000,
           total_byte_fwd |-> 100000000, total_byte_bwd |-> 100000000,
           syn_count |-> 10000, ack_count |-> 10000, rst_count |-> 10000, fin_count |-> 10000,
           syn_no_ack_ratio |-> 1, pkt_rate |-> 50000, byte_rate |-> 1000000000,
           pkt_per_flow |-> 1000, conn_duration |-> 3600, bytes_per_second |-> 10000000,
           inter_arrival_mean |-> 60000, inter_arrival_std |-> 60000,
           header_complete |-> 1, concurrent_conn |-> 200, unique_dst_ports |-> 65535,
           rst_ratio |-> 1]

Features == DOMAIN BOUNDS

Frac(n, d)  == [num |-> n, den |-> d]
Whole(n)    == Frac(n, 1)
Ratio(n, d) == IF d = 0 THEN Whole(0) ELSE Frac(n, d)

PerMille(q)      == (1000 * q.num) \div q.den
Exceeds(q, n, d) == q.num * d > n * q.den
Below(q, n, d)   == q.num * d < n * q.den

-----------------------------------------------------------------------------
(*                             FeatureExtractor                            *)

(* A rate over a duration, of which 1 ms is the least.                     *)
PerSecond(n, duration) == IF duration = 0 THEN 1000 * n ELSE n \div duration

(* fwd_packets, bwd_packets and concurrent_conn are never written.         *)
extract(fl) ==
  LET n   == fl.total_packets
      iat == IF n > 1 THEN Max({1000 * fl.duration, 1}) \div (n - 1) ELSE 0
  IN  [flow_duration |-> Whole(fl.duration), total_pkt_fwd |-> Whole(0), total_pkt_bwd |-> Whole(0),
       total_byte_fwd |-> Whole((6 * fl.total_bytes) \div 10),
       total_byte_bwd |-> Whole((4 * fl.total_bytes) \div 10),
       syn_count |-> Whole(fl.syn_count), ack_count |-> Whole(fl.ack_count),
       rst_count |-> Whole(fl.rst_count), fin_count |-> Whole(fl.fin_count),
       syn_no_ack_ratio |-> Ratio(fl.syn_no_ack, fl.syn_count),
       pkt_rate |-> Whole(PerSecond(n, fl.duration)),
       byte_rate |-> Whole(PerSecond(fl.total_bytes, fl.duration)),
       pkt_per_flow |-> Whole(n), conn_duration |-> Whole(fl.duration),
       bytes_per_second |-> Whole(IF fl.duration = 0 THEN 0 ELSE fl.total_bytes \div fl.duration),
       inter_arrival_mean |-> Whole(iat), inter_arrival_std |-> Whole((3 * iat) \div 10),
       header_complete |-> Whole(IF fl.http_header_complete THEN 1 ELSE 0),
       concurrent_conn |-> Whole(0), unique_dst_ports |-> Whole(fl.dst_ports_seen),
       rst_ratio |-> Ratio(fl.rst_count, n)]

clampNormalize(q, max) == IF Exceeds(q, max, 1) THEN Whole(1) ELSE Frac(q.num, q.den * max)

normalize(fv) == [n \in Features |-> clampNormalize(fv[n], BOUNDS[n])]

-----------------------------------------------------------------------------
(*                               The models                                *)

IF_THRESHOLD == 600   \* of 1000
AE_THRESHOLD == 50

Output(score, threshold) == [score |-> score, is_anomaly |-> score > threshold]

When(condition, value) == IF condition THEN value ELSE 0

(* The signals are made for raw features; processJob passes normalized     *)
(* ones, which never exceed 1.                                             *)
MockIsolationForest(fv) ==
  LET ddos == When(Exceeds(fv.pkt_rate, 1000, 1),
                   Min({(PerMille(fv.pkt_rate) - 1000000) \div 9000, 400}))
            + When(Exceeds(fv.syn_no_ack_ratio, 7, 10), PerMille(fv.syn_no_ack_ratio) - 700)
      idle == Exceeds(fv.conn_duration, 30, 1)
      slow == When(idle /\ Below(fv.bytes_per_second, 10, 1),
                   Min({PerMille(fv.conn_duration) \div 300, 350})
                   + (1000 - Min({PerMille(fv.bytes_per_second) \div 10, 1000})) \div 4)
            + When(idle /\ Below(fv.header_complete, 1, 2), 200)
      scan == When(Exceeds(fv.unique_dst_ports, 20, 1),
                   Min({(PerMille(fv.unique_dst_ports) - 20000) \div 80, 400}))
            + When(Exceeds(fv.rst_ratio, 1, 2), (6 * (PerMille(fv.rst_ratio) - 500)) \div 10)
  IN  Output(Min({Max({ddos, slow, scan}), 1000}), IF_THRESHOLD)

(* NORMAL_BASELINE, in thousandths.                                        *)
Baseline ==
  [flow_duration |-> 5000, total_pkt_fwd |-> 0, total_pkt_bwd |-> 0, total_byte_fwd |-> 0,
   total_byte_bwd |-> 0, syn_count |-> 0, ack_count |-> 0, rst_count |-> 0, fin_count |-> 0,
   syn_no_ack_ratio |-> 50, pkt_rate |-> 50000, byte_rate |-> 5000000, pkt_per_flow |-> 0,
   conn_duration |-> 5000, bytes_per_second |-> 1000000, inter_arrival_mean |-> 100000,
   inter_arrival_std |-> 30000, header_complete |-> 1000, concurrent_conn |-> 0,
   unique_dst_ports |-> 2000, rst_ratio |-> 20]

Square(x) == x * x
Scaled(thousandths, max) == Min({thousandths \div max, 1000})

(* The sum of squares is in millionths.                                    *)
Reconstruction(distance) ==
  LET sum == SumFunction([n \in Features |-> Square(distance[n])])
      N   == Cardinality(Features)
  IN  [score |-> sum \div (1000 * N), is_anomaly |-> sum > 1000 * AE_THRESHOLD * N]

(* Fault: the normalized features are taken as they are.                   *)
MockAutoencoderOnce(fv) ==
  Reconstruction([n \in Features |-> PerMille(fv[n]) - Scaled(Baseline[n], BOUNDS[n])])

(* The features, normalized by processJob, are normalized once more.       *)
MockAutoencoder(fv) ==
  Reconstruction([n \in Features |->
    Scaled(PerMille(fv[n]), BOUNDS[n]) - Scaled(Baseline[n], BOUNDS[n])])

-----------------------------------------------------------------------------
(*                     MLEngine's vote and classification                  *)

(* Ties go to SLOW_DDOS, then to DDOS_VOLUMETRIC.                          *)
classifyThreat(fv) ==
  LET slow == When(Exceeds(fv.conn_duration, 1, 10), 4)
            + When(Below(fv.bytes_per_second, 1, 1000), 3)
            + When(Below(fv.header_complete, 1, 2), 3)
      ddos == When(Exceeds(fv.pkt_rate, 2, 100), 5)
            + When(Exceeds(fv.syn_no_ack_ratio, 7, 10), 5)
      scan == When(Exceeds(fv.unique_dst_ports, 3, 10000), 5)
            + When(Exceeds(fv.rst_ratio, 1, 2), 5)
  IN  CASE slow >= ddos /\ slow >= scan -> "SLOW_DDOS"
        [] (slow < ddos \/ slow < scan) /\ ddos >= scan -> "DDOS_VOLUMETRIC"
        [] OTHER -> "PORT_SCAN"

combineResults(if_out, ae_out, fv) ==
  LET anomalous == {out \in {if_out, ae_out} : out.is_anomaly}
  IN  IF anomalous = {} THEN [result |-> "NORMAL", confidence |-> 1000 - Max({if_out.score, ae_out.score})]
      ELSE [result |-> classifyThreat(fv),
            confidence |-> CASE if_out.is_anomaly /\ ae_out.is_anomaly -> (if_out.score + ae_out.score) \div 2
                             [] if_out.is_anomaly /\ ~ae_out.is_anomaly -> (7 * if_out.score) \div 10
                             [] OTHER -> (7 * ae_out.score) \div 10]

(* The outputs a model may give: a mock computes its own, an ONNX model is *)
(* not known, and gives no score where inference fails.                    *)
infer(mock, own, scores, threshold) ==
  IF mock THEN {own} ELSE {Output(s, threshold) : s \in scores \union {0}}
=============================================================================
