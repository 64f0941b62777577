---------------------------- MODULE RecordWindow ----------------------------
(***************************************************************************)
(* What the packet ring promises its readers (pcap_io/                     *)
(* packet_ring_buffer.hpp), without slots, indices modulo anything or a    *)
(* mutex: a window over the last max_packets records received, numbered by *)
(* arrival, of which the last keep_raw_last_n may still have raw bytes.    *)
(***************************************************************************)
EXTENDS Integers

CONSTANTS Packets,      \* what a record says of its packet
          max_packets,  \* records kept
          keep_raw,     \* records whose raw bytes are kept (keep_raw_last_n)
          MaxTotal      \* bound: records received since the start or a clear

VARIABLES total,        \* records received since the start or the last clear
          window        \* the records still there, by index

Content    == [packet : Packets, raw : BOOLEAN]
Oldest(n)  == IF n > max_packets THEN n - max_packets ELSE 0
Indices(n) == Oldest(n) .. n - 1

TypeOK == total \in Nat /\ window \in [Indices(total) -> Content]

Empty == total = 0 /\ window = [i \in Indices(0) |-> CHOOSE c \in Content : TRUE]

WithoutRaw(c) == [packet |-> c.packet, raw |-> FALSE]

(* The new record takes the next index; records beyond max_packets leave,  *)
(* and those beyond keep_raw lose their bytes.                             *)
Push(c) ==
  /\ total < MaxTotal
  /\ total' = total + 1
  /\ window' = [i \in Indices(total + 1) |->
                  CASE i = total            -> c
                    [] i < total /\ i > total - keep_raw -> window[i]
                    [] OTHER                -> WithoutRaw(window[i])]

Clear == Empty'

EvictAllRawData ==
  /\ window' = [i \in Indices(total) |-> WithoutRaw(window[i])]
  /\ UNCHANGED total

Next == (\E c \in Content : Push(c)) \/ Clear \/ EvictAllRawData

Spec == Empty /\ [][Next]_<<total, window>>
=============================================================================
