----------------------------- MODULE PacketRing -----------------------------
(***************************************************************************)
(* pcap_io/packet_ring_buffer.cpp: the circular buffer through which the   *)
(* workers hand packet records to the user interface.  Every operation     *)
(* holds mutex_, but total_received_ is an atomic that totalReceived,      *)
(* oldestIndex and newestIndex read without it, and push increments it     *)
(* before it stores the record: push is two steps, and the operations that *)
(* take the mutex cannot come between them.                                *)
(***************************************************************************)
EXTENDS Integers, FiniteSets

CONSTANTS Packets,      \* what a record says of its packet
          NoPacket,     \* the contents of a default-constructed record
          max_packets,  \* max_packets_
          keep_raw,     \* keep_raw_last_n_
          MaxTotal      \* bound: pushes since the start or the last clear

(* The buffers the program creates: 100000 or 200000 records, raw bytes    *)
(* for the last 65535, 1000 or 2000 of them.  A larger keep_raw would have *)
(* push reset a newer record than it means to, and 0 would reset none.     *)
ASSUME RingAssumption == /\ max_packets \in Nat
                         /\ keep_raw \in 1 .. max_packets
                         /\ MaxTotal \in Nat
                         /\ NoPacket \notin Packets

VARIABLES buffer,   \* buffer_: a record per slot
          total,    \* total_received_
          pushing,  \* a push has incremented total_ and not stored its record
          record    \* the record it is going to store

vars == <<buffer, total, pushing, record>>

Slots        == 0 .. max_packets - 1
SlotOf(i)    == i % max_packets
PacketRecord == [index : Nat, packet : Packets \union {NoPacket}, raw : BOOLEAN]
EmptyRecord  == [index |-> 0, packet |-> NoPacket, raw |-> FALSE]

TypeOK == /\ buffer \in [Slots -> PacketRecord]
          /\ total \in 0 .. MaxTotal
          /\ pushing \in BOOLEAN
          /\ record \in PacketRecord

Init == /\ buffer = [s \in Slots |-> EmptyRecord]
        /\ total = 0
        /\ pushing = FALSE
        /\ record = EmptyRecord

(* raw_data.reset(): the shared_ptr in the slot is dropped.                *)
ResetRaw(S) ==
  [s \in Slots |-> IF s \in S THEN [buffer[s] EXCEPT !.raw = FALSE] ELSE buffer[s]]

(* Fault: raw bytes leave one push late.                                   *)
AgedOneLate(idx) ==
  {SlotOf(idx)} \union IF idx > keep_raw THEN {SlotOf(idx - keep_raw - 1)} ELSE {}

(* The slots a push of index idx takes the raw bytes from: its own, and    *)
(* that of the record which is no longer among the last keep_raw.          *)
Evicted(idx) ==
  {SlotOf(idx)} \union IF idx >= keep_raw THEN {SlotOf(idx - keep_raw)} ELSE {}

(* push, up to the evictions: the index is taken and visible.  No eviction *)
(* callback is ever installed.                                             *)
PushBegins(p, r) ==
  /\ ~pushing /\ pushing' = TRUE
  /\ total < MaxTotal
  /\ total' = total + 1
  /\ record' = [index |-> total, packet |-> p, raw |-> r]
  /\ buffer' = ResetRaw(Evicted(total))

(* Fault: the slot is taken from the index already increased.              *)
PushStoresNextSlot ==
  /\ pushing /\ pushing' = FALSE
  /\ buffer' = [buffer EXCEPT ![SlotOf(record.index + 1)] = record]
  /\ record' = EmptyRecord
  /\ UNCHANGED total

(* buffer_[slot] = std::move(record), and the mutex is released.           *)
PushStores ==
  /\ pushing /\ pushing' = FALSE
  /\ buffer' = [buffer EXCEPT ![SlotOf(record.index)] = record]
  /\ record' = EmptyRecord
  /\ UNCHANGED total

(* Fault: clear leaves total_received_ alone.                              *)
ClearWithoutTotal ==
  /\ ~pushing
  /\ buffer' = [s \in Slots |-> EmptyRecord]
  /\ UNCHANGED <<total, pushing, record>>

Clear ==
  /\ ~pushing
  /\ buffer' = [s \in Slots |-> EmptyRecord]
  /\ total' = 0
  /\ UNCHANGED <<pushing, record>>

EvictAllRawData ==
  /\ ~pushing
  /\ buffer' = ResetRaw(Slots)
  /\ UNCHANGED <<total, pushing, record>>

Next == \/ \E p \in Packets, r \in BOOLEAN : PushBegins(p, r)
        \/ PushStores
        \/ Clear
        \/ EvictAllRawData

Spec == Init /\ [][Next]_vars

-----------------------------------------------------------------------------
(*                  The read operations, under the mutex                   *)

oldestIndex == IF total > max_packets THEN total - max_packets ELSE 0

newestIndex == IF total > 0 THEN total - 1 ELSE 0

size == IF total < max_packets THEN total ELSE max_packets

(* The indices a reader looks up from `from' to `to' - 1, as clipped.      *)
Clipped(from, to) ==
  (IF from > oldestIndex THEN from ELSE oldestIndex)
    .. (IF to < total THEN to ELSE total) - 1

Present(i) == buffer[SlotOf(i)].index = i

(* The records getRange returns, which it lists by increasing index.       *)
getRange(from, to) == {buffer[SlotOf(i)] : i \in {j \in Clipped(from, to) : Present(j)}}

(* getByIndex (and withRecord) find a record, or return null.              *)
finds(i) == i < total /\ i >= oldestIndex /\ Present(i)

-----------------------------------------------------------------------------
(*                                Properties                               *)

(* Whoever holds the mutex finds every index from oldestIndex to           *)
(* newestIndex, through getRange and getByIndex alike: no record of the    *)
(* window is skipped as missing, whatever pushes and clears came before.   *)
WindowComplete ==
  ~pushing =>
    /\ {r.index : r \in getRange(0, total)} = oldestIndex .. total - 1
    /\ \A i \in oldestIndex .. total - 1 : finds(i)
    /\ size > 0 => finds(newestIndex)
    /\ \A r \in getRange(0, total) : r.packet \in Packets

(* Memory bound: raw bytes are held for records among the last keep_raw    *)
(* only, so for no more than keep_raw at a time.                           *)
RawIsRecent ==
  /\ \A s \in Slots : buffer[s].raw => buffer[s].index >= total - keep_raw
  /\ Cardinality({s \in Slots : buffer[s].raw}) <= keep_raw

(* Readers see the abstract window.  A push takes effect when it takes its *)
(* index: nobody can look into the slot before it is stored.               *)
Contents ==
  [i \in oldestIndex .. total - 1 |->
     LET r == IF pushing /\ i = total - 1 THEN record ELSE buffer[SlotOf(i)]
     IN  [packet |-> r.packet, raw |-> r.raw]]

Window == INSTANCE RecordWindow WITH window <- Contents

(* The ring implements the window of the last max_packets records.         *)
ImplementsWindow == Window!Spec
=============================================================================
