-------------------------- MODULE PacketRingProofs --------------------------
(***************************************************************************)
(* For any ring size, any number of raw records kept and any records: the  *)
(* ring implements the abstract window, holds no hole and no raw bytes     *)
(* beyond the last keep_raw records.                                       *)
(***************************************************************************)
EXTENDS PacketRing, FiniteSetTheorems, NumberLemmas, TLAPS

-----------------------------------------------------------------------------
(*                           Indices and slots                             *)

LEMMA SlotType == max_packets \in Nat \ {0} /\ \A i \in Nat : SlotOf(i) \in Slots
  BY RingAssumption, DivMod DEF SlotOf, Slots

(* Two indices less than a whole ring apart have different slots.          *)
LEMMA SlotUnique ==
  ASSUME NEW a \in Nat, NEW b \in Nat, a < b, b < a + max_packets
  PROVE  SlotOf(a) # SlotOf(b)
  BY ModUnique, SlotType DEF SlotOf

LEMMA OldestType ==
  ASSUME total \in Nat
  PROVE  /\ oldestIndex \in Nat
         /\ \A i \in oldestIndex .. total - 1 :
              i \in Nat /\ i < total /\ total <= i + max_packets
  BY RingAssumption DEF oldestIndex

(* The indices of a window have a slot each.                               *)
LEMMA WindowSlots ==
  ASSUME total \in Nat,
         NEW i \in oldestIndex .. total - 1, NEW j \in oldestIndex .. total - 1, i # j
  PROVE  SlotOf(i) # SlotOf(j)
<1>1. /\ i \in Nat /\ i < total /\ total <= i + max_packets
      /\ j \in Nat /\ j < total /\ total <= j + max_packets
  BY OldestType
<1>2. max_packets \in Nat BY RingAssumption
<1>3. CASE i < j BY <1>1, <1>2, <1>3, SlotUnique
<1>4. CASE j < i BY <1>1, <1>2, <1>4, SlotUnique
<1> QED BY <1>1, <1>3, <1>4

LEMMA EmptyRecordType == EmptyRecord \in PacketRecord
  BY DEF EmptyRecord, PacketRecord

LEMMA ResetRawType ==
  ASSUME TypeOK, NEW S
  PROVE  /\ ResetRaw(S) \in [Slots -> PacketRecord]
         /\ \A s \in Slots : /\ ResetRaw(S)[s].index = buffer[s].index
                             /\ ResetRaw(S)[s].packet = buffer[s].packet
                             /\ s \in S => ResetRaw(S)[s].raw = FALSE
                             /\ s \notin S => ResetRaw(S)[s].raw = buffer[s].raw
<1>1. \A s \in Slots : buffer[s] \in PacketRecord BY DEF TypeOK
<1> QED BY <1>1 DEF ResetRaw, PacketRecord

(* Dropping the bytes from the contents of a record.                       *)
LEMMA WithoutRawContents ==
  ASSUME NEW p, NEW r
  PROVE  Window!WithoutRaw([packet |-> p, raw |-> r]) = [packet |-> p, raw |-> FALSE]
  BY DEF Window!WithoutRaw

-----------------------------------------------------------------------------
(***************************************************************************)
(* The inductive invariant: besides the types, where each index of the     *)
(* window is stored, and that what has raw bytes is recent and in its own  *)
(* slot (it could otherwise escape the eviction by index arithmetic).      *)
(***************************************************************************)

PushingNewest ==
  pushing => total > 0 /\ record.index = total - 1 /\ record.packet \in Packets

WindowStored ==
  \A i \in oldestIndex .. total - 1 : ~(pushing /\ i = total - 1) =>
    buffer[SlotOf(i)].index = i /\ buffer[SlotOf(i)].packet \in Packets

RawStored ==
  \A s \in Slots : buffer[s].raw =>
    /\ buffer[s].index >= total - keep_raw
    /\ buffer[s].index < total
    /\ s = SlotOf(buffer[s].index)

RingInv == TypeOK /\ PushingNewest /\ WindowStored /\ RawStored

LEMMA InitInv == Init => RingInv
<1> SUFFICES ASSUME Init PROVE RingInv
  OBVIOUS
<1>1. TypeOK
  <2>1. total \in 0 .. MaxTotal BY RingAssumption DEF Init
  <2>2. buffer \in [Slots -> PacketRecord] BY EmptyRecordType DEF Init
  <2> QED BY <2>1, <2>2, EmptyRecordType DEF Init, TypeOK
<1>2. PushingNewest BY DEF Init, PushingNewest
<1>4. WindowStored
  <2>1. total = 0 /\ oldestIndex = 0 BY RingAssumption DEF Init, oldestIndex
  <2> QED BY <2>1 DEF WindowStored
<1>3. RawStored BY DEF Init, RawStored, EmptyRecord
<1> QED BY <1>1, <1>2, <1>3, <1>4 DEF RingInv

LEMMA PushBeginsInv ==
  ASSUME RingInv, NEW p \in Packets, NEW r \in BOOLEAN, PushBegins(p, r)
  PROVE  RingInv'
<1>0. /\ TypeOK /\ WindowStored /\ RawStored
      /\ total \in Nat /\ total' = total + 1 /\ pushing' /\ ~pushing
      /\ buffer' = ResetRaw(Evicted(total))
      /\ record' = [index |-> total, packet |-> p, raw |-> r]
  BY RingAssumption DEF RingInv, TypeOK, PushBegins
<1>1. TypeOK'
  <2>1. record' \in PacketRecord BY <1>0 DEF PacketRecord
  <2>2. total' \in 0 .. MaxTotal
    BY <1>0, RingAssumption DEF PushBegins, TypeOK
  <2> QED BY <1>0, <2>1, <2>2, ResetRawType DEF TypeOK
<1>2. PushingNewest' BY <1>0 DEF PushingNewest
<1>3. WindowStored'
  <2> SUFFICES ASSUME NEW i \in oldestIndex' .. total, i # total
               PROVE  buffer'[SlotOf(i)].index = i /\ buffer'[SlotOf(i)].packet \in Packets
    BY <1>0 DEF WindowStored
  <2>1. i \in oldestIndex .. total - 1
    BY <1>0, RingAssumption DEF oldestIndex
  <2>2. SlotOf(i) \in Slots
    BY <2>1, <1>0, OldestType, SlotType
  <2>3. /\ buffer'[SlotOf(i)].index = buffer[SlotOf(i)].index
        /\ buffer'[SlotOf(i)].packet = buffer[SlotOf(i)].packet
    BY <2>2, <1>0, ResetRawType
  <2> QED BY <2>1, <2>3, <1>0 DEF WindowStored
<1>4. RawStored'
  <2> SUFFICES ASSUME NEW s \in Slots, buffer'[s].raw
               PROVE  /\ buffer'[s].index >= total' - keep_raw
                      /\ buffer'[s].index < total'
                      /\ s = SlotOf(buffer'[s].index)
    BY DEF RawStored
  <2>1. buffer[s].raw /\ s \notin Evicted(total) /\ buffer'[s].index = buffer[s].index
    BY <1>0, ResetRawType
  <2>2. buffer[s].index \in Nat
    BY <1>0 DEF TypeOK, PacketRecord
  <2>3. /\ buffer[s].index >= total - keep_raw
        /\ buffer[s].index < total
        /\ s = SlotOf(buffer[s].index)
    BY <1>0, <2>1 DEF RawStored
  <2>4. keep_raw \in Nat BY RingAssumption
  <2>5. buffer[s].index # total - keep_raw
    BY <1>0, <2>1, <2>2, <2>3, <2>4 DEF Evicted
  <2> QED BY <1>0, <2>1, <2>2, <2>3, <2>4, <2>5
<1> QED BY <1>1, <1>2, <1>3, <1>4 DEF RingInv

LEMMA PushStoresInv ==
  ASSUME RingInv, PushStores
  PROVE  RingInv'
<1>0. /\ TypeOK /\ WindowStored /\ RawStored
      /\ total \in Nat /\ total' = total /\ total > 0 /\ ~pushing'
      /\ record.index = total - 1 /\ record.packet \in Packets
      /\ buffer' = [buffer EXCEPT ![SlotOf(total - 1)] = record]
  <2>1. TypeOK /\ WindowStored /\ RawStored BY DEF RingInv
  <2>2. total \in Nat BY <2>1, RingAssumption DEF TypeOK
  <2>3. total > 0 /\ record.index = total - 1 /\ record.packet \in Packets
    BY DEF RingInv, PushingNewest, PushStores
  <2>4. /\ total' = total /\ ~pushing'
        /\ buffer' = [buffer EXCEPT ![SlotOf(record.index)] = record]
    BY DEF PushStores
  <2> QED BY <2>1, <2>2, <2>3, <2>4
<1>1. SlotOf(total - 1) \in Slots BY <1>0, SlotType
<1>2. TypeOK'
  BY <1>0, EmptyRecordType DEF TypeOK, PushStores
<1>3. PushingNewest' BY <1>0 DEF PushingNewest
<1>4. WindowStored'
  <2> SUFFICES ASSUME NEW i \in oldestIndex .. total - 1
               PROVE  buffer'[SlotOf(i)].index = i /\ buffer'[SlotOf(i)].packet \in Packets
    BY <1>0 DEF WindowStored, oldestIndex
  <2>1. CASE i = total - 1
    BY <2>1, <1>0, <1>1 DEF TypeOK
  <2>2. CASE i # total - 1
    <3>1. total - 1 \in oldestIndex .. total - 1
      BY <1>0, RingAssumption DEF oldestIndex
    <3>2. SlotOf(i) # SlotOf(total - 1) BY <1>0, <2>2, <3>1, WindowSlots
    <3>3. SlotOf(i) \in Slots BY <1>0, OldestType, SlotType
    <3> QED BY <1>0, <2>2, <3>2, <3>3 DEF TypeOK, WindowStored
  <2> QED BY <2>1, <2>2
<1>5. RawStored'
  <2> SUFFICES ASSUME NEW s \in Slots, buffer'[s].raw
               PROVE  /\ buffer'[s].index >= total - keep_raw
                      /\ buffer'[s].index < total
                      /\ s = SlotOf(buffer'[s].index)
    BY <1>0 DEF RawStored
  <2>1. CASE s = SlotOf(total - 1)
    BY <2>1, <1>0, RingAssumption DEF TypeOK
  <2>2. CASE s # SlotOf(total - 1)
    BY <2>2, <1>0 DEF TypeOK, RawStored
  <2> QED BY <2>1, <2>2
<1> QED BY <1>2, <1>3, <1>4, <1>5 DEF RingInv

LEMMA ClearInv == ASSUME RingInv, Clear PROVE RingInv'
<1>1. TypeOK'
  <2>1. total' \in 0 .. MaxTotal BY RingAssumption DEF Clear
  <2>2. buffer' \in [Slots -> PacketRecord] BY EmptyRecordType DEF Clear
  <2> QED BY <2>1, <2>2 DEF RingInv, TypeOK, Clear
<1>2. PushingNewest' BY DEF Clear, PushingNewest
<1>4. WindowStored'
  <2>1. total' = 0 /\ oldestIndex' = 0 BY RingAssumption DEF Clear, oldestIndex
  <2> QED BY <2>1 DEF WindowStored
<1>3. RawStored' BY DEF Clear, RawStored, EmptyRecord
<1> QED BY <1>1, <1>2, <1>3, <1>4 DEF RingInv

LEMMA EvictAllRawDataInv == ASSUME RingInv, EvictAllRawData PROVE RingInv'
<1>0. /\ TypeOK /\ total \in Nat /\ buffer' = ResetRaw(Slots)
      /\ total' = total /\ pushing' = pushing /\ record' = record
  BY DEF RingInv, TypeOK, EvictAllRawData
<1>1. TypeOK' BY <1>0, ResetRawType DEF TypeOK
<1>2. PushingNewest' BY <1>0 DEF RingInv, PushingNewest
<1>3. WindowStored'
  <2>1. \A i \in oldestIndex .. total - 1 : SlotOf(i) \in Slots
    BY <1>0, OldestType, SlotType
  <2>2. \A i \in oldestIndex .. total - 1 :
          /\ buffer'[SlotOf(i)].index = buffer[SlotOf(i)].index
          /\ buffer'[SlotOf(i)].packet = buffer[SlotOf(i)].packet
    BY <2>1, <1>0, ResetRawType
  <2>3. oldestIndex' = oldestIndex BY <1>0 DEF oldestIndex
  <2> QED BY <1>0, <2>2, <2>3 DEF RingInv, WindowStored
<1>4. RawStored' BY <1>0, ResetRawType DEF RawStored
<1> QED BY <1>1, <1>2, <1>3, <1>4 DEF RingInv

LEMMA NextInv == RingInv /\ [Next]_vars => RingInv'
<1> SUFFICES ASSUME RingInv, [Next]_vars PROVE RingInv'
  OBVIOUS
<1>1. CASE Next
  BY <1>1, PushBeginsInv, PushStoresInv, ClearInv, EvictAllRawDataInv DEF Next
<1>2. CASE UNCHANGED vars
  BY <1>2 DEF vars, RingInv, TypeOK, PushingNewest, WindowStored, RawStored, oldestIndex
<1> QED BY <1>1, <1>2

LEMMA RingInvHolds == Spec => []RingInv
  BY InitInv, NextInv, PTL DEF Spec

-----------------------------------------------------------------------------
LEMMA InvImpliesWindowComplete == RingInv => WindowComplete
<1> SUFFICES ASSUME RingInv, ~pushing
             PROVE  /\ {r.index : r \in getRange(0, total)} = oldestIndex .. total - 1
                    /\ \A i \in oldestIndex .. total - 1 : finds(i)
                    /\ size > 0 => finds(newestIndex)
                    /\ \A r \in getRange(0, total) : r.packet \in Packets
  BY DEF WindowComplete
<1>1. total \in Nat /\ oldestIndex \in Nat
  BY OldestType DEF RingInv, TypeOK
<1>2. \A i \in oldestIndex .. total - 1 :
         buffer[SlotOf(i)].index = i /\ buffer[SlotOf(i)].packet \in Packets
  BY DEF RingInv, WindowStored
<1>3. Clipped(0, total) = oldestIndex .. total - 1
  BY <1>1 DEF Clipped
<1>4. getRange(0, total) = {buffer[SlotOf(i)] : i \in oldestIndex .. total - 1}
  <2>1. {j \in Clipped(0, total) : Present(j)} = oldestIndex .. total - 1
    BY <1>2, <1>3 DEF Present
  <2> QED BY <2>1 DEF getRange
<1>5. {r.index : r \in getRange(0, total)} = oldestIndex .. total - 1
  BY <1>2, <1>4
<1>6. \A i \in oldestIndex .. total - 1 : finds(i)
  BY <1>1, <1>2 DEF finds, Present
<1>7. size > 0 => newestIndex \in oldestIndex .. total - 1
  BY <1>1, RingAssumption DEF size, newestIndex, oldestIndex
<1>8. \A r \in getRange(0, total) : r.packet \in Packets
  BY <1>2, <1>4
<1> QED BY <1>5, <1>6, <1>7, <1>8

(* The slots with raw bytes are those of at most keep_raw indices.         *)
LEMMA InvImpliesRawIsRecent == RingInv => RawIsRecent
<1> SUFFICES ASSUME RingInv PROVE RawIsRecent
  OBVIOUS
<1> DEFINE a == IF total > keep_raw THEN total - keep_raw ELSE 0
           I == a .. total - 1
           R == {s \in Slots : buffer[s].raw}
           f == [s \in R |-> buffer[s].index]
<1>0. total \in Nat /\ keep_raw \in Nat
  BY RingAssumption DEF RingInv, TypeOK
<1>1. a \in Nat /\ total - a <= keep_raw /\ total - a \in Nat
  BY <1>0
<1>2. \A s \in Slots : buffer[s].raw =>
         /\ buffer[s].index \in Nat /\ buffer[s].index < total
         /\ buffer[s].index >= total - keep_raw
         /\ s = SlotOf(buffer[s].index)
  BY DEF RingInv, TypeOK, RawStored, PacketRecord
<1>3. f \in [R -> I] /\ \A s \in R : s = SlotOf(f[s])
  BY <1>0, <1>2
<1>4. IsFiniteSet(I) /\ Cardinality(I) <= keep_raw /\ Cardinality(I) \in Nat
  <2>1. /\ IsFiniteSet(I)
        /\ Cardinality(I) = IF a > total - 1 THEN 0 ELSE (total - 1) - a + 1
    BY <1>0, <1>1, FS_Interval
  <2> QED BY <2>1, <1>0, <1>1
<1>5. IsFiniteSet(R) /\ Cardinality(R) \in Nat
  <2>1. IsFiniteSet(Slots) BY SlotType, FS_Interval DEF Slots
  <2> QED BY <2>1, FS_Subset, FS_CardinalityType
<1> HIDE DEF a, I, R, f
<1>6. ~(Cardinality(I) < Cardinality(R))
  <2> SUFFICES ASSUME Cardinality(I) < Cardinality(R) PROVE FALSE
    OBVIOUS
  <2>1. PICK x \in R, y \in R : x # y /\ f[x] = f[y]
    BY <1>3, <1>4, <1>5, FS_PigeonHole
  <2> QED BY <2>1, <1>3
<1>7. Cardinality(R) <= keep_raw BY <1>0, <1>4, <1>5, <1>6
<1> QED BY <1>2, <1>7 DEF RawIsRecent, R

(* Whoever holds the mutex finds the whole window, without a hole.         *)
THEOREM WindowCompleteHolds == Spec => []WindowComplete
  BY RingInvHolds, InvImpliesWindowComplete, PTL

(* Raw bytes are held for the last keep_raw records at most.               *)
THEOREM RawIsRecentHolds == Spec => []RawIsRecent
  BY RingInvHolds, InvImpliesRawIsRecent, PTL

-----------------------------------------------------------------------------
(*                 The ring implements the abstract window                 *)

LEMMA SameIndices ==
  Window!Indices(total) = oldestIndex .. total - 1
  BY DEF Window!Indices, Window!Oldest, oldestIndex

LEMMA RefinesInit == Init => Window!Empty
<1> SUFFICES ASSUME Init PROVE Window!Empty
  OBVIOUS
<1>1. total = 0 /\ oldestIndex .. total - 1 = {}
  BY RingAssumption DEF Init, oldestIndex
<1>2. Window!Indices(0) = {}
  BY RingAssumption DEF Window!Indices, Window!Oldest
<1> QED BY <1>1, <1>2 DEF Window!Empty, Contents

(* The step that takes the index is the abstract push: it takes the raw    *)
(* bytes from exactly the record that leaves the last keep_raw.            *)
LEMMA RefinesPush ==
  ASSUME RingInv, NEW p \in Packets, NEW r \in BOOLEAN, PushBegins(p, r)
  PROVE  Window!Push([packet |-> p, raw |-> r])
<1> DEFINE c == [packet |-> p, raw |-> r]
           w(i) == Contents[i]
<1>0. /\ TypeOK /\ RawStored /\ WindowStored
      /\ total \in Nat /\ total' = total + 1 /\ total < MaxTotal
      /\ pushing' = TRUE /\ pushing = FALSE
      /\ buffer' = ResetRaw(Evicted(total))
      /\ record' = [index |-> total, packet |-> p, raw |-> r]
  BY RingAssumption DEF RingInv, TypeOK, PushBegins
<1>1. keep_raw \in Nat /\ max_packets \in Nat /\ keep_raw <= max_packets /\ keep_raw >= 1
  BY RingAssumption
<1>2. Window!Indices(total + 1) = oldestIndex' .. total' - 1
  BY <1>0 DEF Window!Indices, Window!Oldest, oldestIndex
<1>3. oldestIndex' \in Nat /\ \A i \in oldestIndex' .. total : i # total =>
         i \in oldestIndex .. total - 1 /\ i \in Nat /\ total < i + max_packets
  BY <1>0, <1>1 DEF oldestIndex
<1>4. \A i \in oldestIndex' .. total' - 1 :
         Contents'[i] = CASE i = total -> c
                          [] i < total /\ i > total - keep_raw -> w(i)
                          [] OTHER -> Window!WithoutRaw(w(i))
  <2> SUFFICES ASSUME NEW i \in oldestIndex' .. total
               PROVE  Contents'[i] = CASE i = total -> c
                                       [] i < total /\ i > total - keep_raw -> w(i)
                                       [] OTHER -> Window!WithoutRaw(w(i))
    BY <1>0
  <2>1. CASE i = total
    <3>1. Contents'[i] = [packet |-> record'.packet, raw |-> record'.raw]
      BY <2>1, <1>0, <1>3 DEF Contents
    <3> QED BY <3>1, <2>1, <1>0
  <2>2. CASE i # total
    <3> DEFINE s == SlotOf(i)
    <3>1. /\ i \in Nat /\ i < total /\ total < i + max_packets
          /\ i \in oldestIndex .. total - 1
      BY <2>2, <1>0, <1>3
    <3>2. s \in Slots /\ buffer[s].index = i /\ buffer[s] \in PacketRecord
      BY <3>1, <1>0, SlotType DEF WindowStored, TypeOK
    <3>3. w(i) = [packet |-> buffer[s].packet, raw |-> buffer[s].raw]
      BY <3>1, <1>0 DEF Contents
    <3>4. Contents'[i] = [packet |-> buffer'[s].packet, raw |-> buffer'[s].raw]
      BY <2>2, <1>0 DEF Contents
    <3>5. /\ buffer'[s].packet = buffer[s].packet
          /\ s \in Evicted(total) => buffer'[s].raw = FALSE
          /\ s \notin Evicted(total) => buffer'[s].raw = buffer[s].raw
      BY <3>2, <1>0, ResetRawType
    <3>6. s # SlotOf(total) BY <3>1, <1>0, SlotUnique
    <3> HIDE DEF s, c
    <3>7. CASE i > total - keep_raw
      <4>1. total >= keep_raw => SlotOf(total - keep_raw) # s
        BY <3>1, <3>7, <1>0, <1>1, SlotUnique DEF s
      <4>2. s \notin Evicted(total) BY <4>1, <3>6 DEF Evicted
      <4>3. Contents'[i] = w(i) BY <4>2, <3>3, <3>4, <3>5
      <4> QED BY <4>3, <3>7, <3>1
    <3>8. CASE ~(i > total - keep_raw)
      <4>1. CASE i = total - keep_raw
        <5>1. total >= keep_raw BY <4>1, <3>1, <1>0, <1>1
        <5>2. s \in Evicted(total) BY <5>1, <4>1 DEF Evicted, s
        <5> QED BY <5>2, <3>3, <3>4, <3>5, <3>8, <2>2, WithoutRawContents
      <4>2. CASE i < total - keep_raw
        <5>1. ~(buffer[s].index >= total - keep_raw) BY <4>2, <3>2, <3>1, <1>0, <1>1
        <5>2. ~buffer[s].raw BY <5>1, <3>2, <1>0 DEF RawStored
        <5>3. buffer[s].raw = FALSE BY <5>2, <3>2 DEF PacketRecord
        <5>4. buffer'[s].raw = FALSE BY <5>3, <3>5
        <5> QED BY <5>4, <3>3, <3>4, <3>5, <3>8, <2>2, WithoutRawContents
      <4> QED BY <4>1, <4>2, <3>8, <3>1, <1>0, <1>1
    <3> QED BY <3>7, <3>8
  <2> QED BY <2>1, <2>2
<1>5. Contents' = [i \in Window!Indices(total + 1) |->
                     CASE i = total -> c
                       [] i < total /\ i > total - keep_raw -> w(i)
                       [] OTHER -> Window!WithoutRaw(w(i))]
  BY <1>2, <1>4 DEF Contents
<1> QED BY <1>0, <1>5 DEF Window!Push

(* Storing the record is not visible.                                      *)
LEMMA RefinesStore ==
  ASSUME RingInv, PushStores
  PROVE  total' = total /\ Contents' = Contents
<1>0. /\ TypeOK /\ total \in Nat /\ total' = total /\ total > 0
      /\ pushing = TRUE /\ pushing' = FALSE /\ record.index = total - 1
      /\ buffer' = [buffer EXCEPT ![SlotOf(record.index)] = record]
  <2>1. TypeOK BY DEF RingInv
  <2>2. total \in Nat BY <2>1, RingAssumption DEF TypeOK
  <2>3. total > 0 /\ record.index = total - 1
    BY DEF RingInv, PushingNewest, PushStores
  <2>4. pushing = TRUE BY <2>1 DEF PushStores, TypeOK
  <2> QED BY <2>1, <2>2, <2>3, <2>4 DEF PushStores
<1>1. oldestIndex' = oldestIndex BY <1>0 DEF oldestIndex
<1>2. total - 1 \in oldestIndex .. total - 1
  BY <1>0, RingAssumption DEF oldestIndex
<1>3. \A i \in oldestIndex .. total - 1 : SlotOf(i) \in Slots
  BY <1>0, OldestType, SlotType
<1>4. \A i \in oldestIndex .. total - 1 :
         buffer'[SlotOf(i)] = IF i = total - 1 THEN record ELSE buffer[SlotOf(i)]
  <2> SUFFICES ASSUME NEW i \in oldestIndex .. total - 1
               PROVE  buffer'[SlotOf(i)] = IF i = total - 1 THEN record
                                                            ELSE buffer[SlotOf(i)]
    OBVIOUS
  <2>1. CASE i = total - 1 BY <2>1, <1>0, <1>3 DEF TypeOK
  <2>2. CASE i # total - 1
    <3>1. SlotOf(i) # SlotOf(total - 1) BY <2>2, <1>0, <1>2, WindowSlots
    <3> QED BY <3>1, <2>2, <1>0, <1>3 DEF TypeOK
  <2> QED BY <2>1, <2>2
<1> QED BY <1>0, <1>1, <1>4 DEF Contents

LEMMA RefinesClear == ASSUME Clear PROVE Window!Clear
<1>1. total' = 0 /\ oldestIndex' .. total' - 1 = {}
  BY RingAssumption DEF Clear, oldestIndex
<1>2. Window!Indices(0) = {}
  BY RingAssumption DEF Window!Indices, Window!Oldest
<1> QED BY <1>1, <1>2 DEF Window!Clear, Window!Empty, Contents

LEMMA RefinesEvictAll ==
  ASSUME RingInv, EvictAllRawData PROVE Window!EvictAllRawData
<1>0. /\ TypeOK /\ total \in Nat /\ buffer' = ResetRaw(Slots)
      /\ total' = total /\ pushing' = FALSE /\ pushing = FALSE
  BY DEF RingInv, TypeOK, EvictAllRawData
<1>1. oldestIndex' = oldestIndex BY <1>0 DEF oldestIndex
<1>2. \A i \in oldestIndex .. total - 1 : Contents'[i] = Window!WithoutRaw(Contents[i])
  <2> SUFFICES ASSUME NEW i \in oldestIndex .. total - 1
               PROVE  Contents'[i] = Window!WithoutRaw(Contents[i])
    OBVIOUS
  <2> DEFINE s == SlotOf(i)
  <2>1. s \in Slots BY <1>0, OldestType, SlotType
  <2>2. Contents[i] = [packet |-> buffer[s].packet, raw |-> buffer[s].raw]
    BY <1>0 DEF Contents
  <2>3. Contents'[i] = [packet |-> buffer'[s].packet, raw |-> buffer'[s].raw]
    BY <1>0, <1>1 DEF Contents
  <2>4. buffer'[s].packet = buffer[s].packet /\ buffer'[s].raw = FALSE
    BY <2>1, <1>0, ResetRawType
  <2> HIDE DEF s
  <2> QED BY <2>2, <2>3, <2>4, WithoutRawContents
<1>3. Contents' = [i \in oldestIndex .. total - 1 |-> Window!WithoutRaw(Contents[i])]
  BY <1>0, <1>1, <1>2 DEF Contents
<1> QED BY <1>0, <1>3, SameIndices DEF Window!EvictAllRawData

LEMMA RefinesNext ==
  RingInv /\ [Next]_vars => [Window!Next]_<<total, Contents>>
<1> SUFFICES ASSUME RingInv, [Next]_vars PROVE [Window!Next]_<<total, Contents>>
  OBVIOUS
<1>1. ASSUME NEW p \in Packets, NEW r \in BOOLEAN, PushBegins(p, r)
      PROVE  Window!Next
  <2>1. [packet |-> p, raw |-> r] \in Window!Content BY DEF Window!Content
  <2> QED BY <1>1, <2>1, RefinesPush DEF Window!Next
<1>2. CASE PushStores BY <1>2, RefinesStore
<1>3. CASE Clear BY <1>3, RefinesClear DEF Window!Next
<1>4. CASE EvictAllRawData BY <1>4, RefinesEvictAll DEF Window!Next
<1>5. CASE UNCHANGED vars BY <1>5 DEF vars, Contents, oldestIndex
<1> QED BY <1>1, <1>2, <1>3, <1>4, <1>5 DEF Next

(* The slots, the index arithmetic and the two-step push are invisible:    *)
(* the ring is the window of the last max_packets records.                 *)
THEOREM Refinement == Spec => ImplementsWindow
  BY RingInvHolds, RefinesInit, RefinesNext, PTL DEF Spec, ImplementsWindow, Window!Spec
=============================================================================
