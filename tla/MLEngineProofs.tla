--------------------------- MODULE MLEngineProofs ---------------------------
(***************************************************************************)
(* Layer 2 for any flows, models, capacity and administrators.  First the  *)
(* job queue alone: with a single producer it hands on every accepted job  *)
(* once and in order, refuses one only when it is full, and its two        *)
(* threads never touch the same slot at the same time.  Then the engine,   *)
(* which uses the queue as specified: no accepted job is lost, a copy of   *)
(* the proposals stays good until somebody takes a decision, the stand-in  *)
(* models never make a proposal, and they report a flow for its share of   *)
(* unanswered SYNs, of RSTs and its missing HTTP header alone.             *)
(***************************************************************************)
EXTENDS MLEngine, SequenceTheorems, NumberLemmas, TLAPS

(* The program's use of the queue.                                         *)
SingleProducer == \E p : Producers = {p}

A == Len(accepted)
R == Len(received)

-----------------------------------------------------------------------------
(***************************************************************************)
(* The inductive invariant.  The indices are the lengths of the histories  *)
(* modulo Capacity; the slots between them hold what was accepted and not  *)
(* yet received; a producer past LoadHead still has the current head, and  *)
(* past CheckFull there is room; the consumer past CheckReady has a job.   *)
(***************************************************************************)

Indices == /\ head = A % Capacity /\ tail = R % Capacity
           /\ R <= A /\ A <= R + Capacity - 1

SlotsHold == \A i \in R + 1 .. A : buffer[(i - 1) % Capacity] = accepted[i]

Producing ==
  \A p \in Producers :
    /\ ppc[p] # "idle" => at[p] = head /\ job[p] \in Jobs
    /\ ppc[p] \in {"fill", "publish"} => A < R + Capacity - 1
    /\ ppc[p] = "publish" => buffer[head] = job[p]

Consuming ==
  /\ cpc \in {"take", "advance"} => R < A
  /\ cpc = "advance" => item = accepted[R + 1]

QueueInv == /\ SingleProducer /\ TypeOK
            /\ Indices /\ SlotsHold /\ Producing /\ Consuming

-----------------------------------------------------------------------------
LEMMA CapacityType == Capacity \in Nat \ {0} /\ Capacity >= 2
  BY JobQueueAssumption

LEMMA Lengths == TypeOK => A \in Nat /\ R \in Nat
  BY LenProperties DEF TypeOK, A, R

LEMMA NextSlotType == \A s \in Slots : NextSlot(s) \in Slots
<1> SUFFICES ASSUME NEW s \in Slots PROVE NextSlot(s) \in Slots
  OBVIOUS
<1>1. s + 1 \in Nat BY DEF Slots
<1> QED BY <1>1, CapacityType, DivMod DEF NextSlot, Slots

(* A slot is the next one of the previous count's.                         *)
LEMMA NextSlotOf == \A n \in Nat : NextSlot(n % Capacity) = (n + 1) % Capacity
  BY CapacityType, ModSucc DEF NextSlot

LEMMA TypeNext == ASSUME TypeOK, [Next]_vars PROVE TypeOK'
<1> USE DEF TypeOK, queueVars, producerVars, consumerVars, ProducerStep, ConsumerStep
<1>1. ASSUME NEW p \in Producers, LoadHead(p) PROVE TypeOK'
  <2>1. made + 1 \in 1 .. MaxJobs BY <1>1, JobQueueAssumption DEF LoadHead
  <2>2. made' \in 0 .. MaxJobs BY <1>1, <2>1 DEF LoadHead
  <2>3. job' \in [Producers -> Jobs \union {NoJob}] BY <1>1, <2>1 DEF LoadHead, Jobs
  <2>4. ppc' \in [Producers -> {"idle", "full?", "fill", "publish"}]
        /\ at' \in [Producers -> Slots]
    BY <1>1 DEF LoadHead
  <2> QED BY <1>1, <2>2, <2>3, <2>4 DEF LoadHead
<1>2. ASSUME NEW p \in Producers, CheckFull(p) PROVE TypeOK'
  <2>1. ppc' \in [Producers -> {"idle", "full?", "fill", "publish"}]
        /\ refused' \in Nat
    BY <1>2 DEF CheckFull
  <2> QED BY <1>2, <2>1 DEF CheckFull
<1>3. ASSUME NEW p \in Producers, Fill(p) PROVE TypeOK'
  <2>1. buffer' \in [Slots -> Jobs \union {NoJob}] BY <1>3 DEF Fill
  <2>2. ppc' \in [Producers -> {"idle", "full?", "fill", "publish"}] BY <1>3 DEF Fill
  <2> QED BY <1>3, <2>1, <2>2 DEF Fill
<1>4. ASSUME NEW p \in Producers, Publish(p) PROVE TypeOK'
  <2>1. head' \in Slots BY <1>4, NextSlotType DEF Publish
  <2>2. accepted' \in Seq(Jobs \union {NoJob}) BY <1>4, AppendProperties DEF Publish
  <2>3. ppc' \in [Producers -> {"idle", "full?", "fill", "publish"}] BY <1>4 DEF Publish
  <2> QED BY <1>4, <2>1, <2>2, <2>3 DEF Publish
<1>5. CASE CheckRunning BY <1>5 DEF CheckRunning
<1>6. CASE CheckReady BY <1>6 DEF CheckReady
<1>7. CASE FallAsleep BY <1>7 DEF FallAsleep
<1>8. CASE TimesOut BY <1>8 DEF TimesOut
<1>9. CASE Take BY <1>9 DEF Take
<1>10. CASE Advance
  <2>1. received' \in Seq(Jobs \union {NoJob}) BY <1>10, AppendProperties DEF Advance
  <2>2. tail' \in Slots BY <1>10, NextSlotType DEF Advance
  <2> QED BY <1>10, <2>1, <2>2 DEF Advance
<1>11. CASE Process BY <1>11 DEF Process
<1>12. CASE Stop BY <1>12 DEF Stop
<1>13. CASE UNCHANGED vars BY <1>13 DEF vars
<1> QED BY <1>1, <1>2, <1>3, <1>4, <1>5, <1>6, <1>7, <1>8, <1>9, <1>10, <1>11,
           <1>12, <1>13 DEF Next, Push, Consumer, Stopped

LEMMA TypeInit == Init => TypeOK
<1> SUFFICES ASSUME Init PROVE TypeOK
  OBVIOUS
<1>1. 0 \in Slots /\ 0 \in 0 .. MaxJobs
  BY CapacityType, JobQueueAssumption DEF Slots
<1>2. accepted \in Seq(Jobs \union {NoJob}) /\ received \in Seq(Jobs \union {NoJob})
  BY DEF Init
<1> QED BY <1>1, <1>2 DEF Init, TypeOK

(* Every variable keeps its type, however many threads push.               *)
THEOREM TypeCorrect == Spec => []TypeOK
  BY TypeInit, TypeNext, PTL DEF Spec

-----------------------------------------------------------------------------
LEMMA InvInit == SingleProducer /\ Init => QueueInv
<1> SUFFICES ASSUME SingleProducer, Init PROVE QueueInv
  OBVIOUS
<1>1. A = 0 /\ R = 0 BY DEF Init, A, R
<1>2. 0 % Capacity = 0
  <2>1. 0 = Capacity * 0 + 0 /\ 0 \in 0 .. Capacity - 1 BY CapacityType
  <2> QED BY <2>1, CapacityType, RemainderUnique
<1>3. Indices BY <1>1, <1>2, CapacityType DEF Init, Indices
<1>4. SlotsHold BY <1>1 DEF SlotsHold
<1>5. Producing /\ Consuming BY DEF Init, Producing, Consuming
<1> QED BY <1>3, <1>4, <1>5, TypeInit DEF QueueInv

(* The head slot is none of those that hold a job, unless the queue has    *)
(* one more job than it may.                                               *)
LEMMA HeadIsFree ==
  ASSUME QueueInv, NEW i \in R + 1 .. A
  PROVE  (i - 1) % Capacity # head
<1>1. A \in Nat /\ R \in Nat /\ A <= R + Capacity - 1 /\ head = A % Capacity
  BY Lengths DEF QueueInv, Indices
<1>2. i - 1 \in Nat /\ i - 1 < A /\ A < (i - 1) + Capacity
  BY <1>1, CapacityType
<1> QED BY <1>1, <1>2, CapacityType, ModUnique

(* Comparing the next slot with the tail tells whether the queue is full.  *)
LEMMA FullTest ==
  ASSUME QueueInv
  PROVE  NextSlot(head) = tail <=> A = R + Capacity - 1
<1>1. /\ A \in Nat /\ R \in Nat /\ R <= A /\ A <= R + Capacity - 1
      /\ head = A % Capacity /\ tail = R % Capacity
  BY Lengths DEF QueueInv, Indices
<1>2. NextSlot(head) = (A + 1) % Capacity BY <1>1, NextSlotOf
<1>3. CASE A = R + Capacity - 1
  <2>1. A + 1 = R + Capacity BY <1>1, <1>3, CapacityType
  <2>2. (A + 1) % Capacity = R % Capacity BY <2>1, <1>1, CapacityType, ModAdd
  <2> QED BY <2>2, <1>1, <1>2, <1>3
<1>4. CASE A # R + Capacity - 1
  <2>1. R < A + 1 /\ A + 1 < R + Capacity /\ A + 1 \in Nat BY <1>1, <1>4, CapacityType
  <2>2. (A + 1) % Capacity # R % Capacity BY <2>1, <1>1, CapacityType, ModUnique
  <2> QED BY <2>2, <1>1, <1>2, <1>4
<1> QED BY <1>3, <1>4

(* Different indices mean that a job is waiting.                           *)
LEMMA ReadyTest == ASSUME QueueInv, tail # head PROVE R < A
  BY Lengths DEF QueueInv, Indices

LEMMA PushInv ==
  ASSUME QueueInv, TypeOK', NEW p \in Producers, Push(p)
  PROVE  QueueInv'
<1> USE DEF queueVars, producerVars, consumerVars, ProducerStep
<1>0. /\ SingleProducer /\ TypeOK /\ Producers = {p}
      /\ Indices /\ SlotsHold /\ Producing /\ Consuming
  BY DEF QueueInv, SingleProducer
<1>1. A \in Nat /\ R \in Nat /\ Capacity \in Nat /\ Capacity >= 2
  BY <1>0, Lengths, CapacityType
<1>2. CASE LoadHead(p)
  <2>1. A' = A /\ R' = R BY <1>2 DEF LoadHead, A, R
  <2>2. Indices' /\ SlotsHold' /\ Consuming'
    BY <1>2, <1>0, <2>1 DEF LoadHead, Indices, SlotsHold, Consuming
  <2>3. /\ ppc'[p] = "full?" /\ at'[p] = head /\ job'[p] = made + 1
        /\ made + 1 \in Jobs /\ head' = head
    BY <1>2, <1>0, JobQueueAssumption DEF LoadHead, TypeOK, Jobs
  <2>4. Producing' BY <2>3, <1>0 DEF Producing
  <2> QED BY <1>0, <2>2, <2>4 DEF QueueInv
<1>3. CASE CheckFull(p)
  <2>1. A' = A /\ R' = R BY <1>3 DEF CheckFull, A, R
  <2>2. Indices' /\ SlotsHold' /\ Consuming'
    BY <1>3, <1>0, <2>1 DEF CheckFull, Indices, SlotsHold, Consuming
  <2>3. ppc[p] = "full?" /\ at[p] = head /\ job[p] \in Jobs
    BY <1>3, <1>0 DEF CheckFull, Producing
  <2>4. at' = at /\ job' = job /\ head' = head BY <1>3 DEF CheckFull
  <2>5. \/ ppc'[p] = "idle"
        \/ ppc'[p] = "fill" /\ NextSlot(head) # tail
    BY <1>3, <1>0, <2>3 DEF CheckFull, TypeOK
  <2>6. ppc'[p] = "fill" => A < R + Capacity - 1
    BY <2>5, <1>0, <1>1, FullTest DEF Indices
  <2>7. Producing' BY <2>1, <2>3, <2>4, <2>5, <2>6, <1>0 DEF Producing
  <2> QED BY <1>0, <2>2, <2>7 DEF QueueInv
<1>4. CASE Fill(p)
  <2>1. A' = A /\ R' = R BY <1>4 DEF Fill, A, R
  <2>2. Indices' /\ Consuming' BY <1>4, <1>0, <2>1 DEF Fill, Indices, Consuming
  <2>3. /\ ppc[p] = "fill" /\ at[p] = head /\ job[p] \in Jobs
        /\ A < R + Capacity - 1
    BY <1>4, <1>0 DEF Fill, Producing
  <2>4. buffer' = [buffer EXCEPT ![head] = job[p]] BY <1>4, <2>3 DEF Fill
  <2>5. SlotsHold'
    <3> SUFFICES ASSUME NEW i \in R + 1 .. A
                 PROVE  buffer'[(i - 1) % Capacity] = accepted[i]
      BY <2>1, <1>4 DEF SlotsHold, Fill
    <3>1. (i - 1) % Capacity # head BY HeadIsFree
    <3>2. (i - 1) % Capacity \in Slots
      <4>1. i - 1 \in Nat BY <1>1
      <4> QED BY <4>1, CapacityType, DivMod DEF Slots
    <3>3. buffer'[(i - 1) % Capacity] = buffer[(i - 1) % Capacity]
      BY <3>1, <3>2, <2>4, <1>0 DEF TypeOK
    <3> QED BY <3>3, <1>0 DEF SlotsHold
  <2>6. /\ ppc'[p] = "publish" /\ at' = at /\ job' = job /\ head' = head
        /\ buffer'[head] = job[p]
    BY <1>4, <1>0, <2>4 DEF Fill, TypeOK
  <2>7. Producing' BY <2>1, <2>3, <2>6, <1>0 DEF Producing
  <2> QED BY <1>0, <2>2, <2>5, <2>7 DEF QueueInv
<1>5. CASE Publish(p)
  <2>1. /\ ppc[p] = "publish" /\ at[p] = head /\ job[p] \in Jobs
        /\ A < R + Capacity - 1 /\ buffer[head] = job[p]
    BY <1>5, <1>0 DEF Publish, Producing
  <2>2. /\ accepted' = Append(accepted, job[p]) /\ received' = received
        /\ head' = NextSlot(head) /\ tail' = tail /\ buffer' = buffer
        /\ ppc'[p] = "idle"
    BY <1>5, <1>0, <2>1 DEF Publish, TypeOK
  <2>3. A' = A + 1 /\ R' = R /\ accepted'[A + 1] = job[p]
        /\ \A i \in 1 .. A : accepted'[i] = accepted[i]
    BY <2>2, <1>0, AppendProperties DEF A, R, TypeOK
  <2>4. head = A % Capacity /\ tail = R % Capacity /\ R <= A
    BY <1>0 DEF Indices
  <2>5. Indices'
    <3>1. head' = A' % Capacity BY <2>2, <2>3, <2>4, <1>1, NextSlotOf
    <3>2. tail' = R' % Capacity BY <2>2, <2>3, <2>4
    <3>3. R' <= A' /\ A' <= R' + Capacity - 1 BY <2>1, <2>3, <2>4, <1>1
    <3> QED BY <3>1, <3>2, <3>3 DEF Indices
  <2>6. SlotsHold'
    <3> SUFFICES ASSUME NEW i \in R + 1 .. A + 1
                 PROVE  buffer[(i - 1) % Capacity] = accepted'[i]
      BY <2>2, <2>3 DEF SlotsHold
    <3>1. CASE i = A + 1 BY <3>1, <2>1, <2>3, <2>4, <1>1
    <3>2. CASE i \in R + 1 .. A BY <3>2, <2>3, <1>0, <1>1 DEF SlotsHold
    <3> QED BY <3>1, <3>2, <1>1
  <2>7. Producing' BY <2>2, <1>0 DEF Producing
  <2>8. Consuming'
    <3>1. /\ item' = item
          /\ cpc' \in {"take", "advance"} => cpc' = cpc
      BY <1>5 DEF Publish
    <3>2. cpc \in {"take", "advance"} => R + 1 \in 1 .. A
      BY <1>0, <1>1 DEF Consuming
    <3> QED BY <3>1, <3>2, <2>3, <1>0, <1>1 DEF Consuming
  <2> QED BY <1>0, <2>5, <2>6, <2>7, <2>8 DEF QueueInv
<1> QED BY <1>2, <1>3, <1>4, <1>5 DEF Push

LEMMA ConsumerInv ==
  ASSUME QueueInv, TypeOK', Consumer
  PROVE  QueueInv'
<1> USE DEF queueVars, producerVars, consumerVars, ConsumerStep
<1>0. /\ SingleProducer /\ TypeOK
      /\ Indices /\ SlotsHold /\ Producing /\ Consuming
  BY DEF QueueInv
<1>1. A \in Nat /\ R \in Nat /\ Capacity \in Nat /\ Capacity >= 2
  BY <1>0, Lengths, CapacityType
<1>2. ASSUME UNCHANGED <<queueVars, producerVars, accepted, received>>, Consuming'
      PROVE  QueueInv'
  <2>1. A' = A /\ R' = R BY <1>2 DEF A, R
  <2>2. Indices' /\ SlotsHold' BY <1>2, <1>0, <2>1 DEF Indices, SlotsHold
  <2>3. Producing' BY <1>2, <1>0, <2>1 DEF Producing
  <2> QED BY <1>2, <1>0, <2>2, <2>3 DEF QueueInv
<1>3. CASE CheckRunning
  <2>1. cpc' \in {"check", "done"} BY <1>3 DEF CheckRunning
  <2>2. Consuming' BY <2>1 DEF Consuming
  <2> QED BY <1>2, <1>3, <2>2 DEF CheckRunning
<1>4. CASE CheckReady
  <2>1. A' = A /\ R' = R BY <1>4 DEF CheckReady, A, R
  <2>2. Consuming' BY <1>4, <2>1, ReadyTest DEF CheckReady, Consuming
  <2> QED BY <1>2, <1>4, <2>2 DEF CheckReady
<1>5. CASE FallAsleep BY <1>2, <1>5 DEF FallAsleep, Consuming
<1>6. CASE TimesOut
  <2>1. A' = A /\ R' = R BY <1>6 DEF TimesOut, A, R
  <2>2. Consuming' BY <1>6, <2>1, ReadyTest DEF TimesOut, Consuming
  <2> QED BY <1>2, <1>6, <2>2 DEF TimesOut
<1>7. CASE Take
  <2>1. A' = A /\ R' = R BY <1>7 DEF Take, A, R
  <2>2. R < A /\ tail = R % Capacity BY <1>7, <1>0 DEF Take, Consuming, Indices
  <2>3. buffer[((R + 1) - 1) % Capacity] = accepted[R + 1]
    BY <2>2, <1>0, <1>1 DEF SlotsHold
  <2>4. (R + 1) - 1 = R BY <1>1
  <2>5. Consuming' BY <1>7, <2>1, <2>2, <2>3, <2>4 DEF Take, Consuming
  <2> QED BY <1>2, <1>7, <2>5 DEF Take
<1>8. CASE Advance
  <2>1. /\ R < A /\ received' = Append(received, item) /\ accepted' = accepted
        /\ tail' = NextSlot(tail) /\ head' = head /\ buffer' = buffer
        /\ cpc' = "process" /\ ppc' = ppc /\ at' = at /\ job' = job
    BY <1>8, <1>0 DEF Advance, Consuming
  <2>2. A' = A /\ R' = R + 1
    BY <2>1, <1>0, AppendProperties DEF A, R, TypeOK
  <2>3. head = A % Capacity /\ tail = R % Capacity /\ A <= R + Capacity - 1
    BY <1>0 DEF Indices
  <2>4. Indices'
    <3>1. tail' = R' % Capacity BY <2>1, <2>2, <2>3, <1>1, NextSlotOf
    <3>2. head' = A' % Capacity BY <2>1, <2>2, <2>3
    <3>3. R' <= A' /\ A' <= R' + Capacity - 1 BY <2>1, <2>2, <2>3, <1>1
    <3> QED BY <3>1, <3>2, <3>3 DEF Indices
  <2>5. SlotsHold' BY <2>1, <2>2, <1>0, <1>1 DEF SlotsHold
  <2>6. Producing' BY <2>1, <2>2, <1>0, <1>1 DEF Producing
  <2>7. Consuming' BY <2>1 DEF Consuming
  <2> QED BY <1>0, <2>4, <2>5, <2>6, <2>7 DEF QueueInv
<1>9. CASE Process BY <1>2, <1>9 DEF Process, Consuming
<1> QED BY <1>3, <1>4, <1>5, <1>6, <1>7, <1>8, <1>9 DEF Consumer

LEMMA InvNext == QueueInv /\ [Next]_vars => QueueInv'
<1> SUFFICES ASSUME QueueInv, [Next]_vars PROVE QueueInv'
  OBVIOUS
<1>0. TypeOK' BY TypeNext DEF QueueInv
<1>1. ASSUME NEW p \in Producers, Push(p) PROVE QueueInv'
  BY <1>0, <1>1, PushInv
<1>2. CASE Consumer BY <1>0, <1>2, ConsumerInv
<1>3. ASSUME UNCHANGED <<queueVars, producerVars, consumerVars, accepted, received>>
      PROVE  QueueInv'
  <2>1. A' = A /\ R' = R BY <1>3 DEF A, R
  <2>2. Indices' /\ SlotsHold'
    BY <1>3, <2>1 DEF QueueInv, Indices, SlotsHold, queueVars
  <2>3. Producing' BY <1>3, <2>1 DEF QueueInv, Producing, queueVars, producerVars
  <2>4. Consuming' BY <1>3, <2>1 DEF QueueInv, Consuming, consumerVars
  <2> QED BY <1>0, <2>2, <2>3, <2>4 DEF QueueInv
<1>4. CASE Stop BY <1>3, <1>4 DEF Stop
<1>5. CASE UNCHANGED vars BY <1>3, <1>5 DEF vars
<1> QED BY <1>1, <1>2, <1>4, <1>5 DEF Next, Stopped

LEMMA InvHolds == SingleProducer /\ Spec => []QueueInv
  BY InvInit, InvNext, PTL DEF Spec

-----------------------------------------------------------------------------
LEMMA InvImpliesNoTornSlot == QueueInv => NoTornSlot
<1> SUFFICES ASSUME QueueInv PROVE NoTornSlot
  OBVIOUS
<1>1. A \in Nat /\ R \in Nat /\ Capacity \in Nat \ {0}
  BY Lengths, CapacityType DEF QueueInv
<1>2. ASSUME NEW p \in Producers, ppc[p] = "fill", cpc \in {"take", "advance"}
      PROVE  at[p] # tail
  <2>1. /\ at[p] = A % Capacity /\ tail = R % Capacity
        /\ R < A /\ A < R + Capacity
    BY <1>1, <1>2 DEF QueueInv, Producing, Consuming, Indices
  <2> QED BY <2>1, <1>1, ModUnique
<1> QED BY <1>2 DEF NoTornSlot

(* With one producer, the two threads never touch the same slot at once.   *)
THEOREM NoTornSlotHolds == SingleProducer /\ Spec => []NoTornSlot
  BY InvHolds, InvImpliesNoTornSlot, PTL

-----------------------------------------------------------------------------
(*                 The queue implements the bounded FIFO                   *)

LEMMA RefinesInit == Init => Fifo!Init
  BY DEF Init, Fifo!Init

LEMMA RefinesNext ==
  QueueInv /\ [Next]_vars => [Fifo!Next]_<<accepted, received, refused>>
<1> SUFFICES ASSUME QueueInv, [Next]_vars
             PROVE  [Fifo!Next]_<<accepted, received, refused>>
  OBVIOUS
<1> USE DEF queueVars, producerVars, consumerVars, ProducerStep, ConsumerStep
<1>0. /\ A \in Nat /\ R \in Nat /\ Capacity \in Nat /\ Capacity >= 2 /\ R <= A
      /\ Fifo!Waiting = A - R
  BY Lengths, CapacityType DEF QueueInv, Indices, Fifo!Waiting, A, R
<1>1. ASSUME NEW p \in Producers, LoadHead(p)
      PROVE  UNCHANGED <<accepted, received, refused>>
  BY <1>1 DEF LoadHead
<1>2. ASSUME NEW p \in Producers, CheckFull(p)
      PROVE  [Fifo!Next]_<<accepted, received, refused>>
  <2>1. at[p] = head BY <1>2 DEF CheckFull, QueueInv, Producing
  <2>2. CASE NextSlot(head) = tail
    <3>1. A = R + Capacity - 1 BY <2>2, FullTest
    <3>2. Fifo!Refuse BY <3>1, <2>1, <2>2, <1>0, <1>2 DEF CheckFull, Fifo!Refuse
    <3> QED BY <3>2 DEF Fifo!Next
  <2>3. CASE NextSlot(head) # tail BY <2>1, <2>3, <1>2 DEF CheckFull
  <2> QED BY <2>2, <2>3
<1>3. ASSUME NEW p \in Producers, Fill(p)
      PROVE  UNCHANGED <<accepted, received, refused>>
  BY <1>3 DEF Fill
<1>4. ASSUME NEW p \in Producers, Publish(p)
      PROVE  Fifo!Next
  <2>1. A < R + Capacity - 1 /\ job[p] \in Jobs
    BY <1>4 DEF Publish, QueueInv, Producing
  <2>2. Fifo!Accept(job[p]) BY <2>1, <1>0, <1>4 DEF Publish, Fifo!Accept
  <2> QED BY <2>1, <2>2 DEF Fifo!Next
<1>5. CASE Consumer
  <2>1. CASE Advance
    <3>1. R < A /\ item = accepted[R + 1]
      BY <2>1 DEF Advance, QueueInv, Consuming
    <3>2. Fifo!Receive BY <3>1, <2>1, <1>0 DEF Advance, Fifo!Receive, R
    <3> QED BY <3>2 DEF Fifo!Next
  <2>2. CASE ~Advance
    BY <2>2, <1>5 DEF Consumer, CheckRunning, CheckReady, FallAsleep, TimesOut,
                      Take, Process
  <2> QED BY <2>1, <2>2
<1>6. CASE Stop BY <1>6 DEF Stop
<1>7. CASE UNCHANGED vars BY <1>7 DEF vars
<1> QED BY <1>1, <1>2, <1>3, <1>4, <1>5, <1>6, <1>7 DEF Next, Push, Stopped

(* With one producer the lock-free queue is a bounded FIFO: nothing is     *)
(* lost, repeated, reordered or refused while there is room.               *)
THEOREM Refinement == SingleProducer /\ Spec => ImplementsFifo
  BY InvHolds, RefinesInit, RefinesNext, PTL DEF Spec, ImplementsFifo, Fifo!Spec

-----------------------------------------------------------------------------
(*                 The engine uses the queue as specified                  *)

LEMMA StepIsQueueStep == [EngineNext]_allVars => [Next]_vars
<1> SUFFICES ASSUME [EngineNext]_allVars PROVE [Next]_vars
  OBVIOUS
<1>1. ASSUME NEW f \in Flows, WorkerWrites(f) PROVE UNCHANGED vars
  BY <1>1 DEF WorkerWrites
<1>2. ASSUME NEW p \in Producers, FeederPushes(p) PROVE Next
  BY <1>2 DEF FeederPushes, Next, Push
<1>3. ASSUME NEW p \in Producers, NEW f \in Flows, Feed(p, f) PROVE Next
  BY <1>3 DEF Feed, Next, Push
<1>4. CASE EngineThread
  BY <1>4 DEF EngineThread, Judge, Pops, Next, Consumer
<1>5. ASSUME NEW a \in Administrators, getPendingProposals(a) PROVE UNCHANGED vars
  BY <1>5 DEF getPendingProposals
<1>6. ASSUME NEW a \in Administrators, NEW i \in Jobs, Decide(a, i) PROVE UNCHANGED vars
  BY <1>6 DEF Decide
<1>7. CASE (Stop \/ Stopped) /\ UNCHANGED engineVars
  BY <1>7 DEF Next
<1>8. CASE UNCHANGED allVars
  BY <1>8 DEF allVars
<1> QED BY <1>1, <1>2, <1>3, <1>4, <1>5, <1>6, <1>7, <1>8 DEF EngineNext

(* With the flows, the models and the administrators around it, the queue  *)
(* takes no step that JobQueue does not describe.                          *)
THEOREM EngineRunsTheQueue == EngineSpec => Spec
<1>1. EngineInit => Init BY DEF EngineInit
<1> QED BY <1>1, StepIsQueueStep, PTL DEF EngineSpec, Spec

(* The feeder and the engine never touch the same slot at once.            *)
THEOREM EngineNoTornSlot == SingleProducer /\ EngineSpec => []NoTornSlot
  BY EngineRunsTheQueue, NoTornSlotHolds, PTL

(* The jobs go through a bounded FIFO.                                     *)
THEOREM EngineImplementsFifo == SingleProducer /\ EngineSpec => ImplementsFifo
  BY EngineRunsTheQueue, Refinement, PTL

-----------------------------------------------------------------------------
(*                          No accepted job is lost                        *)

ReceivedInOrder == \A i \in 1 .. R : received[i] = accepted[i]

LEMMA ReceivedNext == QueueInv /\ ReceivedInOrder /\ [Next]_vars => ReceivedInOrder'
<1> SUFFICES ASSUME QueueInv, ReceivedInOrder, [Next]_vars PROVE ReceivedInOrder'
  OBVIOUS
<1> USE DEF queueVars, producerVars, consumerVars, ProducerStep, ConsumerStep
<1>0. /\ accepted \in Seq(Jobs \union {NoJob}) /\ received \in Seq(Jobs \union {NoJob})
      /\ item \in Jobs \union {NoJob}
      /\ A \in Nat /\ R \in Nat /\ R <= A
  BY Lengths DEF QueueInv, TypeOK, Indices
<1>1. CASE UNCHANGED <<accepted, received>>
  BY <1>1 DEF ReceivedInOrder, R
<1>2. ASSUME NEW p \in Producers, Publish(p) PROVE ReceivedInOrder'
  <2>1. job[p] \in Jobs \union {NoJob} /\ accepted' = Append(accepted, job[p]) /\ received' = received
    BY <1>2 DEF Publish, QueueInv, TypeOK
  <2>2. \A i \in 1 .. A : accepted'[i] = accepted[i]
    BY <2>1, <1>0, AppendProperties DEF A
  <2>3. R' = R BY <2>1 DEF R
  <2>4. \A i \in 1 .. R : i \in 1 .. A BY <1>0
  <2> QED BY <2>1, <2>2, <2>3, <2>4 DEF ReceivedInOrder
<1>3. CASE Advance
  <2>1. R < A /\ item = accepted[R + 1] /\ received' = Append(received, item) /\ accepted' = accepted
    BY <1>3 DEF Advance, QueueInv, Consuming
  <2>2. /\ Len(received') = R + 1 /\ received'[R + 1] = item
        /\ \A i \in 1 .. R : received'[i] = received[i]
    BY <2>1, <1>0, AppendProperties DEF R
  <2>3. R' = R + 1 BY <2>2 DEF R
  <2>4. \A i \in 1 .. R + 1 : i \in 1 .. R \/ i = R + 1 BY <1>0
  <2> QED BY <2>1, <2>2, <2>3, <2>4 DEF ReceivedInOrder
<1> QED
  BY <1>1, <1>2, <1>3
  DEF Next, Push, Consumer, LoadHead, CheckFull, Fill, CheckRunning, CheckReady,
      FallAsleep, TimesOut, Take, Process, Stop, Stopped, vars

LEMMA NoJobLostStep == QueueInv /\ ReceivedInOrder => NoJobLost
<1> SUFFICES ASSUME QueueInv, ReceivedInOrder, NEW i \in 1 .. A
             PROVE  IF i <= R THEN received[i] = accepted[i]
                    ELSE buffer[(i - 1) % Capacity] = accepted[i]
  BY DEF NoJobLost, A, R
<1>1. A \in Nat /\ R \in Nat BY Lengths DEF QueueInv
<1> QED BY <1>1 DEF QueueInv, SlotsHold, ReceivedInOrder

(* A job that push has accepted is still in its slot, or was received, in  *)
(* the order of acceptance.                                                *)
THEOREM EngineNoJobLost == SingleProducer /\ EngineSpec => []NoJobLost
<1>1. Init => ReceivedInOrder BY DEF Init, ReceivedInOrder, R
<1> QED BY <1>1, ReceivedNext, NoJobLostStep, EngineRunsTheQueue, InvHolds, PTL DEF Spec

-----------------------------------------------------------------------------
(***************************************************************************)
(* The rest of layer 2.  Jobs are numbered in the order in which they are  *)
(* made, so that no two in being have one number, and the job the engine   *)
(* forgets is no other's; each one in being still has its features and its *)
(* flow; there is an anomaly at most for each job received.                *)
(***************************************************************************)

Ordered == /\ \A i \in 1 .. A : accepted[i] \in 1 .. made
           /\ \A i, j \in 1 .. A : i < j => accepted[i] < accepted[j]

InPush == \A p \in Producers :
            ppc[p] # "idle" => /\ job[p] = made
                               /\ \A i \in 1 .. A : accepted[i] < made

Present(j) == j \in Jobs /\ features[j] \in FlowState /\ source[j] \in Flows

Described == /\ \A p \in Producers : ppc[p] # "idle" => Present(job[p])
             /\ \A i \in R + 1 .. A : Present(accepted[i])
             /\ cpc = "process" => R > 0 /\ item = accepted[R] /\ Present(item)

Counted == /\ A <= made
           /\ \A p \in Producers : ppc[p] # "idle" => A < made
           /\ anomalies_found <= R
           /\ cpc = "process" => anomalies_found < R

EngineInv == /\ QueueInv /\ EngineTypeOK /\ DOMAIN age = Flows
             /\ Ordered /\ InPush /\ Described /\ Counted

(* Whatever mixture of two states the feeder reads, it has the type of one.*)
LEMMA ReadingType ==
  ASSUME NEW f \in Flows, NEW k \in DOMAIN FlowLives[f], NEW read \in Readings(f, k)
  PROVE  read \in FlowState
<1> DEFINE lives == FlowLives[f]
           old   == lives[k]
           new   == lives[Min({k + 1, Len(lives)})]
<1>1. lives \in Seq(FlowState) /\ lives # << >> BY MLEngineAssumption
<1>2. Len(lives) \in Nat /\ k \in 1 .. Len(lives) BY <1>1, LenProperties
<1>3. Min({k + 1, Len(lives)}) \in 1 .. Len(lives) BY <1>2, MinOfTwo
<1>4. old \in FlowState /\ new \in FlowState BY <1>1, <1>2, <1>3, ElementOfSeq
<1>5. PICK written : read = [n \in DOMAIN old |-> IF n \in written THEN new[n] ELSE old[n]]
  BY DEF Readings
<1>6. DOMAIN old = DOMAIN new BY <1>4 DEF FlowState
<1> HIDE DEF old, new
<1> QED BY <1>4, <1>5, <1>6 DEF FlowState

LEMMA EngineInvInit == SingleProducer /\ EngineInit => EngineInv
<1> SUFFICES ASSUME SingleProducer, EngineInit PROVE EngineInv
  OBVIOUS
<1>1. QueueInv BY InvInit DEF EngineInit
<1>2. A = 0 /\ R = 0 BY DEF EngineInit, Init, A, R
<1>3. \A f \in Flows : 1 \in DOMAIN FlowLives[f]
  BY MLEngineAssumption, EmptySeq, LenProperties
<1>4. EngineTypeOK /\ DOMAIN age = Flows
  BY <1>1, <1>3 DEF EngineInit, Init, EngineTypeOK, QueueInv
<1>5. Ordered /\ InPush /\ Described /\ Counted
  BY <1>2 DEF EngineInit, Init, Ordered, InPush, Described, Counted
<1> QED BY <1>1, <1>4, <1>5 DEF EngineInv

(* The feeder makes a job of what it has read.                             *)
LEMMA FeedInv == ASSUME EngineInv, NEW p \in Producers, NEW f \in Flows, Feed(p, f)
                 PROVE  EngineInv'
<1> USE DEF producerVars, queueVars, consumerVars, ProducerStep
<1>1. QueueInv' BY StepIsQueueStep, InvNext DEF EngineInv, EngineNext
<1>2. /\ TypeOK /\ EngineTypeOK /\ Producers = {p}
      /\ A \in Nat /\ R \in Nat /\ made \in Nat
  BY Lengths, JobQueueAssumption DEF EngineInv, QueueInv, SingleProducer, TypeOK
<1>3. /\ made' = made + 1 /\ made' \in Jobs /\ job'[p] = made'
      /\ ppc[p] = "idle" /\ ppc'[p] = "full?"
      /\ UNCHANGED <<accepted, received, cpc, item, age, mock, anomalies_found, pending, views>>
  BY <1>2, JobQueueAssumption DEF Feed, LoadHead, TypeOK, Jobs
<1>4. PICK read \in Readings(f, age[f]) : features' = [features EXCEPT ![made'] = read]
  BY DEF Feed
<1>5. read \in FlowState BY <1>2, ReadingType DEF EngineTypeOK
<1>6. /\ DOMAIN features' = Jobs /\ features'[made'] \in FlowState
      /\ \A j \in Jobs : j # made' => features'[j] = features[j]
  BY <1>2, <1>3, <1>4, <1>5 DEF EngineTypeOK
<1>7. /\ source' \in [Jobs -> Flows \union {NoFlow}] /\ source'[made'] = f
      /\ \A j \in Jobs : j # made' => source'[j] = source[j]
  BY <1>2, <1>3 DEF EngineTypeOK, Feed
<1>8. EngineTypeOK' /\ (DOMAIN age = Flows)'
  <2>1. TypeOK' BY <1>1 DEF QueueInv
  <2>2. \A j \in Jobs : features'[j] \in FlowState \union {NoFeatures}
    BY <1>2, <1>6 DEF EngineTypeOK
  <2>3. anomalies_found' \in 0 .. made' BY <1>2, <1>3 DEF EngineTypeOK
  <2> QED BY <1>2, <1>3, <1>6, <1>7, <2>1, <2>2, <2>3 DEF EngineTypeOK, EngineInv
<1>9. A' = A /\ R' = R BY <1>3 DEF A, R
<1>10. \A i \in 1 .. A : accepted[i] \in 1 .. made BY DEF EngineInv, Ordered
<1>11. Ordered' BY <1>2, <1>3, <1>9, <1>10 DEF EngineInv, Ordered
<1>12. InPush' BY <1>2, <1>3, <1>9, <1>10 DEF InPush
<1>13. Described'
  <2>1. \A j : Present(j) /\ j # made' => Present(j)' BY <1>6, <1>7 DEF Present
  <2>2. Present(job[p])' BY <1>3, <1>6, <1>7 DEF Present
  <2>3. \A i \in R + 1 .. A : Present(accepted[i])'
    <3>1. \A i \in R + 1 .. A : i \in 1 .. A BY <1>2
    <3> QED BY <1>2, <1>3, <1>10, <2>1, <3>1 DEF EngineInv, Described
  <2>4. (cpc = "process" => R > 0 /\ item = accepted[R] /\ Present(item))'
    <3>1. R <= A BY DEF EngineInv, QueueInv, Indices
    <3>2. R > 0 => accepted[R] # made' BY <1>2, <1>3, <1>10, <3>1
    <3> QED BY <1>3, <1>9, <2>1, <3>2 DEF EngineInv, Described, Present
  <2> QED BY <1>2, <1>3, <1>9, <2>2, <2>3, <2>4 DEF Described, Present
<1>14. Counted' BY <1>2, <1>3, <1>9 DEF EngineInv, Counted
<1> QED BY <1>1, <1>8, <1>11, <1>12, <1>13, <1>14 DEF EngineInv

(* A refused job is forgotten; an accepted one is the last so far.         *)
LEMMA FeederPushesInv == ASSUME EngineInv, NEW p \in Producers, FeederPushes(p)
                         PROVE  EngineInv'
<1> USE DEF producerVars, queueVars, consumerVars, ProducerStep
<1>1. QueueInv' BY StepIsQueueStep, InvNext DEF EngineInv, EngineNext
<1>2. /\ TypeOK /\ EngineTypeOK /\ Producers = {p} /\ TypeOK'
      /\ A \in Nat /\ R \in Nat /\ made \in Nat /\ R <= A
  <2>1. QueueInv /\ EngineTypeOK /\ TypeOK /\ TypeOK' /\ SingleProducer /\ R <= A
    BY <1>1 DEF EngineInv, QueueInv, Indices
  <2>2. A \in Nat /\ R \in Nat BY <2>1, Lengths
  <2>3. made \in Nat BY <2>1, JobQueueAssumption DEF TypeOK
  <2> QED BY <2>1, <2>2, <2>3 DEF SingleProducer
<1>3. \A i \in R + 1 .. A : i \in 1 .. A BY <1>2
<1>4. UNCHANGED <<made, job, item, received, age, mock, anomalies_found, pending, views>>
      /\ ppc[p] # "idle" /\ R' = R
  BY DEF FeederPushes, CheckFull, Fill, Publish, engineVars, R
<1>5. job[p] = made /\ (\A i \in 1 .. A : accepted[i] < made) /\ A < made /\ Present(job[p])
  BY <1>4 DEF EngineInv, InPush, Counted, Described
<1>6. CASE UNCHANGED <<features, source, accepted, cpc>>
  <2>1. A' = A BY <1>6 DEF A
  <2>2. EngineTypeOK' /\ (DOMAIN age = Flows)' BY <1>2, <1>4, <1>6 DEF EngineTypeOK, EngineInv
  <2>3. Ordered' BY <1>4, <1>6, <2>1 DEF EngineInv, Ordered
  <2>4. InPush' /\ Counted'
    BY <1>2, <1>4, <1>5, <1>6, <2>1 DEF EngineInv, InPush, Counted
  <2>5. Described'
    <3>1. \A j : Present(j)' = Present(j) BY <1>6 DEF Present
    <3>2. Present(job[p]) /\ \A q \in Producers : q = p BY <1>2, <1>5
    <3> QED BY <1>4, <1>6, <2>1, <3>1, <3>2 DEF EngineInv, Described
  <2> QED BY <1>1, <2>2, <2>3, <2>4, <2>5 DEF EngineInv
<1>7. CASE CheckFull(p) /\ refused' # refused /\ Forget(job[p])
  <2>1. UNCHANGED <<accepted, cpc>> /\ A' = A /\ ppc'[p] = "idle"
    BY <1>2, <1>7 DEF CheckFull, A, TypeOK
  <2>2. \A j : Present(j) /\ j # made => Present(j)'
    BY <1>2, <1>5, <1>7 DEF Forget, Present, EngineTypeOK
  <2>3. EngineTypeOK' /\ (DOMAIN age = Flows)'
    <3>1. /\ DOMAIN features' = Jobs
          /\ \A j \in Jobs : features'[j] \in FlowState \union {NoFeatures}
      BY <1>2, <1>7 DEF Forget, EngineTypeOK
    <3>2. source' \in [Jobs -> Flows \union {NoFlow}]
      BY <1>2, <1>7 DEF Forget, EngineTypeOK
    <3> QED BY <1>2, <1>4, <3>1, <3>2 DEF EngineTypeOK, EngineInv
  <2>4. Ordered' BY <1>4, <2>1 DEF EngineInv, Ordered
  <2>5. InPush' /\ Counted' BY <1>2, <1>4, <2>1 DEF EngineInv, InPush, Counted
  <2>6. \A i \in R + 1 .. A : Present(accepted[i])'
    <3>1. \A i \in R + 1 .. A : accepted[i] # made BY <1>2, <1>3, <1>5
    <3> QED BY <2>1, <2>2, <3>1 DEF EngineInv, Described
  <2>7. (cpc = "process" => R > 0 /\ item = accepted[R] /\ Present(item))'
    <3>1. R > 0 => R \in 1 .. A BY <1>2
    <3>2. R > 0 => accepted[R] < made BY <1>5, <3>1
    <3>3. R > 0 => accepted[R] # made BY <1>2, <3>2
    <3>4. cpc = "process" => R > 0 /\ item = accepted[R] /\ Present(item)
      BY DEF EngineInv, Described
    <3> QED BY <1>4, <2>1, <2>2, <3>3, <3>4 DEF Present
  <2>8. Described' BY <1>2, <1>4, <2>1, <2>6, <2>7 DEF Described
  <2> QED BY <1>1, <2>3, <2>4, <2>5, <2>8 DEF EngineInv
<1>8. CASE Publish(p) /\ UNCHANGED engineVars
  <2>1. /\ accepted' = Append(accepted, made) /\ UNCHANGED <<features, source>>
        /\ ppc'[p] = "idle" /\ (cpc' = "process" => cpc = "process")
    BY <1>2, <1>5, <1>8 DEF Publish, engineVars, TypeOK
  <2>2. /\ A' = A + 1 /\ accepted'[A + 1] = made
        /\ \A i \in 1 .. A : accepted'[i] = accepted[i]
    BY <1>2, <2>1, AppendProperties DEF TypeOK, A
  <2>3. \A i \in 1 .. A + 1 : i \in 1 .. A \/ i = A + 1 BY <1>2
  <2>4. EngineTypeOK' /\ (DOMAIN age = Flows)' BY <1>2, <1>4, <2>1 DEF EngineTypeOK, EngineInv
  <2>5. Ordered'
    <3>1. \A i \in 1 .. A' : accepted'[i] \in 1 .. made'
      BY <1>2, <1>4, <1>5, <2>2, <2>3 DEF EngineInv, Ordered
    <3>2. \A i, j \in 1 .. A' : i < j => accepted'[i] < accepted'[j]
      BY <1>2, <1>5, <2>2, <2>3 DEF EngineInv, Ordered
    <3> QED BY <3>1, <3>2 DEF Ordered
  <2>6. InPush' /\ Counted' BY <1>2, <1>4, <1>5, <2>1, <2>2 DEF EngineInv, InPush, Counted
  <2>7. \A i \in R + 1 .. A + 1 : i \in R + 1 .. A \/ i = A + 1 BY <1>2
  <2>8. \A j : Present(j)' = Present(j) BY <2>1 DEF Present
  <2>9. \A i \in R + 1 .. A + 1 : Present(accepted'[i])
    BY <1>3, <1>5, <2>2, <2>7 DEF EngineInv, Described
  <2>10. (cpc = "process" => R > 0 /\ item = accepted[R] /\ Present(item))'
    <3>1. R > 0 => R \in 1 .. A BY <1>2
    <3> QED BY <1>4, <2>1, <2>2, <2>8, <3>1 DEF EngineInv, Described, Present
  <2>11. Described' BY <1>2, <1>4, <2>1, <2>2, <2>9, <2>10 DEF Described, Present
  <2> QED BY <1>1, <2>4, <2>5, <2>6, <2>11 DEF EngineInv
<1> QED BY <1>6, <1>7, <1>8 DEF FeederPushes, CheckFull, Fill, engineVars

(* The engine thread up to the job it is about to judge.                   *)
LEMMA PopsInv == ASSUME EngineInv, Pops, UNCHANGED engineVars
                 PROVE  EngineInv'
<1> USE DEF producerVars, queueVars, consumerVars, ConsumerStep
<1>1. QueueInv'
  BY StepIsQueueStep, InvNext DEF EngineInv, EngineNext, EngineThread
<1>2. /\ TypeOK /\ EngineTypeOK /\ TypeOK' /\ Consuming
      /\ A \in Nat /\ R \in Nat /\ R <= A
  BY <1>1, Lengths DEF EngineInv, QueueInv, Indices
<1>3. /\ UNCHANGED <<made, ppc, job, accepted, features, source, age, mock,
                     anomalies_found, pending, views>>
      /\ cpc # "process" /\ A' = A
  BY DEF Pops, CheckRunning, CheckReady, FallAsleep, TimesOut, Take, Advance, engineVars, A
<1>4. EngineTypeOK' /\ (DOMAIN age = Flows)'
  BY <1>2, <1>3 DEF EngineTypeOK, EngineInv
<1>5. Ordered' /\ InPush' BY <1>3 DEF EngineInv, Ordered, InPush
<1>6. \A j : Present(j)' = Present(j) BY <1>3 DEF Present
<1>7. CASE Advance
  <2>1. R < A /\ item = accepted[R + 1] /\ item' = item /\ received' = Append(received, item)
    BY <1>2, <1>7 DEF Advance, Consuming
  <2>2. R' = R + 1 BY <1>2, <2>1, AppendProperties DEF TypeOK, R
  <2>3. R + 1 \in R + 1 .. A /\ \A i \in R + 2 .. A : i \in R + 1 .. A BY <1>2, <2>1
  <2>4. Described' BY <1>2, <1>3, <1>6, <2>1, <2>2, <2>3 DEF EngineInv, Described
  <2>5. Counted' BY <1>2, <1>3, <2>2 DEF EngineInv, Counted, EngineTypeOK
  <2> QED BY <1>1, <1>4, <1>5, <2>4, <2>5 DEF EngineInv
<1>8. CASE CheckRunning \/ CheckReady \/ FallAsleep \/ TimesOut \/ Take
  <2>1. received' = received /\ cpc' # "process" /\ R' = R
    BY <1>8 DEF CheckRunning, CheckReady, FallAsleep, TimesOut, Take, R
  <2>2. Described' /\ Counted'
    BY <1>3, <1>6, <2>1 DEF EngineInv, Described, Counted
  <2> QED BY <1>1, <1>4, <1>5, <2>2 DEF EngineInv
<1> QED BY <1>7, <1>8 DEF Pops

(* An anomaly is one of a job received, and a proposal is one of a flow.   *)
LEMMA JudgeInv == ASSUME EngineInv, Judge
                  PROVE  EngineInv'
<1> USE DEF producerVars, queueVars, consumerVars, ConsumerStep
<1>1. QueueInv'
  BY StepIsQueueStep, InvNext DEF EngineInv, EngineNext, EngineThread
<1>2. /\ TypeOK /\ EngineTypeOK /\ TypeOK'
      /\ A \in Nat /\ R \in Nat /\ made \in Nat /\ R <= A
  <2>1. QueueInv /\ EngineTypeOK /\ TypeOK /\ TypeOK' /\ R <= A
    BY <1>1 DEF EngineInv, QueueInv, Indices
  <2> QED BY <2>1, Lengths, JobQueueAssumption DEF TypeOK
<1>3. /\ UNCHANGED <<made, ppc, job, accepted, received, age, mock, views>>
      /\ cpc = "process" /\ cpc' # "process" /\ A' = A /\ R' = R
  BY DEF Judge, Process, A, R
<1>4. R \in 1 .. A /\ item = accepted[R] /\ Present(item) /\ anomalies_found < R
  BY <1>2, <1>3 DEF EngineInv, Described, Counted
<1>5. Forget(item) BY DEF Judge
<1>6. /\ anomalies_found' \in Nat /\ anomalies_found' <= R
      /\ pending' \in Seq(RuleProposal) /\ Len(pending') <= anomalies_found'
  <2>0. anomalies_found \in Nat /\ pending \in Seq(RuleProposal) /\ Len(pending) <= anomalies_found
    BY <1>2 DEF EngineTypeOK
  <2>1. PICK r \in processJob(item) :
          IF r.result = "NORMAL" THEN UNCHANGED <<anomalies_found, pending>>
          ELSE anomalies_found' = anomalies_found + 1 /\ onMLResult(item, r)
    BY DEF Judge
  <2>2. CASE UNCHANGED <<anomalies_found, pending>>
    BY <1>2, <1>4, <2>0, <2>2
  <2>3. CASE anomalies_found' = anomalies_found + 1 /\ onMLResult(item, r)
    <3>1. buildProposal(item, r.result) \in RuleProposal
      BY <1>4 DEF buildProposal, RuleProposal, Present
    <3>2. pending' = pending \/ pending' = Append(pending, buildProposal(item, r.result))
      BY <2>3 DEF onMLResult
    <3>3. pending' \in Seq(RuleProposal) /\ Len(pending') <= Len(pending) + 1
      BY <2>0, <3>1, <3>2, AppendProperties, LenProperties
    <3>4. Len(pending) \in Nat /\ Len(pending') \in Nat BY <2>0, <3>3, LenProperties
    <3> QED BY <1>2, <1>4, <2>0, <2>3, <3>3, <3>4
  <2> QED BY <2>1, <2>2, <2>3
<1>7. EngineTypeOK' /\ (DOMAIN age = Flows)'
  <2>1. /\ DOMAIN features' = Jobs
        /\ \A j \in Jobs : features'[j] \in FlowState \union {NoFeatures}
    BY <1>2, <1>5 DEF Forget, EngineTypeOK
  <2>2. source' \in [Jobs -> Flows \union {NoFlow}]
    BY <1>2, <1>5 DEF Forget, EngineTypeOK
  <2>3. anomalies_found' \in 0 .. made'
    BY <1>2, <1>3, <1>6 DEF EngineInv, Counted
  <2> QED BY <1>2, <1>3, <1>6, <2>1, <2>2, <2>3 DEF EngineTypeOK, EngineInv
<1>8. Ordered' /\ InPush' BY <1>3 DEF EngineInv, Ordered, InPush
<1>9. Described'
  <2>1. \A j : Present(j) /\ j # item => Present(j)'
    BY <1>2, <1>5 DEF Forget, Present, EngineTypeOK
  <2>2. \A i \in 1 .. A : accepted[i] \in 1 .. made BY DEF EngineInv, Ordered
  <2>3. \A i \in R + 1 .. A : accepted[i] # item
    <3>1. \A i \in R + 1 .. A : i \in 1 .. A /\ R < i BY <1>2
    <3>2. \A i \in R + 1 .. A : accepted[R] < accepted[i]
      BY <1>4, <3>1 DEF EngineInv, Ordered
    <3> QED BY <1>2, <1>4, <2>2, <3>1, <3>2
  <2>4. ASSUME NEW p \in Producers, ppc[p] # "idle" PROVE Present(job[p])'
    <3>1. job[p] = made /\ accepted[R] < made BY <1>4, <2>4 DEF EngineInv, InPush
    <3> QED BY <1>2, <1>3, <1>4, <2>1, <2>4, <3>1 DEF EngineInv, Described, Present
  <2> QED BY <1>3, <2>1, <2>3, <2>4 DEF EngineInv, Described, Present
<1>10. Counted' BY <1>2, <1>3, <1>6 DEF EngineInv, Counted
<1> QED BY <1>1, <1>7, <1>8, <1>9, <1>10 DEF EngineInv

(* Steps that leave the queue and the jobs alone.                          *)
LEMMA OtherInv ==
  ASSUME EngineInv, EngineTypeOK', (DOMAIN age = Flows)', [EngineNext]_allVars,
         UNCHANGED <<made, ppc, job, accepted, received, cpc, item, features, source,
                     anomalies_found>>
  PROVE  EngineInv'
<1>1. QueueInv' BY StepIsQueueStep, InvNext DEF EngineInv
<1>2. A' = A /\ R' = R BY DEF A, R
<1>3. \A j : Present(j)' = Present(j) BY DEF Present
<1> QED BY <1>1, <1>2, <1>3 DEF EngineInv, Ordered, InPush, Described, Counted

LEMMA RemoveAtType ==
  ASSUME NEW S, NEW s \in Seq(S), NEW i \in 1 .. Len(s)
  PROVE  RemoveAt(s, i) \in Seq(S) /\ Len(RemoveAt(s, i)) <= Len(s)
<1> DEFINE before == SubSeq(s, 1, i - 1)
           after  == SubSeq(s, i + 1, Len(s))
<1>1. Len(s) \in Nat /\ i \in 1 .. Len(s) BY LenProperties
<1>2. /\ before \in Seq(S) /\ Len(before) = i - 1
      /\ after \in Seq(S) /\ Len(after) = Len(s) - i
  BY <1>1, SubSeqProperties
<1>3. RemoveAt(s, i) = before \o after BY DEF RemoveAt
<1> HIDE DEF before, after
<1>4. before \o after \in Seq(S) /\ Len(before \o after) = Len(before) + Len(after)
  BY <1>2, ConcatProperties
<1>5. Len(before) + Len(after) <= Len(s) BY <1>1, <1>2
<1> QED BY <1>3, <1>4, <1>5

LEMMA DecideType ==
  ASSUME EngineTypeOK, NEW a \in Administrators, NEW i \in Jobs, Decide(a, i)
  PROVE  EngineTypeOK'
<1>1. /\ UNCHANGED <<vars, age, features, source, mock, anomalies_found>>
      /\ pending' = IF i \in DOMAIN pending THEN RemoveAt(pending, i) ELSE pending
  BY DEF Decide
<1>2. TypeOK' = TypeOK
  BY <1>1 DEF vars, TypeOK, queueVars, producerVars, consumerVars
<1>3. /\ pending \in Seq(RuleProposal) /\ Len(pending) <= anomalies_found
      /\ anomalies_found \in Nat /\ Len(pending) \in Nat /\ DOMAIN pending = 1 .. Len(pending)
  BY LenProperties DEF EngineTypeOK
<1>4. pending' \in Seq(RuleProposal) /\ Len(pending') <= Len(pending)
  BY <1>1, <1>3, RemoveAtType
<1>5. Len(pending') <= anomalies_found' BY <1>1, <1>3, <1>4, LenProperties
<1>6. views' \in [Administrators -> [seen : Seq(RuleProposal), fresh : BOOLEAN]]
  BY DEF Decide, EngineTypeOK
<1> QED BY <1>1, <1>2, <1>4, <1>5, <1>6
    DEF EngineTypeOK, vars, queueVars, producerVars, consumerVars

LEMMA EngineInvNext == EngineInv /\ [EngineNext]_allVars => EngineInv'
<1> SUFFICES ASSUME EngineInv, [EngineNext]_allVars PROVE EngineInv'
  OBVIOUS
<1> USE DEF vars, queueVars, producerVars, consumerVars
<1>0. EngineTypeOK /\ DOMAIN age = Flows /\ TypeOK
  BY DEF EngineInv, QueueInv
<1>1. ASSUME NEW f \in Flows, WorkerWrites(f) PROVE EngineInv'
  <2>1. FlowLives[f] \in Seq(FlowState) BY MLEngineAssumption
  <2>2. age[f] + 1 \in DOMAIN FlowLives[f]
    <3>1. age[f] \in 1 .. Len(FlowLives[f]) /\ Len(FlowLives[f]) \in Nat
      BY <1>0, <2>1, LenProperties DEF EngineTypeOK
    <3> QED BY <1>1, <2>1, <3>1, LenProperties DEF WorkerWrites
  <2>3. (\A g \in Flows : age'[g] \in DOMAIN FlowLives[g]) /\ DOMAIN age' = Flows
    BY <1>0, <1>1, <2>2 DEF WorkerWrites, EngineTypeOK
  <2>4. EngineTypeOK' BY <1>0, <1>1, <2>3 DEF WorkerWrites, EngineTypeOK, TypeOK
  <2> QED BY <1>1, <2>3, <2>4, OtherInv DEF WorkerWrites
<1>2. ASSUME NEW p \in Producers, FeederPushes(p) PROVE EngineInv'
  BY <1>2, FeederPushesInv
<1>3. ASSUME NEW p \in Producers, NEW f \in Flows, Feed(p, f) PROVE EngineInv'
  BY <1>3, FeedInv
<1>4. CASE EngineThread
  BY <1>4, JudgeInv, PopsInv DEF EngineThread
<1>5. ASSUME NEW a \in Administrators, getPendingProposals(a) PROVE EngineInv'
  <2>1. EngineTypeOK' BY <1>0, <1>5 DEF getPendingProposals, EngineTypeOK, TypeOK
  <2> QED BY <1>0, <1>5, <2>1, OtherInv DEF getPendingProposals
<1>6. ASSUME NEW a \in Administrators, NEW i \in Jobs, Decide(a, i) PROVE EngineInv'
  <2>1. EngineTypeOK' BY <1>0, <1>6, DecideType
  <2> QED BY <1>0, <1>6, <2>1, OtherInv DEF Decide
<1>7. CASE Stop /\ UNCHANGED engineVars
  <2>1. EngineTypeOK' BY <1>0, <1>7 DEF Stop, engineVars, EngineTypeOK, TypeOK
  <2> QED BY <1>0, <1>7, <2>1, OtherInv DEF Stop, engineVars
<1>8. CASE UNCHANGED allVars
  <2>1. EngineTypeOK' BY <1>0, <1>8 DEF allVars, engineVars, EngineTypeOK, TypeOK
  <2> QED BY <1>0, <1>8, <2>1, OtherInv DEF allVars, engineVars
<1> QED BY <1>1, <1>2, <1>3, <1>4, <1>5, <1>6, <1>7, <1>8
    DEF EngineNext, Stopped, allVars

(* Every variable of layer 2 keeps its type: a job to be judged has its    *)
(* features, and there are no more proposals than anomalies, nor more      *)
(* anomalies than jobs.                                                    *)
THEOREM EngineTypeCorrect == SingleProducer /\ EngineSpec => []EngineTypeOK
<1>1. EngineInv => EngineTypeOK BY DEF EngineInv
<1> QED BY <1>1, EngineInvInit, EngineInvNext, PTL DEF EngineSpec

-----------------------------------------------------------------------------
(*                       The administrators' views                         *)

LEMMA PrefixOfAppend ==
  ASSUME NEW S, NEW s \in Seq(S), NEW t \in Seq(S), NEW e \in S, IsPrefix(s, t)
  PROVE  IsPrefix(s, Append(t, e))
<1>1. Len(s) \in Nat /\ Len(t) \in Nat /\ Len(s) <= Len(t)
  BY LenProperties DEF IsPrefix
<1>2. Len(Append(t, e)) = Len(t) + 1 /\ \A i \in 1 .. Len(t) : Append(t, e)[i] = t[i]
  BY AppendProperties
<1>3. SubSeq(t, 1, Len(s)) = [i \in 1 .. Len(s) |-> t[i]] BY <1>1, SubSeqProperties
<1>4. SubSeq(Append(t, e), 1, Len(s)) = [i \in 1 .. Len(s) |-> Append(t, e)[i]]
  BY <1>1, <1>2, SubSeqProperties, AppendProperties
<1>5. \A i \in 1 .. Len(s) : i \in 1 .. Len(t) BY <1>1
<1>6. SubSeq(t, 1, Len(s)) = SubSeq(Append(t, e), 1, Len(s)) BY <1>2, <1>3, <1>4, <1>5
<1> QED BY <1>1, <1>2, <1>6 DEF IsPrefix

LEMMA FreshViewsNext ==
  EngineInv /\ EngineInv' /\ FreshViewsAreExact /\ [EngineNext]_allVars => FreshViewsAreExact'
<1> SUFFICES ASSUME EngineInv, EngineInv', FreshViewsAreExact, [EngineNext]_allVars,
                    NEW a \in Administrators, views'[a].fresh
             PROVE  IsPrefix(views'[a].seen, pending')
  BY DEF FreshViewsAreExact
<1>0. /\ pending \in Seq(RuleProposal)
      /\ views \in [Administrators -> [seen : Seq(RuleProposal), fresh : BOOLEAN]]
  BY DEF EngineInv, EngineTypeOK
<1>1. CASE UNCHANGED <<pending, views>> BY <1>1 DEF FreshViewsAreExact
<1>2. CASE Judge
  <2>1. views' = views BY <1>2 DEF Judge
  <2>2. \/ pending' = pending
        \/ \E e \in RuleProposal : pending' = Append(pending, e)
    <3>1. Present(item) BY <1>2 DEF EngineInv, Described, Judge, Process, ConsumerStep
    <3>2. \A result : buildProposal(item, result) \in RuleProposal
      BY <3>1 DEF buildProposal, RuleProposal, Present
    <3> QED BY <1>2, <3>2 DEF Judge, onMLResult
  <2>3. views[a].seen \in Seq(RuleProposal) /\ IsPrefix(views[a].seen, pending)
    BY <1>0, <2>1 DEF FreshViewsAreExact
  <2>4. \A e \in RuleProposal : IsPrefix(views[a].seen, Append(pending, e))
    BY <1>0, <2>3, PrefixOfAppend
  <2> QED BY <2>1, <2>2, <2>3, <2>4
<1>3. ASSUME NEW b \in Administrators, getPendingProposals(b)
      PROVE  IsPrefix(views'[a].seen, pending')
  <2>1. IsPrefix(pending, pending) BY <1>0, LenProperties DEF IsPrefix
  <2>2. CASE a = b
    BY <1>0, <1>3, <2>1, <2>2 DEF getPendingProposals
  <2>3. CASE a # b
    BY <1>0, <1>3, <2>3 DEF getPendingProposals, FreshViewsAreExact
  <2> QED BY <2>2, <2>3
<1>4. ASSUME NEW b \in Administrators, NEW i \in Jobs, Decide(b, i)
      PROVE  IsPrefix(views'[a].seen, pending')
  BY <1>0, <1>4 DEF Decide, FreshViewsAreExact
<1> QED BY <1>1, <1>2, <1>3, <1>4
    DEF EngineNext, WorkerWrites, Feed, FeederPushes, EngineThread, Stop, Stopped,
        engineVars, allVars

(* A copy of the proposals that was fetched after the last decision names  *)
(* them by their places, however many the engine has added since.          *)
THEOREM ViewsStayExact == SingleProducer /\ EngineSpec => []FreshViewsAreExact
<1>1. EngineInit => FreshViewsAreExact
  BY EmptySeq, LenProperties DEF EngineInit, FreshViewsAreExact, IsPrefix
<1> QED BY <1>1, EngineInvInit, EngineInvNext, FreshViewsNext, PTL DEF EngineSpec

-----------------------------------------------------------------------------
(***************************************************************************)
(* What the mocks make of a flow.  Every feature that extract computes is  *)
(* a fraction, and at most 1 once it is normalized: the isolation forest's *)
(* signals, made for raw features, stay below its threshold.  Of the 21    *)
(* squares that the autoencoder adds up, one is 0 and three can be more    *)
(* than a millionth.                                                       *)
(***************************************************************************)

-----------------------------------------------------------------------------
Fractions == [num : Nat, den : Nat \ {0}]
Proper    == {q \in Fractions : q.num <= q.den}

LEMMA FeatureNames ==
  Features = {"flow_duration", "total_pkt_fwd", "total_pkt_bwd", "total_byte_fwd",
              "total_byte_bwd", "syn_count", "ack_count", "rst_count", "fin_count",
              "syn_no_ack_ratio", "pkt_rate", "byte_rate", "pkt_per_flow", "conn_duration",
              "bytes_per_second", "inter_arrival_mean", "inter_arrival_std",
              "header_complete", "concurrent_conn", "unique_dst_ports", "rst_ratio"}
BY DEF Features, BOUNDS

LEMMA FractionsMade ==
  ASSUME NEW n \in Nat, NEW d \in Nat
  PROVE  Whole(n) \in Fractions /\ Ratio(n, d) \in Fractions
BY DEF Whole, Ratio, Frac, Fractions

LEMMA Extracted ==
  ASSUME NEW fl \in FlowState
  PROVE  \A n \in Features : extract(fl)[n] \in Fractions
<1> DEFINE n == fl.total_packets
           iat == IF n > 1 THEN Max({1000 * fl.duration, 1}) \div (n - 1) ELSE 0
<1>1. /\ fl.duration \in Nat /\ n \in Nat /\ fl.total_bytes \in Nat
      /\ fl.syn_count \in Nat /\ fl.ack_count \in Nat /\ fl.rst_count \in Nat
      /\ fl.fin_count \in Nat /\ fl.syn_no_ack \in Nat /\ fl.dst_ports_seen \in Nat
  BY DEF FlowState
<1> HIDE DEF n
<1>2. \A a, d \in Nat : d # 0 => a \div d \in Nat BY DivMod
<1>3. Max({1000 * fl.duration, 1}) \in Nat
  <2>1. 1000 * fl.duration \in Nat BY <1>1
  <2>2. CASE 1000 * fl.duration >= 1
    <3>1. Max({1000 * fl.duration, 1}) = 1000 * fl.duration BY <2>1, <2>2, MaxBounds
    <3> QED BY <2>1, <3>1
  <2>3. CASE 1000 * fl.duration < 1
    <3>1. Max({1000 * fl.duration, 1}) = 1 BY <2>1, <2>3, MaxBounds
    <3> QED BY <3>1
  <2> QED BY <2>1, <2>2, <2>3
<1>4. iat \in Nat
  <2> DEFINE top  == Max({1000 * fl.duration, 1})
             rest == n - 1
  <2>1. n > 1 => rest \in Nat /\ rest # 0 BY <1>1
  <2>2. top \in Nat BY <1>3
  <2>3. iat = IF n > 1 THEN top \div rest ELSE 0 OBVIOUS
  <2> HIDE DEF top, rest, iat
  <2>4. n > 1 => top \div rest \in Nat BY <1>2, <2>1, <2>2
  <2> QED BY <2>3, <2>4
<1> HIDE DEF iat
<1>5. /\ (6 * fl.total_bytes) \div 10 \in Nat /\ (4 * fl.total_bytes) \div 10 \in Nat
      /\ (3 * iat) \div 10 \in Nat
  BY <1>1, <1>4
<1>6. \A a \in Nat : PerSecond(a, fl.duration) \in Nat BY <1>1, <1>2 DEF PerSecond
<1>7. (IF fl.duration = 0 THEN 0 ELSE fl.total_bytes \div fl.duration) \in Nat BY <1>1, <1>2
<1>8. (IF fl.http_header_complete THEN 1 ELSE 0) \in Nat OBVIOUS
<1>9. extract(fl) = [flow_duration |-> Whole(fl.duration), total_pkt_fwd |-> Whole(0), total_pkt_bwd |-> Whole(0),
       total_byte_fwd |-> Whole((6 * fl.total_bytes) \div 10),
       total_byte_bwd |-> Whole((4 * fl.total_bytes) \div 10),
       syn_count |-> Whole(fl.syn_count), ack_count |-> Whole(fl.ack_count),
       rst_count |-> Whole(fl.rst_count), fin_count |-> Whole(fl.fin_count),
       syn_no_ack_ratio |-> Ratio(fl.syn_no_ack, fl.syn_count),
       pkt_rate |-> Whole(PerSecond(n, fl.duration)),
       byte_rate |-> Whole(PerSecond(fl.total_bytes, fl.duration)),
       pkt_per_flow |-> Whole(n), conn_duration |-> Whole(fl.duration),
       bytes_per_second |-> Whole(IF fl.duration = 0 THEN 0 ELSE fl.total_bytes \div fl.duration),
       inter_arrival_mean |-> Whole(iat), inter_arrival_std |-> Whole((3 * iat) \div 10),
       header_complete |-> Whole(IF fl.http_header_complete THEN 1 ELSE 0),
       concurrent_conn |-> Whole(0), unique_dst_ports |-> Whole(fl.dst_ports_seen),
       rst_ratio |-> Ratio(fl.rst_count, n)]
  BY DEF extract, n, iat
<1> QED BY <1>1, <1>4, <1>5, <1>6, <1>7, <1>8, <1>9, FractionsMade, FeatureNames

LEMMA Normalized ==
  ASSUME NEW fv, \A n \in Features : fv[n] \in Fractions
  PROVE  \A n \in Features : normalize(fv)[n] \in Proper
<1> SUFFICES ASSUME NEW n \in Features PROVE normalize(fv)[n] \in Proper OBVIOUS
<1>1. BOUNDS[n] \in Nat \ {0} BY FeatureNames DEF BOUNDS
<1>2. normalize(fv)[n] = clampNormalize(fv[n], BOUNDS[n]) BY DEF normalize
<1>3. fv[n].num \in Nat /\ fv[n].den \in Nat \ {0} BY DEF Fractions
<1> DEFINE p == fv[n].den * BOUNDS[n]
<1>4. p \in Nat \ {0} BY <1>1, <1>3
<1>5. CASE Exceeds(fv[n], BOUNDS[n], 1)
  BY <1>2, <1>5 DEF clampNormalize, Whole, Frac, Proper, Fractions
<1>6. CASE ~Exceeds(fv[n], BOUNDS[n], 1)
  <2>1. fv[n].num <= p BY <1>1, <1>3, <1>6 DEF Exceeds
  <2>2. normalize(fv)[n] = [num |-> fv[n].num, den |-> p] BY <1>2, <1>6 DEF clampNormalize, Frac
  <2> HIDE DEF p
  <2> QED BY <1>3, <1>4, <2>1, <2>2 DEF Proper, Fractions
<1> QED BY <1>5, <1>6

LEMMA ProperPerMille ==
  ASSUME NEW q \in Proper
  PROVE  PerMille(q) \in Nat /\ PerMille(q) <= 1000
<1>1. q.num \in Nat /\ q.den \in Nat \ {0} /\ 1000 * q.num < q.den * (1000 + 1)
  BY DEF Proper, Fractions
<1>2. 1000 * q.num \in Nat BY <1>1
<1> QED BY <1>1, <1>2, DivBound DEF PerMille

LEMMA ProperExceedsNothing ==
  ASSUME NEW q \in Proper, NEW n \in Nat \ {0}
  PROVE  ~Exceeds(q, n, 1)
<1>1. q.num \in Nat /\ q.den \in Nat /\ q.num <= q.den BY DEF Proper, Fractions
<1>2. n * q.den >= q.den BY <1>1
<1>3. n * q.den \in Nat BY <1>1
<1> QED BY <1>1, <1>2, <1>3 DEF Exceeds

-----------------------------------------------------------------------------
LEMMA WhenIsInt == ASSUME NEW c \in BOOLEAN, NEW x \in Int PROVE When(c, x) \in Int
BY DEF When

LEMMA ForestIsQuiet ==
  ASSUME NEW fv, \A n \in Features : fv[n] \in Proper
  PROVE  /\ MockIsolationForest(fv).is_anomaly = FALSE
         /\ MockIsolationForest(fv).score \in Int
<1> DEFINE ddos == When(Exceeds(fv.syn_no_ack_ratio, 7, 10), PerMille(fv.syn_no_ack_ratio) - 700)
           scan == When(Exceeds(fv.rst_ratio, 1, 2), (6 * (PerMille(fv.rst_ratio) - 500)) \div 10)
           top  == Max({ddos, 0, scan})
<1>1. /\ fv.pkt_rate \in Proper /\ fv.conn_duration \in Proper /\ fv.unique_dst_ports \in Proper
      /\ fv.syn_no_ack_ratio \in Proper /\ fv.rst_ratio \in Proper
  BY FeatureNames
<1>2. /\ Exceeds(fv.pkt_rate, 1000, 1) = FALSE /\ Exceeds(fv.conn_duration, 30, 1) = FALSE
      /\ Exceeds(fv.unique_dst_ports, 20, 1) = FALSE
  BY <1>1, ProperExceedsNothing DEF Exceeds
<1>3. MockIsolationForest(fv) = Output(Min({Max({0 + ddos, 0 + 0, 0 + scan}), 1000}), IF_THRESHOLD)
  BY <1>2 DEF MockIsolationForest, When
<1>4. ddos \in Int /\ ddos <= 300
  <2> DEFINE m == PerMille(fv.syn_no_ack_ratio)
  <2>1. m \in Nat /\ m <= 1000 BY <1>1, ProperPerMille
  <2> HIDE DEF m
  <2> QED BY <2>1 DEF When, m
<1>5. scan \in Int /\ scan <= 300
  <2> DEFINE m == PerMille(fv.rst_ratio)
  <2>1. m \in Nat /\ m <= 1000 BY <1>1, ProperPerMille
  <2> HIDE DEF m
  <2>2. (6 * (m - 500)) \div 10 \in Int /\ (6 * (m - 500)) \div 10 <= 300 BY <2>1
  <2> QED BY <2>2 DEF When, m
<1> HIDE DEF ddos, scan, top
<1>6. 0 + ddos = ddos /\ 0 + 0 = 0 /\ 0 + scan = scan BY <1>4, <1>5
<1>7. top \in Int /\ top <= 300
  <2>1. \E m \in {ddos, 0, scan} : \A x \in {ddos, 0, scan} : m >= x BY <1>4, <1>5
  <2>2. top \in {ddos, 0, scan}
    <3>1. \A m \in {ddos, 0, scan} : (\A x \in {ddos, 0, scan} : m >= x) => top = m
      BY <1>4, <1>5, MaxBounds DEF top
    <3> QED BY <2>1, <3>1
  <2> QED BY <1>4, <1>5, <2>2
<1>8. MockIsolationForest(fv) = Output(Min({top, 1000}), IF_THRESHOLD) BY <1>3, <1>6 DEF top
<1>9. Min({top, 1000}) = top BY <1>7, MinOfTwo
<1>10. MockIsolationForest(fv) = Output(top, IF_THRESHOLD) BY <1>8, <1>9
<1>11. MockIsolationForest(fv) = [score |-> top, is_anomaly |-> top > 600]
  BY <1>10 DEF Output, IF_THRESHOLD
<1>12. MockIsolationForest(fv).score = top BY <1>11
<1>13. (top > 600) = FALSE BY <1>7
<1>14. MockIsolationForest(fv) = [score |-> top, is_anomaly |-> FALSE] BY <1>11, <1>13
<1> QED BY <1>7, <1>12, <1>14

(* The autoencoder's distance of a feature, in thousandths.                *)
Distance(fv, n) == Scaled(PerMille(fv[n]), BOUNDS[n]) - Scaled(Baseline[n], BOUNDS[n])

LEMMA ScaledBound ==
  ASSUME NEW t \in Nat, NEW max \in Nat \ {0}
  PROVE  Scaled(t, max) \in Nat /\ Scaled(t, max) <= 1000
<1>1. t \div max \in Nat BY DivMod
<1>2. Min({t \div max, 1000}) = IF t \div max <= 1000 THEN t \div max ELSE 1000
  <2> DEFINE q == t \div max
  <2> HIDE DEF q
  <2>1. q \in Int BY <1>1 DEF q
  <2> QED BY <2>1, MinOfTwo DEF q
<1> QED BY <1>1, <1>2 DEF Scaled

LEMMA SquareBound ==
  ASSUME NEW x \in Int, NEW c \in Nat, 0 - c <= x, x <= c
  PROVE  Square(x) \in Nat /\ Square(x) <= c * c
<1>1. CASE x >= 0
  <2>1. x * x <= c * x /\ c * x <= c * c /\ x * x >= 0 BY <1>1
  <2> QED BY <2>1 DEF Square
<1>2. CASE x < 0
  <2> DEFINE y == 0 - x
  <2>1. y \in Nat /\ y <= c BY <1>2
  <2>2. x * x = y * y BY <1>2
  <2> HIDE DEF y
  <2>3. y * y <= c * y /\ c * y <= c * c /\ y * y >= 0 BY <2>1
  <2> QED BY <2>1, <2>2, <2>3 DEF Square
<1> QED BY <1>1, <1>2

LEMMA BaselineRange == \A n \in Features : Baseline[n] \in Nat /\ BOUNDS[n] \in Nat \ {0}
<1>1. \A n \in Features : BOUNDS[n] \in Nat \ {0} BY FeatureNames DEF BOUNDS
<1>2. \A n \in Features : Baseline[n] \in Nat BY FeatureNames DEF Baseline
<1> QED BY <1>1, <1>2

LEMMA DistanceRange ==
  ASSUME NEW fv, NEW n \in Features, fv[n] \in Proper
  PROVE  /\ Distance(fv, n) \in Int
         /\ Square(Distance(fv, n)) \in Nat /\ Square(Distance(fv, n)) <= 1000000
<1> DEFINE seen  == Scaled(PerMille(fv[n]), BOUNDS[n])
           usual == Scaled(Baseline[n], BOUNDS[n])
<1>1. BOUNDS[n] \in Nat \ {0} /\ Baseline[n] \in Nat BY BaselineRange
<1>2. seen \in Nat /\ seen <= 1000 BY <1>1, ProperPerMille, ScaledBound
<1>3. usual \in Nat /\ usual <= 1000 BY <1>1, ScaledBound
<1>4. Distance(fv, n) = seen - usual BY DEF Distance
<1> HIDE DEF seen, usual
<1>5. seen - usual \in Int /\ 0 - 1000 <= seen - usual /\ seen - usual <= 1000 BY <1>2, <1>3
<1>6. Square(seen - usual) \in Nat /\ Square(seen - usual) <= 1000 * 1000 BY <1>5, SquareBound
<1> QED BY <1>4, <1>5, <1>6

LEMMA FeaturesCounted == IsFiniteSet(Features) /\ Cardinality(Features) = 21
<1> DEFINE names == <<"flow_duration", "total_pkt_fwd", "total_pkt_bwd", "total_byte_fwd",
              "total_byte_bwd", "syn_count", "ack_count", "rst_count", "fin_count",
              "syn_no_ack_ratio", "pkt_rate", "byte_rate", "pkt_per_flow", "conn_duration",
              "bytes_per_second", "inter_arrival_mean", "inter_arrival_std",
              "header_complete", "concurrent_conn", "unique_dst_ports", "rst_ratio">>
<1>1. names \in [1 .. 21 -> Features] BY FeatureNames
<1>2. \A n \in Features : \E i \in 1 .. 21 : names[i] = n BY FeatureNames
<1>3. \A i, j \in 1 .. 21 : names[i] = names[j] => i = j OBVIOUS
<1>4. ExistsBijection(1 .. 21, Features)
  <2> HIDE DEF names
  <2> QED BY <1>1, <1>2, <1>3
      DEF ExistsBijection, Bijection, Injection, Surjection, IsInjective
<1> DEFINE k == 21
<1>5. k \in Nat /\ k >= 1 OBVIOUS
<1>6. ExistsBijection(1 .. k, Features) BY <1>4
<1>7. k = 21 OBVIOUS
<1> HIDE DEF k
<1>8. IsFiniteSet(1 .. k) /\ Cardinality(1 .. k) = k BY <1>5, FS_Interval
<1> QED BY <1>6, <1>7, <1>8, FS_Bijection

-----------------------------------------------------------------------------
Squares(fv) == [n \in Features |-> Square(Distance(fv, n))]
AeSum(fv)   == SumFunctionOnSet(Squares(fv), Features)

TooFar(fv)  == AeSum(fv) > 1000 * 50 * 21

LEMMA AutoencoderSums ==
  ASSUME NEW fv
  PROVE  MockAutoencoder(fv) = [score |-> AeSum(fv) \div (1000 * 21), is_anomaly |-> TooFar(fv)]
<1> DEFINE distance == [n \in Features |->
              Scaled(PerMille(fv[n]), BOUNDS[n]) - Scaled(Baseline[n], BOUNDS[n])]
<1>1. [n \in Features |-> Square(distance[n])] = Squares(fv) BY DEF Squares, Distance
<1>2. DOMAIN Squares(fv) = Features BY DEF Squares
<1>3. SumFunction([n \in Features |-> Square(distance[n])]) = AeSum(fv)
  BY <1>1, <1>2 DEF SumFunction, AeSum
<1>4. MockAutoencoder(fv) = Reconstruction(distance) BY DEF MockAutoencoder
<1> HIDE DEF distance
<1> QED BY <1>3, <1>4, FeaturesCounted DEF Reconstruction, AE_THRESHOLD, TooFar

(* The autoencoder's parts of a feature that was normalized twice.         *)
LEMMA SquaresRange ==
  ASSUME NEW fv, \A n \in Features : fv[n] \in Proper
  PROVE  \A n \in Features : Squares(fv)[n] \in Nat /\ Squares(fv)[n] <= 1000000
BY DistanceRange DEF Squares

LEMMA NothingIsNoDistance ==
  ASSUME NEW q \in Fractions, q.num = 0, NEW max \in Nat \ {0}
  PROVE  Scaled(PerMille(q), max) = 0
<1>1. \A d \in Nat \ {0} : 0 \div d = 0
  <2> TAKE d \in Nat \ {0}
  <2>1. 0 < d * (0 + 1) OBVIOUS
  <2> QED BY <2>1, DivBound
<1>2. q.den \in Nat \ {0} /\ 1000 * q.num = 0 BY DEF Fractions
<1>3. PerMille(q) = 0 BY <1>1, <1>2 DEF PerMille
<1>4. Min({0, 1000}) = 0 BY MinOfTwo
<1> QED BY <1>1, <1>3, <1>4 DEF Scaled

LEMMA OneSquareIsZero ==
  ASSUME NEW fv, fv.total_pkt_fwd \in Fractions, fv.total_pkt_fwd.num = 0
  PROVE  Squares(fv)["total_pkt_fwd"] = 0
<1>1. "total_pkt_fwd" \in Features BY FeatureNames
<1>2. BOUNDS.total_pkt_fwd \in Nat \ {0} BY DEF BOUNDS
<1>3. Baseline.total_pkt_fwd = 0 BY DEF Baseline
<1>4. 0 \div BOUNDS.total_pkt_fwd = 0 BY DEF BOUNDS
<1>5. Scaled(0, BOUNDS.total_pkt_fwd) = 0 BY <1>4, MinOfTwo DEF Scaled
<1>6. Scaled(PerMille(fv.total_pkt_fwd), BOUNDS.total_pkt_fwd) = 0 BY <1>2, NothingIsNoDistance
<1>7. Distance(fv, "total_pkt_fwd") = 0 BY <1>3, <1>5, <1>6 DEF Distance
<1> QED BY <1>1, <1>7 DEF Squares, Square

LEMMA AutoencoderIsWeak ==
  ASSUME NEW fv, \A n \in Features : fv[n] \in Proper, fv.total_pkt_fwd.num = 0
  PROVE  /\ AeSum(fv) \in Nat
         /\ MockAutoencoder(fv).score \in Nat /\ MockAutoencoder(fv).score <= 952
<1> DEFINE others == Features \ {"total_pkt_fwd"}
           rest   == SumFunctionOnSet(Squares(fv), others)
<1>1. "total_pkt_fwd" \in Features BY FeatureNames
<1>2. fv.total_pkt_fwd \in Fractions BY <1>1 DEF Proper
<1>3. Squares(fv)["total_pkt_fwd"] = 0 BY <1>2, OneSquareIsZero
<1>4. AeSum(fv) = 0 + rest
  <2>1. \A n \in Features : Squares(fv)[n] \in Int BY SquaresRange
  <2>2. AeSum(fv) = Squares(fv)["total_pkt_fwd"] + rest
    BY <1>1, <2>1, SumWithout, FeaturesCounted DEF AeSum
  <2> QED BY <1>3, <2>2
<1>5. IsFiniteSet(others) /\ Cardinality(others) = 20
  <2>1. Cardinality(others) = Cardinality(Features) - 1
    BY <1>1, FeaturesCounted, FS_RemoveElement
  <2> QED BY <2>1, FeaturesCounted, FS_RemoveElement
<1>6. rest \in Nat /\ rest <= 1000000 * 20
  <2>1. \A n \in others : Squares(fv)[n] \in Nat /\ Squares(fv)[n] <= 1000000 BY SquaresRange
  <2>2. rest \in Nat /\ rest <= 1000000 * Cardinality(others) BY <1>5, <2>1, SumBound
  <2> QED BY <1>5, <2>2
<1> HIDE DEF rest, others
<1>7. AeSum(fv) \in Nat /\ AeSum(fv) <= 20000000 BY <1>4, <1>6
<1>8. AeSum(fv) < 21000 * (952 + 1) BY <1>7
<1>9. AeSum(fv) \div 21000 \in Nat /\ AeSum(fv) \div 21000 <= 952 BY <1>7, <1>8, DivBound
<1>10. MockAutoencoder(fv).score = AeSum(fv) \div 21000 BY AutoencoderSums
<1> QED BY <1>7, <1>9, <1>10

LEMMA NormalizedFlow ==
  ASSUME NEW fl \in FlowState
  PROVE  /\ \A n \in Features : normalize(extract(fl))[n] \in Proper
         /\ normalize(extract(fl)).total_pkt_fwd = [num |-> 0, den |-> 100000]
         /\ normalize(extract(fl)).concurrent_conn = [num |-> 0, den |-> 200]
         /\ normalize(extract(fl)).syn_no_ack_ratio = clampNormalize(Ratio(fl.syn_no_ack, fl.syn_count), 1)
         /\ normalize(extract(fl)).rst_ratio = clampNormalize(Ratio(fl.rst_count, fl.total_packets), 1)
         /\ normalize(extract(fl)).header_complete
              = clampNormalize(Whole(IF fl.http_header_complete THEN 1 ELSE 0), 1)
<1>1. \A n \in Features : normalize(extract(fl))[n] \in Proper BY Extracted, Normalized
<1>2. /\ extract(fl).total_pkt_fwd = Whole(0) /\ extract(fl).concurrent_conn = Whole(0)
      /\ extract(fl).syn_no_ack_ratio = Ratio(fl.syn_no_ack, fl.syn_count)
      /\ extract(fl).rst_ratio = Ratio(fl.rst_count, fl.total_packets)
      /\ extract(fl).header_complete = Whole(IF fl.http_header_complete THEN 1 ELSE 0)
  BY DEF extract
<1>3. \A n \in Features : normalize(extract(fl))[n] = clampNormalize(extract(fl)[n], BOUNDS[n])
  BY DEF normalize
<1>4. /\ BOUNDS.total_pkt_fwd = 100000 /\ BOUNDS.concurrent_conn = 200
      /\ BOUNDS.syn_no_ack_ratio = 1 /\ BOUNDS.rst_ratio = 1 /\ BOUNDS.header_complete = 1
  BY DEF BOUNDS
<1>5. {"total_pkt_fwd", "concurrent_conn", "syn_no_ack_ratio", "rst_ratio", "header_complete"}
        \subseteq Features
  BY FeatureNames
<1>6. clampNormalize(Whole(0), 100000) = [num |-> 0, den |-> 100000]
  BY DEF clampNormalize, Exceeds, Whole, Frac
<1>7. clampNormalize(Whole(0), 200) = [num |-> 0, den |-> 200]
  BY DEF clampNormalize, Exceeds, Whole, Frac
<1> QED BY <1>1, <1>2, <1>3, <1>4, <1>5, <1>6, <1>7

(* What the two mocks make of a flow together.                             *)
LEMMA MocksJudge ==
  ASSUME NEW fl \in FlowState, NEW fv, fv = normalize(extract(fl)),
         NEW r, r = combineResults(MockIsolationForest(fv), MockAutoencoder(fv), fv)
  PROVE  /\ r.result # "NORMAL" <=> TooFar(fv)
         /\ r.result # "NORMAL" => r.confidence < 700
<1> DEFINE i == MockIsolationForest(fv)
           a == MockAutoencoder(fv)
           anomalous == {out \in {i, a} : out.is_anomaly}
<1>1. \A n \in Features : fv[n] \in Proper BY NormalizedFlow
<1>2. fv.total_pkt_fwd.num = 0 BY NormalizedFlow
<1>3. i.is_anomaly = FALSE BY <1>1, ForestIsQuiet
<1>4. AeSum(fv) \in Nat /\ a.score \in Nat /\ a.score <= 952 BY <1>1, <1>2, AutoencoderIsWeak
<1>5. a.is_anomaly = TooFar(fv) BY AutoencoderSums
<1>6. r = IF anomalous = {} THEN [result |-> "NORMAL", confidence |-> 1000 - Max({i.score, a.score})]
          ELSE [result |-> classifyThreat(fv),
                confidence |-> CASE i.is_anomaly /\ a.is_anomaly -> (i.score + a.score) \div 2
                                 [] i.is_anomaly /\ ~a.is_anomaly -> (7 * i.score) \div 10
                                 [] OTHER -> (7 * a.score) \div 10]
  BY DEF combineResults
<1>7. classifyThreat(fv) # "NORMAL"
  BY DEF classifyThreat
<1> HIDE DEF i, a
<1>8. CASE a.is_anomaly
  <2>1. anomalous # {} BY <1>8
  <2>2. r = [result |-> classifyThreat(fv), confidence |-> (7 * a.score) \div 10]
    BY <1>3, <1>6, <1>8, <2>1
  <2>3. (7 * a.score) \div 10 < 700 BY <1>4
  <2>4. r.result # "NORMAL" /\ r.confidence < 700 BY <1>7, <2>2, <2>3
  <2>5. TooFar(fv) BY <1>5, <1>8
  <2> QED BY <2>4, <2>5
<1>9. CASE ~a.is_anomaly
  <2>1. anomalous = {} BY <1>3, <1>9
  <2>2. r.result = "NORMAL" BY <1>6, <2>1
  <2>3. ~TooFar(fv) BY <1>5, <1>9
  <2> QED BY <2>2, <2>3
<1> QED BY <1>8, <1>9

LEMMA RatioSeen ==
  ASSUME NEW n \in Nat, NEW d \in Nat
  PROVE  Scaled(PerMille(clampNormalize(Ratio(n, d), 1)), 1) = PerMille(Ratio(Min({n, d}), d))
<1> DEFINE q == clampNormalize(Ratio(n, d), 1)
           m == PerMille(Ratio(Min({n, d}), d))
<1>0. Min({n, d}) = IF n <= d THEN n ELSE d BY MinOfTwo
<1>1. PerMille(Whole(1)) = 1000 /\ PerMille(Whole(0)) = 0 BY DEF PerMille, Whole, Frac
<1>2. PerMille(q) = m
  <2>1. CASE d = 0
    <3>1. q = Whole(0) BY <2>1 DEF Ratio, clampNormalize, Exceeds, Whole, Frac
    <3> QED BY <2>1, <3>1 DEF Ratio
  <2>2. CASE d # 0 /\ n <= d
    <3>1. Ratio(n, d) = Frac(n, d) BY <2>2 DEF Ratio
    <3>2. ~Exceeds(Frac(n, d), 1, 1) BY <2>2 DEF Exceeds, Frac
    <3>3. q = Frac(n, d * 1) BY <3>1, <3>2 DEF clampNormalize, Frac
    <3>4. m = PerMille(Frac(n, d)) BY <1>0, <2>2, <3>1
    <3> QED BY <3>3, <3>4
  <2>3. CASE d # 0 /\ n > d
    <3>1. Ratio(n, d) = Frac(n, d) /\ Ratio(d, d) = Frac(d, d) BY <2>3 DEF Ratio
    <3>2. Exceeds(Frac(n, d), 1, 1) BY <2>3 DEF Exceeds, Frac
    <3>3. q = Whole(1) BY <3>1, <3>2 DEF clampNormalize
    <3>4. m = (1000 * d) \div d BY <1>0, <2>3, <3>1 DEF PerMille, Frac
    <3>5. (1000 * d) \div d = 1000
      <4>1. 1000 * d \in Nat /\ 1000 * d = d * 1000 OBVIOUS
      <4> QED BY <2>3, <4>1, DivExact
    <3> QED BY <1>1, <3>3, <3>4, <3>5
  <2> QED BY <2>1, <2>2, <2>3
<1>3. q \in Proper
  BY DEF Ratio, clampNormalize, Exceeds, Whole, Frac, Proper, Fractions
<1>4. m \in Nat /\ m <= 1000 BY <1>2, <1>3, ProperPerMille
<1> HIDE DEF q, m
<1>5. m \div 1 = m BY <1>4
<1> QED BY <1>2, <1>4, <1>5, MinOfTwo DEF Scaled, m, q

Weighty == {"syn_no_ack_ratio", "rst_ratio", "header_complete"}

LEMMA NoWeightLeft ==
  ASSUME NEW fv, \A n \in Features : fv[n] \in Proper, fv.concurrent_conn.num = 0
  PROVE  \A n \in Features \ Weighty : Squares(fv)[n] \in Nat /\ Squares(fv)[n] <= 1
<1> SUFFICES ASSUME NEW n \in Features \ Weighty
             PROVE  Squares(fv)[n] \in Nat /\ Squares(fv)[n] <= 1
  OBVIOUS
<1> DEFINE seen  == Scaled(PerMille(fv[n]), BOUNDS[n])
           usual == Scaled(Baseline[n], BOUNDS[n])
<1>1. BOUNDS[n] \in Nat \ {0} /\ Baseline[n] \in Nat BY BaselineRange
<1>2. \A t \in Nat : t < 2 * BOUNDS[n] => Scaled(t, BOUNDS[n]) \in {0, 1}
  <2> TAKE t \in Nat
  <2> HAVE t < 2 * BOUNDS[n]
  <2> DEFINE q == t \div BOUNDS[n]
  <2>1. t < BOUNDS[n] * (1 + 1) BY <1>1
  <2>2. q \in Nat /\ q <= 1 BY <1>1, <2>1, DivBound
  <2>3. Scaled(t, BOUNDS[n]) = Min({q, 1000}) BY DEF Scaled
  <2> HIDE DEF q
  <2>4. Min({q, 1000}) = q BY <2>2, MinOfTwo
  <2> QED BY <2>2, <2>3, <2>4
<1>3. usual \in {0, 1}
  <2>1. Baseline[n] < 2 * BOUNDS[n] BY FeatureNames DEF Baseline, BOUNDS, Weighty
  <2> QED BY <1>1, <1>2, <2>1
<1>4. seen \in {0, 1}
  <2>1. CASE n = "concurrent_conn"
    <3>1. fv[n] \in Fractions /\ fv[n].num = 0 BY <2>1 DEF Proper
    <3> QED BY <1>1, <3>1, NothingIsNoDistance
  <2>2. CASE n # "concurrent_conn"
    <3>1. BOUNDS[n] >= 1000 BY <2>2, FeatureNames DEF BOUNDS, Weighty
    <3>2. PerMille(fv[n]) \in Nat /\ PerMille(fv[n]) <= 1000 BY ProperPerMille
    <3>3. PerMille(fv[n]) < 2 * BOUNDS[n] BY <1>1, <3>1, <3>2
    <3> QED BY <1>2, <3>2, <3>3
  <2> QED BY <2>1, <2>2
<1>5. Squares(fv)[n] = Square(seen - usual) BY DEF Squares, Distance
<1> HIDE DEF seen, usual
<1>6. seen - usual \in {0 - 1, 0, 1} BY <1>3, <1>4
<1>7. Square(seen - usual) \in {0, 1} BY <1>6 DEF Square
<1> QED BY <1>5, <1>7

(* The three features that are left, taken out of the sum.                 *)
LEMMA ThreeTakenOut ==
  ASSUME NEW fv, \A n \in Features : fv[n] \in Proper, fv.concurrent_conn.num = 0
  PROVE  \E rest \in Nat :
           /\ rest <= 18
           /\ AeSum(fv) = Squares(fv)["syn_no_ack_ratio"] + Squares(fv)["rst_ratio"]
                           + Squares(fv)["header_complete"] + rest
<1> DEFINE v == Squares(fv)
           A1 == Features \ {"syn_no_ack_ratio"}
           A2 == A1 \ {"rst_ratio"}
           A3 == A2 \ {"header_complete"}
           rest == SumFunctionOnSet(v, A3)
<1>1. \A n \in Features : v[n] \in Nat BY SquaresRange
<1>2. "syn_no_ack_ratio" \in Features /\ "rst_ratio" \in A1 /\ "header_complete" \in A2
  BY FeatureNames
<1>3. IsFiniteSet(Features) /\ Cardinality(Features) = 21 BY FeaturesCounted
<1>4. \A n \in A3 : v[n] \in Nat /\ v[n] <= 1 BY NoWeightLeft DEF Weighty
<1>5. \A n \in A1 : v[n] \in Int BY <1>1
<1>6. \A n \in A2 : v[n] \in Int BY <1>1
<1> HIDE DEF v
<1>7. AeSum(fv) = v["syn_no_ack_ratio"] + SumFunctionOnSet(v, A1)
  BY <1>1, <1>2, <1>3, SumWithout DEF AeSum, v
<1>8. IsFiniteSet(A1) /\ Cardinality(A1) = 20
  <2>1. Cardinality(A1) = Cardinality(Features) - 1 BY <1>2, <1>3, FS_RemoveElement
  <2> QED BY <1>3, <2>1, FS_RemoveElement
<1> HIDE DEF A1
<1>9. SumFunctionOnSet(v, A1) = v["rst_ratio"] + SumFunctionOnSet(v, A2)
  BY <1>2, <1>5, <1>8, SumWithout
<1>10. IsFiniteSet(A2) /\ Cardinality(A2) = 19
  <2>1. Cardinality(A2) = Cardinality(A1) - 1 BY <1>2, <1>8, FS_RemoveElement
  <2> QED BY <1>8, <2>1, FS_RemoveElement
<1> HIDE DEF A2
<1>11. SumFunctionOnSet(v, A2) = v["header_complete"] + rest
  BY <1>2, <1>6, <1>10, SumWithout
<1>12. IsFiniteSet(A3) /\ Cardinality(A3) = 18
  <2>1. Cardinality(A3) = Cardinality(A2) - 1 BY <1>2, <1>10, FS_RemoveElement
  <2> QED BY <1>10, <2>1, FS_RemoveElement
<1> HIDE DEF A3
<1>13. rest \in Nat /\ rest <= 18
  <2>1. rest \in Nat /\ rest <= 1 * Cardinality(A3) BY <1>4, <1>12, SumBound
  <2> QED BY <1>12, <2>1
<1>14. /\ v["syn_no_ack_ratio"] \in Nat /\ v["rst_ratio"] \in Nat /\ v["header_complete"] \in Nat
  BY <1>1, FeatureNames
<1> HIDE DEF rest
<1>15. AeSum(fv) = v["syn_no_ack_ratio"] + v["rst_ratio"] + v["header_complete"] + rest
  BY <1>7, <1>9, <1>11, <1>13, <1>14
<1> QED BY <1>13, <1>15 DEF v

LEMMA RatiosAreTheSum ==
  ASSUME NEW fl \in FlowState, NEW fv, fv = normalize(extract(fl))
  PROVE  /\ RatioDistance(fl) \in Nat
         /\ \E rest \in Nat : rest <= 18 /\ AeSum(fv) = RatioDistance(fl) + rest
<1>1. /\ fl.syn_no_ack \in Nat /\ fl.syn_count \in Nat /\ fl.rst_count \in Nat
      /\ fl.total_packets \in Nat /\ fl.http_header_complete \in BOOLEAN
  BY DEF FlowState
<1>2. \A n \in Features : fv[n] \in Proper BY NormalizedFlow
<1>3. fv.concurrent_conn.num = 0 BY NormalizedFlow
<1>4. {"syn_no_ack_ratio", "rst_ratio", "header_complete"} \subseteq Features BY FeatureNames
<1>5. /\ BOUNDS.syn_no_ack_ratio = 1 /\ BOUNDS.rst_ratio = 1 /\ BOUNDS.header_complete = 1
      /\ Baseline.syn_no_ack_ratio = 50 /\ Baseline.rst_ratio = 20
      /\ Baseline.header_complete = 1000
  BY DEF BOUNDS, Baseline
<1>6. \A t \in Nat : t <= 1000 => Scaled(t, 1) = t
  <2> TAKE t \in Nat
  <2> HAVE t <= 1000
  <2>1. t \div 1 = t OBVIOUS
  <2>2. Min({t, 1000}) = t BY MinOfTwo
  <2> QED BY <2>1, <2>2 DEF Scaled
<1>7. Scaled(50, 1) = 50 /\ Scaled(20, 1) = 20 /\ Scaled(1000, 1) = 1000 BY <1>6
<1>8. Squares(fv)["syn_no_ack_ratio"]
        = Square(PerMille(Ratio(Min({fl.syn_no_ack, fl.syn_count}), fl.syn_count)) - 50)
  <2>1. Scaled(PerMille(fv.syn_no_ack_ratio), 1)
          = PerMille(Ratio(Min({fl.syn_no_ack, fl.syn_count}), fl.syn_count))
    BY <1>1, NormalizedFlow, RatioSeen
  <2> QED BY <1>4, <1>5, <1>7, <2>1 DEF Squares, Distance
<1>9. Squares(fv)["rst_ratio"]
        = Square(PerMille(Ratio(Min({fl.rst_count, fl.total_packets}), fl.total_packets)) - 20)
  <2>1. Scaled(PerMille(fv.rst_ratio), 1)
          = PerMille(Ratio(Min({fl.rst_count, fl.total_packets}), fl.total_packets))
    BY <1>1, NormalizedFlow, RatioSeen
  <2> QED BY <1>4, <1>5, <1>7, <2>1 DEF Squares, Distance
<1>10. Squares(fv)["header_complete"] = Square(When(fl.http_header_complete, 1000) - 1000)
  <2> DEFINE h == Whole(IF fl.http_header_complete THEN 1 ELSE 0)
  <2>1. clampNormalize(h, 1) = h BY DEF clampNormalize, Exceeds, Whole, Frac
  <2>2. fv.header_complete = h BY <2>1, NormalizedFlow
  <2>3. PerMille(h) = When(fl.http_header_complete, 1000) BY DEF PerMille, Whole, Frac, When
  <2>4. Scaled(When(fl.http_header_complete, 1000), 1) = When(fl.http_header_complete, 1000)
    BY <1>6 DEF When
  <2> QED BY <1>4, <1>5, <1>7, <2>2, <2>3, <2>4 DEF Squares, Distance
<1>11. /\ Squares(fv)["syn_no_ack_ratio"] \in Nat /\ Squares(fv)["rst_ratio"] \in Nat
       /\ Squares(fv)["header_complete"] \in Nat
  BY <1>2, <1>4, SquaresRange
<1>12. RatioDistance(fl) = Squares(fv)["syn_no_ack_ratio"] + Squares(fv)["rst_ratio"]
                           + Squares(fv)["header_complete"]
  BY <1>8, <1>9, <1>10 DEF RatioDistance
<1> QED BY <1>2, <1>3, <1>11, <1>12, ThreeTakenOut

-----------------------------------------------------------------------------
(*                        The mocks in the engine                          *)

LEMMA MocksProcess ==
  ASSUME Mocks, NEW j, features[j] \in FlowState, NEW r \in processJob(j)
  PROVE  /\ r.result # "NORMAL" <=> TooFar(normalize(extract(features[j])))
         /\ r.result # "NORMAL" => r.confidence < 700
<1> DEFINE fv == normalize(extract(features[j]))
<1>1. processJob(j) = {combineResults(MockIsolationForest(fv), MockAutoencoder(fv), fv)}
  BY DEF processJob, infer, Mocks
<1> QED BY <1>1, MocksJudge

LEMMA MocksNeverProposeNext ==
  EngineInv /\ MocksNeverPropose /\ [EngineNext]_allVars => MocksNeverPropose'
<1> SUFFICES ASSUME EngineInv, MocksNeverPropose, [EngineNext]_allVars, Mocks'
             PROVE  pending' = << >>
  BY DEF MocksNeverPropose
<1>0. mock' = mock
  BY DEF EngineNext, WorkerWrites, FeederPushes, Feed, EngineThread, Judge, getPendingProposals,
         Decide, engineVars, allVars
<1>1. Mocks /\ pending = << >> BY <1>0 DEF MocksNeverPropose, Mocks
<1>2. CASE Judge
  <2>1. features[item] \in FlowState
    BY <1>2 DEF EngineInv, Described, Judge, Process, ConsumerStep, Present
  <2>2. PICK r \in processJob(item) :
          IF r.result = "NORMAL" THEN UNCHANGED <<anomalies_found, pending>>
          ELSE anomalies_found' = anomalies_found + 1 /\ onMLResult(item, r)
    BY <1>2 DEF Judge
  <2>3. r.result # "NORMAL" => r.confidence < MIN_CONFIDENCE
    BY <1>1, <2>1, MocksProcess, MLEngineAssumption
  <2> QED BY <1>1, <2>2, <2>3 DEF onMLResult
<1>3. ASSUME NEW a \in Administrators, NEW i \in Jobs, Decide(a, i) PROVE pending' = << >>
  <2>1. DOMAIN pending = {} BY <1>1
  <2> QED BY <1>1, <1>3, <2>1 DEF Decide
<1> QED BY <1>1, <1>2, <1>3
    DEF EngineNext, WorkerWrites, FeederPushes, Feed, EngineThread, getPendingProposals,
        Stop, Stopped, engineVars, allVars

(* Without ONNX Runtime no flow whatever is ever proposed to an            *)
(* administrator: the mocks' confidence cannot reach MIN_CONFIDENCE.       *)
THEOREM MocksNeverProposeHolds == SingleProducer /\ EngineSpec => []MocksNeverPropose
<1>1. EngineInit => MocksNeverPropose BY DEF EngineInit, MocksNeverPropose
<1> QED BY <1>1, EngineInvInit, EngineInvNext, MocksNeverProposeNext, PTL DEF EngineSpec

LEMMA RatiosDecideStep ==
  EngineInv /\ [EngineNext]_allVars =>
    (cpc = "process" /\ cpc' # cpc /\ Mocks =>
       LET reported == anomalies_found' > anomalies_found
       IN  /\ RatioDistance(features[item]) > 1050000 => reported
           /\ reported => RatioDistance(features[item]) > 1050000 - 100)
<1> DEFINE reported == anomalies_found' > anomalies_found
           fl == features[item]
           fv == normalize(extract(fl))
<1> SUFFICES ASSUME EngineInv, [EngineNext]_allVars, cpc = "process", cpc' # cpc, Mocks
             PROVE  /\ RatioDistance(fl) > 1050000 => reported
                    /\ reported => RatioDistance(fl) > 1050000 - 100
  OBVIOUS
<1>1. Judge
  BY DEF EngineNext, WorkerWrites, FeederPushes, Feed, EngineThread, Pops, getPendingProposals,
         Decide, Stop, Stopped, CheckRunning, CheckReady, FallAsleep, TimesOut, Take, Advance,
         LoadHead, CheckFull, Fill, Publish, ProducerStep, ConsumerStep,
         engineVars, allVars, vars, queueVars, producerVars, consumerVars
<1>2. fl \in FlowState BY DEF EngineInv, Described, Present
<1>3. PICK r \in processJob(item) :
        IF r.result = "NORMAL" THEN UNCHANGED <<anomalies_found, pending>>
        ELSE anomalies_found' = anomalies_found + 1 /\ onMLResult(item, r)
  BY <1>1 DEF Judge
<1>4. r.result # "NORMAL" <=> TooFar(fv) BY <1>2, <1>3, MocksProcess
<1>5. anomalies_found \in Int BY DEF EngineInv, EngineTypeOK
<1>6. reported <=> TooFar(fv) BY <1>3, <1>4, <1>5
<1>7. PICK rest \in Nat : rest <= 18 /\ AeSum(fv) = RatioDistance(fl) + rest
  BY <1>2, RatiosAreTheSum
<1>8. RatioDistance(fl) \in Nat BY <1>2, RatiosAreTheSum
<1> HIDE DEF fl, fv, reported
<1> QED BY <1>6, <1>7, <1>8 DEF TooFar

(* With the mocks a flow is reported for its shares of unanswered SYNs and *)
(* of RSTs and its missing HTTP header, whatever the other 18 features.    *)
THEOREM RatiosDecideHolds == SingleProducer /\ EngineSpec => RatiosDecide
BY EngineInvInit, EngineInvNext, RatiosDecideStep, PTL DEF EngineSpec, RatiosDecide
=============================================================================
