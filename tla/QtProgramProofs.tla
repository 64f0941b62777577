-------------------------- MODULE QtProgramProofs ---------------------------
(***************************************************************************)
(* The Qt program for any ring, packets and batch sizes: its live feed is  *)
(* exact until the ring overtakes it, sends nothing once it is hopelessly  *)
(* behind, and main outlives every thread that it joins.                   *)
(***************************************************************************)
EXTENDS QtProgram, PacketRingProofs, SequenceTheorems

-----------------------------------------------------------------------------
(*                      What a tick finds in the ring                      *)

(* Under the mutex getRange finds the whole of the range it clips, and as  *)
(* many records as that has indices.                                       *)
LEMMA RangeFound ==
  ASSUME RingInv, ~pushing, NEW a \in Nat, NEW b \in Nat
  PROVE  /\ {r.index : r \in getRange(a, b)} = Clipped(a, b)
         /\ getRange(a, b) = {} <=> Clipped(a, b) = {}
         /\ IsFiniteSet(Clipped(a, b))
         /\ Cardinality(getRange(a, b)) = Cardinality(Clipped(a, b))
<1> DEFINE I == Clipped(a, b)
           f == [i \in I |-> buffer[SlotOf(i)]]
           R == getRange(a, b)
<1>1. total \in Nat /\ oldestIndex \in Nat BY OldestType DEF RingInv, TypeOK
<1>2. I \subseteq oldestIndex .. total - 1 BY <1>1 DEF Clipped
<1>3. \A i \in I : buffer[SlotOf(i)].index = i BY <1>2 DEF RingInv, WindowStored
<1>4. IsFiniteSet(I) BY <1>1, FS_Interval DEF Clipped
<1> HIDE DEF I
<1>5. R = {buffer[SlotOf(i)] : i \in I} BY <1>3 DEF getRange, Present, I
<1> HIDE DEF R
<1>6. {r.index : r \in R} = I BY <1>3, <1>5
<1>7. f \in Bijection(I, R)
  <2>1. f \in [I -> R] /\ \A r \in R : \E i \in I : f[i] = r BY <1>5
  <2>2. IsInjective(f) BY <1>3 DEF IsInjective
  <2> QED BY <2>1, <2>2 DEF Bijection, Injection, Surjection
<1>8. Cardinality(R) = Cardinality(I) BY <1>4, <1>7, FS_Bijection DEF ExistsBijection
<1>9. R = {} <=> I = {} BY <1>5
<1> QED BY <1>4, <1>6, <1>8, <1>9 DEF I, R

(* A tick that sends: from the cursor on, unless the ring has overtaken it.*)
LEMMA BatchFound ==
  ASSUME RingInv, ~pushing, last_sent_seq \in 0 .. total, NEW n \in Nat,
         NEW R, R = getRange(last_sent_seq, last_sent_seq + n)
  PROVE  /\ Cardinality(R) \in Nat /\ last_sent_seq + Cardinality(R) <= total
         /\ {r.index : r \in R} \subseteq 0 .. MaxTotal - 1
         /\ (R = {}) <=> Cardinality(R) = 0
         /\ ~Overtaken => {r.index : r \in R} = last_sent_seq .. last_sent_seq + Cardinality(R) - 1
         /\ last_sent_seq + n <= oldestIndex => R = {}
<1> DEFINE I == Clipped(last_sent_seq, last_sent_seq + n)
           lo == IF last_sent_seq > oldestIndex THEN last_sent_seq ELSE oldestIndex
           hi == (IF last_sent_seq + n < total THEN last_sent_seq + n ELSE total) - 1
<1>1. /\ total \in Nat /\ oldestIndex \in Nat /\ total <= MaxTotal /\ MaxTotal \in Nat
      /\ last_sent_seq \in Nat /\ last_sent_seq <= total
      /\ oldestIndex <= total
  BY RingAssumption DEF RingInv, TypeOK, oldestIndex
<1>2. I = lo .. hi BY DEF Clipped
<1>3. lo \in Nat /\ hi \in Int /\ hi <= total - 1 /\ last_sent_seq <= lo BY <1>1
<1>4. last_sent_seq + n \in Nat BY <1>1
<1>5. /\ {r.index : r \in R} = I /\ (R = {} <=> I = {})
      /\ Cardinality(R) = Cardinality(I)
  BY <1>1, <1>4, RangeFound
<1>7. ~Overtaken => lo = last_sent_seq /\ hi + 1 >= last_sent_seq BY <1>1 DEF Overtaken
<1>8. last_sent_seq + n <= oldestIndex => lo > hi BY <1>1
<1> HIDE DEF lo, hi, I
<1>6. Cardinality(I) = IF lo > hi THEN 0 ELSE hi - lo + 1
  <2>1. lo \in Int /\ hi \in Int BY <1>3
  <2>2. Cardinality(lo .. hi) = IF lo > hi THEN 0 ELSE hi - lo + 1 BY <2>1, FS_Interval
  <2> QED BY <1>2, <2>2
<1>9. Cardinality(R) \in Nat /\ last_sent_seq + Cardinality(R) <= total
  BY <1>1, <1>3, <1>5, <1>6
<1>10. I \subseteq 0 .. MaxTotal - 1 BY <1>1, <1>2, <1>3
<1>11. I = {} <=> lo > hi BY <1>2, <1>3
<1>12. ~Overtaken => I = last_sent_seq .. last_sent_seq + Cardinality(R) - 1
  BY <1>1, <1>2, <1>3, <1>5, <1>6, <1>7
<1>13. I = {} <=> Cardinality(R) = 0 BY <1>3, <1>5, <1>6, <1>11
<1> QED BY <1>5, <1>8, <1>9, <1>10, <1>11, <1>12, <1>13

-----------------------------------------------------------------------------
(***************************************************************************)
(* The feed's inductive invariant: types, that a tick asks for no more     *)
(* than some batch, and that what was emitted ends at the cursor.          *)
(***************************************************************************)

AsksForABatch == \A n \in tick : \E b \in Batches \union {FirstBatch} : n <= b

FeedInv == RingInv /\ FeedTypeOK /\ AsksForABatch /\ ExactUntilOverrun

LEMMA BatchSizes == \A b \in Batches \union {FirstBatch} : b \in Nat /\ b >= 1
  BY LiveFeedAssumption

LEMMA FeedInvInit == FeedInit => FeedInv
<1> SUFFICES ASSUME FeedInit PROVE FeedInv
  OBVIOUS
<1>1. RingInv BY InitInv DEF FeedInit
<1>2. << >> \in Seq(SUBSET (0 .. MaxTotal - 1)) /\ DOMAIN << >> = {} OBVIOUS
<1>3. total = 0 /\ 0 \in 0 .. total BY DEF FeedInit, Init
<1>4. FeedTypeOK BY <1>1, <1>2, <1>3 DEF FeedInit, FeedTypeOK, RingInv
<1>5. ExactUntilOverrun BY <1>2 DEF FeedInit, ExactUntilOverrun
<1> QED BY <1>1, <1>4, <1>5 DEF FeedInv, FeedInit, AsksForABatch

LEMMA FeedStepIsRingStep == [FeedNext]_allVars => [Next]_vars
  BY DEF FeedNext, PushesOne, PushEnds, Tick, TickReadsTotal, TickSends, Next, allVars

LEMMA FeedInvNext == FeedInv /\ [FeedNext]_allVars => FeedInv'
<1> SUFFICES ASSUME FeedInv, [FeedNext]_allVars PROVE FeedInv'
  OBVIOUS
<1>1. RingInv' /\ TypeOK' BY FeedStepIsRingStep, NextInv DEF FeedInv, RingInv
<1>2. total \in Nat /\ last_sent_seq \in 0 .. total /\ sent \in Seq(SUBSET (0 .. MaxTotal - 1))
  BY DEF FeedInv, FeedTypeOK, TypeOK
<1>3. CASE UNCHANGED feedVars /\ total <= total'
  <2>1. last_sent_seq' \in 0 .. total' BY <1>1, <1>2, <1>3 DEF feedVars, TypeOK
  <2> QED BY <1>1, <1>3, <2>1
      DEF feedVars, FeedInv, FeedTypeOK, AsksForABatch, ExactUntilOverrun
<1>4. CASE PushesOne
  BY <1>2, <1>3, <1>4 DEF PushesOne, PushBegins
<1>5. CASE PushEnds BY <1>2, <1>3, <1>5 DEF PushEnds, PushStores
<1>6. CASE TickReadsTotal
  <2>1. /\ UNCHANGED <<vars, last_sent_seq, sent, overrun>> /\ total > last_sent_seq
    BY <1>6 DEF TickReadsTotal
  <2>2. PICK b \in Batches \union {max_batch_per_tick} :
          max_batch_per_tick' = b /\ tick' = {Min({total - last_sent_seq, b})}
    BY <1>6 DEF TickReadsTotal
  <2>3. b \in Batches \union {FirstBatch} /\ b \in Nat /\ total - last_sent_seq \in Nat
    <3>1. b \in Batches \union {FirstBatch} BY <2>2 DEF FeedInv, FeedTypeOK
    <3> QED BY <1>2, <2>1, <3>1, BatchSizes
  <2>4. Min({total - last_sent_seq, b}) \in Nat /\ Min({total - last_sent_seq, b}) <= b
    BY <2>3, MinOfTwo
  <2>5. AsksForABatch' BY <2>2, <2>3, <2>4 DEF AsksForABatch
  <2>6. ExactUntilOverrun' BY <2>1 DEF FeedInv, ExactUntilOverrun
  <2>7. FeedTypeOK'
    BY <1>1, <2>1, <2>2, <2>3, <2>4 DEF FeedInv, FeedTypeOK, vars
  <2> QED BY <1>1, <2>5, <2>6, <2>7 DEF FeedInv
<1>7. CASE TickSends
  <2>1. PICK n \in tick :
          LET records == getRange(last_sent_seq, last_sent_seq + n)
          IN  last_sent_seq' = last_sent_seq + Cardinality(records) /\ Emit(records)
    BY <1>7 DEF TickSends
  <2>2. ~pushing /\ tick' = {} /\ UNCHANGED <<vars, max_batch_per_tick>>
    BY <1>7 DEF TickSends
  <2> DEFINE R == getRange(last_sent_seq, last_sent_seq + n)
             S == {r.index : r \in R}
             c == Cardinality(R)
  <2>3. /\ last_sent_seq' = last_sent_seq + c
        /\ sent' = IF R = {} THEN sent ELSE Append(sent, S)
        /\ overrun' = (overrun \/ Overtaken)
    BY <2>1 DEF Emit
  <2>4. n \in Nat BY DEF FeedInv, FeedTypeOK
  <2>5. /\ c \in Nat /\ last_sent_seq + c <= total /\ S \subseteq 0 .. MaxTotal - 1
        /\ R = {} <=> c = 0
        /\ ~Overtaken => S = last_sent_seq .. last_sent_seq + c - 1
    BY <1>2, <2>2, <2>4, BatchFound DEF FeedInv
  <2> HIDE DEF R, S, c
  <2>6. /\ Append(sent, S) \in Seq(SUBSET (0 .. MaxTotal - 1))
        /\ Len(sent) \in Nat /\ DOMAIN sent = 1 .. Len(sent)
        /\ DOMAIN Append(sent, S) = 1 .. Len(sent) + 1
        /\ \A k \in 1 .. Len(sent) : Append(sent, S)[k] = sent[k]
        /\ Append(sent, S)[Len(sent) + 1] = S
    <3>1. S \in SUBSET (0 .. MaxTotal - 1) BY <2>5
    <3> QED BY <1>2, <3>1, AppendProperties, LenProperties
  <2>7. sent' \in Seq(SUBSET (0 .. MaxTotal - 1)) BY <1>2, <2>3, <2>6
  <2>8. overrun' \in BOOLEAN BY <2>3 DEF FeedInv, FeedTypeOK
  <2>9. last_sent_seq' \in 0 .. total' BY <1>2, <2>2, <2>3, <2>5 DEF vars
  <2>10. FeedTypeOK' BY <1>1, <2>2, <2>7, <2>8, <2>9 DEF FeedInv, FeedTypeOK
  <2>11. AsksForABatch' BY <2>2 DEF AsksForABatch
  <2>12. ASSUME ~overrun'
         PROVE  /\ UNION {sent'[k] : k \in DOMAIN sent'} = 0 .. last_sent_seq' - 1
                /\ \A k, l \in DOMAIN sent' : k < l => \A i \in sent'[k], j \in sent'[l] : i < j
    <3>1. ~overrun /\ ~Overtaken BY <2>3, <2>12
    <3>2. /\ UNION {sent[k] : k \in DOMAIN sent} = 0 .. last_sent_seq - 1
          /\ \A k, l \in DOMAIN sent : k < l => \A i \in sent[k], j \in sent[l] : i < j
      BY <3>1 DEF FeedInv, ExactUntilOverrun
    <3>3. CASE R = {} BY <1>2, <2>3, <2>5, <3>2, <3>3
    <3>4. CASE R # {}
      <4>1. sent' = Append(sent, S) /\ S = last_sent_seq .. last_sent_seq' - 1
        <5>1. last_sent_seq' - 1 = last_sent_seq + c - 1 BY <1>2, <2>3, <2>5
        <5> QED BY <2>3, <2>5, <3>1, <3>4, <5>1
      <4>2. last_sent_seq \in Nat /\ last_sent_seq' \in Nat /\ last_sent_seq <= last_sent_seq'
        BY <1>2, <2>3, <2>5
      <4>3. UNION {sent'[k] : k \in DOMAIN sent'} = (UNION {sent[k] : k \in DOMAIN sent}) \union S
        <5>1. {sent'[k] : k \in DOMAIN sent'} = {sent[k] : k \in DOMAIN sent} \union {S}
          <6>1. \A k \in DOMAIN sent : k \in DOMAIN sent' /\ sent'[k] = sent[k] BY <2>6, <4>1
          <6>2. Len(sent) + 1 \in DOMAIN sent' /\ sent'[Len(sent) + 1] = S BY <2>6, <4>1
          <6>3. \A k \in DOMAIN sent' : k \in DOMAIN sent \/ k = Len(sent) + 1 BY <2>6, <4>1
          <6> QED BY <6>1, <6>2, <6>3
        <5> QED BY <5>1
      <4>4. UNION {sent'[k] : k \in DOMAIN sent'} = 0 .. last_sent_seq' - 1
        <5>1. (0 .. last_sent_seq - 1) \union S = 0 .. last_sent_seq' - 1 BY <4>1, <4>2
        <5> QED BY <3>2, <4>3, <5>1
      <4>5. ASSUME NEW k \in DOMAIN sent', NEW l \in DOMAIN sent', k < l,
                   NEW i \in sent'[k], NEW j \in sent'[l]
            PROVE  i < j
        <5>1. k \in DOMAIN sent /\ sent'[k] = sent[k]
          <6>1. k \in 1 .. Len(sent) + 1 /\ l \in 1 .. Len(sent) + 1 /\ k < l BY <2>6, <4>1, <4>5
          <6>2. k \in 1 .. Len(sent) BY <2>6, <6>1
          <6> QED BY <2>6, <4>1, <6>2
        <5>2. CASE l \in DOMAIN sent
          <6>1. sent'[l] = sent[l] BY <2>6, <4>1, <5>2
          <6> QED BY <3>2, <4>5, <5>1, <5>2, <6>1
        <5>3. CASE l \notin DOMAIN sent
          <6>1. sent'[l] = S BY <2>6, <4>1, <5>3
          <6>2. i \in 0 .. last_sent_seq - 1 BY <3>2, <5>1
          <6> QED BY <4>1, <4>2, <6>1, <6>2
        <5> QED BY <5>2, <5>3
      <4> QED BY <4>4, <4>5
    <3> QED BY <3>3, <3>4
  <2> QED BY <1>1, <2>10, <2>11, <2>12 DEF FeedInv, ExactUntilOverrun
<1>8. CASE UNCHANGED allVars
  BY <1>2, <1>3, <1>8 DEF allVars, vars
<1> QED BY <1>4, <1>5, <1>6, <1>7, <1>8 DEF FeedNext, Tick

LEMMA FeedInvHolds == FeedSpec => []FeedInv
  BY FeedInvInit, FeedInvNext, PTL DEF FeedSpec

(* A feed that is a whole batch behind finds nothing and stays there.      *)
LEMMA BehindStays == FeedInv /\ [FeedNext]_allVars =>
                       (HopelesslyBehind => UNCHANGED <<last_sent_seq, sent>>)
<1> SUFFICES ASSUME FeedInv, [FeedNext]_allVars, HopelesslyBehind
             PROVE  UNCHANGED <<last_sent_seq, sent>>
  OBVIOUS
<1>1. CASE TickSends
  <2>1. PICK n \in tick :
          LET records == getRange(last_sent_seq, last_sent_seq + n)
          IN  last_sent_seq' = last_sent_seq + Cardinality(records) /\ Emit(records)
    BY <1>1 DEF TickSends
  <2>2. PICK b \in Batches \union {FirstBatch} : n <= b BY DEF FeedInv, AsksForABatch
  <2>3. /\ n \in Nat /\ b \in Nat /\ last_sent_seq \in Nat /\ oldestIndex \in Nat
        /\ last_sent_seq \in 0 .. total /\ ~pushing
    BY <1>1, BatchSizes, OldestType DEF FeedInv, FeedTypeOK, TypeOK, TickSends
  <2>4. last_sent_seq + n <= oldestIndex BY <2>2, <2>3 DEF HopelesslyBehind
  <2> DEFINE R == getRange(last_sent_seq, last_sent_seq + n)
  <2>5. R = {} /\ Cardinality(R) = 0
    BY <2>3, <2>4, BatchFound DEF FeedInv
  <2>6. last_sent_seq' = last_sent_seq + Cardinality(R) /\ Emit(R) BY <2>1
  <2> HIDE DEF R
  <2> QED BY <2>3, <2>5, <2>6 DEF Emit
<1>2. CASE ~TickSends
  BY <1>2 DEF FeedNext, PushesOne, PushEnds, Tick, TickReadsTotal, feedVars, allVars
<1> QED BY <1>1, <1>2

-----------------------------------------------------------------------------
(*                        The program around the feed                      *)

(* Every step of the program is a step of the feed or leaves it alone.     *)
LEMMA QtStepIsFeedStep == [QtNext]_progVars => [FeedNext]_allVars
  BY DEF QtNext, Main, Engine, Stop, signalHandler, Quit, aboutToQuit, AfterExec,
         JoinEngine, MLEngineStops, JoinMLThread, MLThreadEnds, DispatcherStops,
         StartEngine, onToggleCapture, Poll, EngineMoves,
         EnginePublishes, EngineFailsToOpen, EngineOpens, startCapture, Dispatch, LoopEnds,
         EngineEnds, EngineExits, HelperEnds, WorkerBegins, WorkerEnds, FeedNext, progVars

(* Whatever the engine, the workers, the signals and the user do, the      *)
(* bridge's timer and the packet ring behave as the live feed alone.       *)
THEOREM QtRunsTheFeed == QtSpec => FeedSpec
<1>1. QtInit => FeedInit BY DEF QtInit
<1> QED BY <1>1, QtStepIsFeedStep, PTL DEF QtSpec, FeedSpec

(* The ring that the workers of the Qt program share with its bridge is a  *)
(* sliding window of records, as PacketRingBuffer promises.                *)
THEOREM QtImplementsWindow == QtSpec => ImplementsWindow
<1>1. FeedInit => Init BY DEF FeedInit
<1>2. FeedSpec => Spec BY <1>1, FeedStepIsRingStep, PTL DEF FeedSpec, Spec
<1> QED BY <1>2, QtRunsTheFeed, Refinement, PTL

QtVarsOK ==
  /\ live \in BOOLEAN /\ polling \in BOOLEAN
  /\ app \in {"exec", "quitting", "stopping", "joining", "stopping_ml", "joining_ml",
              "stopping_workers", "over", "crashed"}
  /\ engine \in {"none", "started", "opening", "opened", "capturing", "ending", "joining", "exited"}
  /\ helpers \subseteq {"l2_feeder", "cleanup"}
  /\ g_running \in BOOLEAN /\ running \in BOOLEAN /\ broken \in BOOLEAN
  /\ capture_ptr \in {"null", "capture", "dangling"}
  /\ dispatched \in Nat /\ total + dispatched <= MaxTotal
  /\ ml_thread \in {"running", "told", "ended"}

(* Who has ended: the helpers exist between the opening and their join,    *)
(* main waits for the engine thread, then for the ML engine's, and then    *)
(* for the workers.                                                        *)
HelpersInsideEngine == engine \in {"none", "started", "opening", "exited"} => helpers = {}
EngineJoined ==
  app \in {"stopping_ml", "joining_ml", "stopping_workers", "over"} => engine \in {"none", "exited"}
MLJoined == app \in {"stopping_workers", "over"} => ml_thread = "ended"
WorkersDone  == app = "over" => ~pushing

LifeInv == QtVarsOK /\ HelpersInsideEngine /\ EngineJoined /\ MLJoined /\ WorkersDone

LEMMA LifeInvInit == QtInit => LifeInv
<1> SUFFICES ASSUME QtInit PROVE LifeInv
  OBVIOUS
<1>1. total = 0 /\ MaxTotal \in Nat BY RingAssumption DEF QtInit, FeedInit, Init
<1>2. /\ live \in BOOLEAN /\ polling = TRUE /\ app = "exec" /\ engine = "none" /\ helpers = {}
      /\ g_running = TRUE /\ capture_ptr = "null" /\ running = FALSE /\ broken = FALSE
      /\ dispatched = 0 /\ ml_thread = "running"
  BY DEF QtInit
<1>3. dispatched \in Nat /\ total + dispatched <= MaxTotal BY <1>1, <1>2
<1>4. QtVarsOK BY <1>2, <1>3 DEF QtVarsOK
<1>5. HelpersInsideEngine /\ EngineJoined /\ MLJoined /\ WorkersDone
  BY <1>2 DEF HelpersInsideEngine, EngineJoined, MLJoined, WorkersDone
<1> QED BY <1>4, <1>5 DEF LifeInv

LEMMA LifeInvNext == FeedInv /\ LifeInv /\ [QtNext]_progVars => LifeInv'
<1> SUFFICES ASSUME FeedInv, LifeInv, [QtNext]_progVars PROVE LifeInv'
  OBVIOUS
<1> USE DEF LifeInv, QtVarsOK, HelpersInsideEngine, EngineJoined, MLJoined, WorkersDone
<1>1. total \in Nat /\ MaxTotal \in Nat BY RingAssumption DEF FeedInv, FeedTypeOK, TypeOK
<1>2. ASSUME NEW next \in {app, "stopping", "joining"}, Stop(next)
      PROVE  LifeInv'
  <2>1. /\ running' \in BOOLEAN /\ broken' \in BOOLEAN /\ g_running' = FALSE
        /\ app' \in {app, "stopping", "joining", "crashed"}
    BY <1>2 DEF Stop, stopCapture
  <2>2. UNCHANGED <<live, engine, helpers, capture_ptr, dispatched, ml_thread, polling,
                   total, pushing>>
    BY <1>2 DEF Stop, allVars, vars, engineVars, workVars
  <2>3. QtVarsOK'
    <3>1. app' \in {"exec", "quitting", "stopping", "joining", "stopping_ml", "joining_ml",
                    "stopping_workers", "over", "crashed"}
      BY <2>1
    <3> QED BY <2>1, <2>2, <3>1
  <2>4. HelpersInsideEngine' BY <2>2
  <2>5. EngineJoined' /\ MLJoined' /\ WorkersDone' BY <2>1, <2>2
  <2> QED BY <2>3, <2>4, <2>5
<1>3. CASE signalHandler BY <1>2, <1>3 DEF signalHandler
<1>4. CASE aboutToQuit BY <1>2, <1>4 DEF aboutToQuit
<1>5. CASE AfterExec BY <1>2, <1>5 DEF AfterExec
<1>6. CASE Quit
  <2>1. /\ app' = "quitting" /\ polling' \in BOOLEAN
        /\ UNCHANGED <<live, engine, helpers, g_running, capture_ptr, running, broken,
                       dispatched, ml_thread, total, pushing>>
    BY <1>6 DEF Quit, allVars, vars, engineVars, stopVars, workVars
  <2> QED BY <2>1
<1>7. CASE JoinEngine
  BY <1>7 DEF JoinEngine, allVars, vars, engineVars, stopVars, workVars
<1>8. CASE DispatcherStops
  BY <1>8 DEF DispatcherStops, allVars, vars, engineVars, stopVars, workVars
<1>9. CASE StartEngine BY <1>9 DEF StartEngine, AtEventLoop, allVars, vars, stopVars, workVars
<1>10. CASE onToggleCapture
  BY <1>10 DEF onToggleCapture, AtEventLoop, allVars, vars, engineVars, stopVars, workVars
<1>11. CASE Poll
  BY <1>11 DEF Poll, Tick, TickReadsTotal, TickSends, qtVars, vars, engineVars, stopVars, workVars
<1>12. CASE Engine
  <2> USE DEF EngineMoves, Alive, allVars, vars, stopVars, workVars
  <2>1. CASE EnginePublishes BY <2>1 DEF EnginePublishes
  <2>2. CASE EngineFailsToOpen BY <2>2 DEF EngineFailsToOpen
  <2>3. CASE EngineOpens BY <2>3 DEF EngineOpens
  <2>4. CASE startCapture BY <2>4 DEF startCapture
  <2>5. CASE LoopEnds BY <2>5 DEF LoopEnds
  <2>6. CASE EngineEnds BY <2>6 DEF EngineEnds
  <2>7. CASE EngineExits BY <2>7 DEF EngineExits
  <2> QED BY <1>12, <2>1, <2>2, <2>3, <2>4, <2>5, <2>6, <2>7 DEF Engine
<1>13. CASE Dispatch
  BY <1>1, <1>13 DEF Dispatch, Alive, allVars, vars, engineVars, stopVars, workVars
<1>14. CASE HelperEnds BY <1>14 DEF HelperEnds, Alive, allVars, vars, stopVars, workVars
<1>15. CASE WorkerBegins
  <2>1. total' = total + 1 /\ dispatched' = dispatched - 1 /\ dispatched > 0
    BY <1>15 DEF WorkerBegins, PushesOne, PushBegins
  <2>2. /\ app \notin {"over", "crashed"}
        /\ UNCHANGED <<live, app, engine, helpers, g_running, capture_ptr, running, broken,
                     ml_thread, polling>>
    BY <1>15 DEF WorkerBegins, Alive, engineVars, stopVars, workVars
  <2> QED BY <1>1, <2>1, <2>2
<1>16. CASE WorkerEnds
  BY <1>16 DEF WorkerEnds, PushEnds, PushStores, Alive, qtVars, engineVars, stopVars, workVars
<1>17. CASE MLEngineStops
  BY <1>17 DEF MLEngineStops, allVars, vars, engineVars, stopVars
<1>18. CASE JoinMLThread
  BY <1>18 DEF JoinMLThread, allVars, vars, engineVars, stopVars, workVars
<1>19. CASE MLThreadEnds
  BY <1>19 DEF MLThreadEnds, Alive, allVars, vars, engineVars, stopVars
<1>20. CASE UNCHANGED progVars
  BY <1>20 DEF progVars, allVars, vars, qtVars, engineVars, stopVars, workVars
<1> QED BY <1>3, <1>4, <1>5, <1>6, <1>7, <1>8, <1>9, <1>10, <1>11, <1>12, <1>13, <1>14,
           <1>15, <1>16, <1>17, <1>18, <1>19, <1>20 DEF QtNext, Main

LEMMA ProgramInvariant == QtSpec => []FeedInv /\ []LifeInv
<1>1. QtSpec => []FeedInv BY QtRunsTheFeed, FeedInvHolds
<1> QED BY <1>1, LifeInvInit, LifeInvNext, PTL DEF QtSpec

-----------------------------------------------------------------------------
(*                                Theorems                                 *)

(* Types, and that no more packets are dispatched than the instance holds. *)
THEOREM QtTypeCorrect == QtSpec => []QtTypeOK
<1>1. FeedInv /\ LifeInv => QtTypeOK BY DEF FeedInv, LifeInv, QtVarsOK, QtTypeOK
<1> QED BY <1>1, ProgramInvariant, PTL

(* Until the ring first overtakes the feed, UiBridge::onTimer emits every  *)
(* record up to its cursor once and in order, however pushes, polls,       *)
(* pauses and stops interleave and however the batch size changes.         *)
THEOREM ExactUntilOverrunHolds == QtSpec => []ExactUntilOverrun
<1>1. FeedInv => ExactUntilOverrun BY DEF FeedInv
<1> QED BY <1>1, ProgramInvariant, PTL

(* Once a whole batch behind the ring's oldest record, the feed is lost:   *)
(* it neither moves nor sends, whatever the ring receives afterwards.      *)
THEOREM LostOnceBehindHolds == QtSpec => LostOnceBehind
<1> USE DEF LostOnceBehind
<1>1. QtSpec => []FeedInv /\ [][FeedNext]_allVars
  BY ProgramInvariant, QtRunsTheFeed, PTL DEF FeedSpec
<1> QED BY <1>1, BehindStays, PTL

(* When main comes to its end, every thread it joins has ended.            *)
THEOREM JoinedThreadsHaveEndedHolds == QtSpec => []JoinedThreadsHaveEnded
<1>1. LifeInv => JoinedThreadsHaveEnded
  BY DEF LifeInv, HelpersInsideEngine, EngineJoined, MLJoined, WorkersDone, JoinedThreadsHaveEnded
<1> QED BY <1>1, ProgramInvariant, PTL
=============================================================================
