--------------------------- MODULE PipelineProofs ---------------------------
(***************************************************************************)
(* Theorems about Pipeline for any number of workers, flows, frames and    *)
(* signals, any hash and any limits: type correctness; order and pointer   *)
(* safety, on which the design of its worker pool rests; that the final    *)
(* report is final; that its figures agree; and that no frame is lost.     *)
(***************************************************************************)
EXTENDS Pipeline, FiniteSetTheorems, SequenceTheorems, TLAPS

-----------------------------------------------------------------------------
(*              Facts about the records the state is made of               *)

LEMMA NoFrameType == NoFrame \in Frame
  BY FlowTableAssumption DEF NoFrame, Frame

LEMMA NewFrameType == \A n \in Nat, f \in Flows : [no |-> n, flow |-> f] \in Frame
  BY DEF Frame

(* A frame has a number and a flow, and its flow has a worker.             *)
LEMMA FrameFields ==
  \A p \in Frame : p.no \in Nat /\ p.flow \in Flows /\ hashToWorker(p) \in Workers
  BY PipelineAssumption DEF Frame, hashToWorker, Workers

LEMMA FirstWorker == 0 \in Workers
  BY PipelineAssumption DEF Workers

LEMMA CapturedType == metrics \in Metrics => metrics.captured \in Nat
  BY DEF Metrics

(* Counting one event keeps the metrics' types.                            *)
LEMMA CountType ==
  ASSUME metrics \in Metrics,
         NEW c \in {"captured", "dropped", "queue_drops", "active_flows"}, Count(c)
  PROVE  metrics' \in Metrics
  BY DEF Metrics, Count

LEMMA CountCaptured ==
  ASSUME metrics \in Metrics, Count("captured")
  PROVE  metrics'.captured = metrics.captured + 1
  BY DEF Metrics, Count

(* No other counter touches the number of captured frames.                 *)
LEMMA CountOther ==
  ASSUME metrics \in Metrics,
         NEW c \in {"dropped", "queue_drops", "active_flows"}, Count(c)
  PROVE  metrics'.captured = metrics.captured
  BY DEF Metrics, Count

LEMMA CountVerdictType ==
  ASSUME metrics \in Metrics, NEW v \in Threats \union {"NORMAL"}, CountVerdict(v)
  PROVE  metrics' \in Metrics /\ metrics'.captured = metrics.captured
<1>1. CASE v = "NORMAL" BY <1>1 DEF Metrics, CountVerdict
<1>2. CASE v = "DDOS_VOLUMETRIC"
  <2> DEFINE m == [metrics EXCEPT !.ddos = @ + 1]
  <2>1. metrics' = [m EXCEPT !.dropped = metrics.dropped + 1]
    BY <1>2 DEF CountVerdict
  <2>2. m \in Metrics /\ m.captured = metrics.captured /\ metrics.dropped \in Nat
    BY DEF Metrics
  <2> HIDE DEF m
  <2> QED BY <2>1, <2>2 DEF Metrics
<1>3. CASE v = "SLOW_DDOS"
  <2> DEFINE m == [metrics EXCEPT !.slow = @ + 1]
  <2>1. metrics' = [m EXCEPT !.alerted = metrics.alerted + 1]
    BY <1>3 DEF CountVerdict
  <2>2. m \in Metrics /\ m.captured = metrics.captured /\ metrics.alerted \in Nat
    BY DEF Metrics
  <2> HIDE DEF m
  <2> QED BY <2>1, <2>2 DEF Metrics
<1>4. CASE v = "PORT_SCAN"
  <2> DEFINE m == [metrics EXCEPT !.scan = @ + 1]
  <2>1. metrics' = [m EXCEPT !.alerted = metrics.alerted + 1]
    BY <1>4 DEF CountVerdict
  <2>2. m \in Metrics /\ m.captured = metrics.captured /\ metrics.alerted \in Nat
    BY DEF Metrics
  <2> HIDE DEF m
  <2> QED BY <2>1, <2>2 DEF Metrics
<1> QED BY <1>1, <1>2, <1>3, <1>4 DEF Threats

LEMMA CleanupMetricsType ==
  ASSUME metrics \in Metrics, FlowTableTypeOK,
         metrics' = [metrics EXCEPT !.active_flows = @ - Cardinality(stale)]
  PROVE  metrics' \in Metrics /\ metrics'.captured = metrics.captured
<1>1. Cardinality(stale) \in Nat
  BY FlowTableAssumption, FS_Subset, FS_CardinalityType DEF FlowTableTypeOK
<1> QED BY <1>1 DEF Metrics

LEMMA ResultType ==
  /\ \A v \in Threats \union {"NORMAL"} : [action |-> ActionFor(v), threat |-> v] \in Result
  /\ [action |-> "DROP", threat |-> "NORMAL"] \in Result
  /\ [action |-> "PASS", threat |-> "NORMAL"] \in Result
  BY DEF Result, ActionFor, Action, Threats

(* The record a worker makes of its packet keeps number and flow.          *)
LEMMA RecordType ==
  ASSUME TypeOK, NEW w \in Workers
  PROVE  /\ makeRecord(w) \in Record
         /\ makeRecord(w).no = hand[w].no
         /\ makeRecord(w).flow = hand[w].flow
<1>1. hand[w] \in Frame /\ result[w] \in Result
  BY DEF TypeOK
<1> QED BY <1>1 DEF makeRecord, Record, Frame, Result

-----------------------------------------------------------------------------
(*                           Type correctness                              *)

LEMMA TypeInit == Init => TypeOK
<1> SUFFICES ASSUME Init PROVE TypeOK
  OBVIOUS
<1>1. metrics \in Metrics
  BY DEF Init, Metrics
<1>2. queue \in [Workers -> Seq(Frame)] /\ log \in Seq(Record)
  BY DEF Init
<1>3. hand \in [Workers -> Frame] /\ result \in [Workers -> Result]
  BY NoFrameType, ResultType DEF Init
<1> QED BY <1>1, <1>2, <1>3, NoFrameType, FirstWorker
           DEF Init, TypeOK, FlowTableInit, FlowTableTypeOK

LEMMA MainTypeOK == ASSUME TypeOK, Main PROVE TypeOK'
<1> USE DEF TypeOK, FlowTableTypeOK, signalVars, workerVars
<1>1. CASE StartDispatcher BY <1>1 DEF StartDispatcher
<1>2. CASE PublishCapture BY <1>2 DEF PublishCapture
<1>3. CASE OpenCapture BY <1>3 DEF OpenCapture
<1>4. CASE StartCapture BY <1>4 DEF StartCapture
<1>5. CASE ReceiveFrame BY <1>5, CapturedType, NewFrameType DEF ReceiveFrame
<1>6. CASE PcapCallback BY <1>6, NoFrameType, CountType DEF PcapCallback
<1>7. CASE Dispatch
  <2> DEFINE h == hashToWorker(frame)
  <2>1. h \in Workers BY FrameFields
  <2>2. Append(queue[h], frame) \in Seq(Frame) BY <2>1
  <2>3. queue' \in [Workers -> Seq(Frame)] /\ metrics' \in Metrics
    BY <1>7, <2>1, <2>2, CountType DEF Dispatch, Enqueue
  <2> QED BY <1>7, <2>3, NoFrameType DEF Dispatch
<1>8. CASE LoopEnds BY <1>8 DEF LoopEnds
<1>9. CASE BeginShutdown BY <1>9 DEF BeginShutdown
<1>10. CASE StopDispatcher BY <1>10, FirstWorker DEF StopDispatcher
<1>11. CASE StopWorker BY <1>11 DEF StopWorker
<1>12. CASE JoinWorker BY <1>12 DEF JoinWorker
<1>13. CASE JoinBackground BY <1>13 DEF JoinBackground
<1> QED BY <1>1, <1>2, <1>3, <1>4, <1>5, <1>6, <1>7, <1>8, <1>9, <1>10, <1>11,
           <1>12, <1>13 DEF Main

LEMMA WorkerTypeOK == ASSUME TypeOK, NEW w \in Workers, Worker(w) PROVE TypeOK'
<1> USE DEF TypeOK, FlowTableTypeOK, mainVars, signalVars, WorkerStep
<1>1. CASE CheckRunning(w) BY <1>1 DEF CheckRunning
<1>2. CASE Pop(w)
  <2>1. Head(queue[w]) \in Frame /\ Tail(queue[w]) \in Seq(Frame)
    BY <1>2, HeadTailProperties DEF Pop
  <2> QED BY <1>2, <2>1 DEF Pop
<1>3. CASE PopTimesOut(w) BY <1>3 DEF PopTimesOut
<1>4. CASE LookUp(w)
  <2>1. hand[w].flow \in Flows BY FrameFields
  <2>2. metrics' \in Metrics BY <1>4, CountType DEF LookUp
  <2>3. FlowTableTypeOK' BY <1>4, <2>1 DEF LookUp, Touch, Create
  <2>4. wpc' \in [Workers -> {"off", "loop", "pop", "lookup", "refused", "analyze",
                             "detected", "record", "done"}]
    BY <1>4 DEF LookUp
  <2> QED BY <1>4, <2>2, <2>3, <2>4 DEF LookUp
<1>5. CASE RefuseFlow(w) BY <1>5, CountType, ResultType DEF RefuseFlow
<1>6. CASE Analyze(w)
  <2>1. PICK v \in Threats \union {"NORMAL"} :
          /\ WorkerStep(w, "analyze", IF v = "NORMAL" THEN "record" ELSE "detected")
          /\ CountVerdict(v)
          /\ result' = [result EXCEPT ![w] = [action |-> ActionFor(v), threat |-> v]]
          /\ UNCHANGED <<mainVars, g_running, capture, signalVars, running, queue,
                         hand, alerts, log, background, table, stale>>
    BY <1>6, PipelineAssumption DEF Analyze
  <2> QED BY <2>1, CountVerdictType, ResultType
<1>7. CASE RaiseAlert(w) BY <1>7 DEF RaiseAlert
<1>8. CASE PushRecord(w)
  <2>1. makeRecord(w) \in Record BY RecordType
  <2> QED BY <1>8, <2>1 DEF PushRecord
<1> QED BY <1>1, <1>2, <1>3, <1>4, <1>5, <1>6, <1>7, <1>8 DEF Worker

LEMMA ThreadStepType ==
  ASSUME TypeOK, NEW t \in BackgroundThreads, NEW from,
         NEW to \in {"off", "run", "sweep", "done"}, ThreadStep(t, from, to)
  PROVE  background' \in [BackgroundThreads -> {"off", "run", "sweep", "done"}]
  BY DEF TypeOK, ThreadStep

Others == \/ SignalArrives \/ HandlerStopsCapture
          \/ \E t \in BackgroundThreads : BackgroundExits(t)
          \/ Cleaner
          \/ \E f \in Flows : FlowGoesIdle(f)
          \/ Exited

LEMMA OthersTypeOK == TypeOK /\ Others => TypeOK'
<1> USE DEF TypeOK, FlowTableTypeOK, mainVars, signalVars, workerVars
<1>0. "cleanup" \in BackgroundThreads BY DEF BackgroundThreads
<1>1. ASSUME TypeOK, SignalArrives PROVE TypeOK'
  <2>1. signals' \in Nat BY <1>1 DEF SignalArrives
  <2>2. g_running' \in BOOLEAN /\ handler' \in {"idle", "stop"}
    BY <1>1 DEF SignalArrives
  <2> QED BY <1>1, <2>1, <2>2 DEF SignalArrives
<1>2. ASSUME TypeOK, HandlerStopsCapture PROVE TypeOK'
  <2>1. \/ capture' = [running |-> FALSE, break_loop |-> TRUE]
        \/ capture' = capture
    BY <1>2 DEF HandlerStopsCapture
  <2>2. [running |-> FALSE, break_loop |-> TRUE]
          \in [running : BOOLEAN, break_loop : BOOLEAN]
    OBVIOUS
  <2>3. capture' \in [running : BOOLEAN, break_loop : BOOLEAN]
    BY <1>2, <2>1, <2>2
  <2> QED BY <1>2, <2>3 DEF HandlerStopsCapture
<1>3. ASSUME TypeOK, NEW t \in BackgroundThreads, BackgroundExits(t) PROVE TypeOK'
  BY <1>3, ThreadStepType DEF BackgroundExits
<1>4. ASSUME TypeOK, CleanupIsDue PROVE TypeOK'
  <2>1. ThreadStep("cleanup", "run", "sweep") BY <1>4 DEF CleanupIsDue
  <2>2. background' \in [BackgroundThreads -> {"off", "run", "sweep", "done"}]
    BY <1>4, <1>0, <2>1, ThreadStepType
  <2> QED BY <1>4, <2>2 DEF CleanupIsDue
<1>5. ASSUME TypeOK, CleanupFlows PROVE TypeOK'
  <2>1. ThreadStep("cleanup", "sweep", "run") BY <1>5 DEF CleanupFlows
  <2>2. background' \in [BackgroundThreads -> {"off", "run", "sweep", "done"}]
    BY <1>5, <1>0, <2>1, ThreadStepType
  <2>3. metrics' \in Metrics BY <1>5, CleanupMetricsType DEF CleanupFlows
  <2> QED BY <1>5, <2>2, <2>3 DEF CleanupFlows, Cleanup
<1>6. ASSUME TypeOK, NEW f \in Flows, FlowGoesIdle(f) PROVE TypeOK'
  BY <1>6 DEF FlowGoesIdle, GrowStale
<1>7. ASSUME TypeOK, Exited PROVE TypeOK'
  BY <1>7 DEF Exited, vars
<1> QED BY <1>1, <1>2, <1>3, <1>4, <1>5, <1>6, <1>7 DEF Others, Cleaner

LEMMA TypeNext == TypeOK /\ [Next]_vars => TypeOK'
<1> SUFFICES ASSUME TypeOK, [Next]_vars PROVE TypeOK'
  OBVIOUS
<1>1. CASE Next BY <1>1, MainTypeOK, WorkerTypeOK, OthersTypeOK DEF Next, Others
<1>2. CASE UNCHANGED vars BY <1>2 DEF vars, TypeOK, FlowTableTypeOK
<1> QED BY <1>1, <1>2

(* Every variable keeps its type; in particular the worker being stopped   *)
(* is a real one and erased flows leave no idle mark behind.               *)
THEOREM TypeCorrect == Spec => []TypeOK
  BY TypeInit, TypeNext, PTL DEF Spec

-----------------------------------------------------------------------------
(***************************************************************************)
(* The inductive invariant.  FlowOrder speaks of the log alone; to be kept *)
(* by every step it needs the places a frame passes through on its way     *)
(* there: all frames of a flow take the same path (one queue, one worker), *)
(* each place is in capture order, and each place is behind the previous.  *)
(***************************************************************************)

(* The number of the last frame that has left the capture thread.          *)
NewestPlaced == IF pc = "dispatch" THEN metrics.captured - 1 ELSE metrics.captured

FrameNumbered == /\ pc = "callback" => frame.no = metrics.captured + 1
                 /\ pc = "dispatch" => frame.no = metrics.captured

QueuesSorted ==
  \A w \in Workers : \A i \in 1 .. Len(queue[w]) :
    /\ hashToWorker(queue[w][i]) = w
    /\ queue[w][i].no <= NewestPlaced
    /\ \A j \in 1 .. Len(queue[w]) : i < j => queue[w][i].no < queue[w][j].no

HandsBeforeQueues ==
  \A w \in Workers : Busy(w) =>
    /\ hashToWorker(hand[w]) = w
    /\ hand[w].no <= NewestPlaced
    /\ \A i \in 1 .. Len(queue[w]) : hand[w].no < queue[w][i].no

LogBeforeWorkers ==
  \A k \in 1 .. Len(log) : \A w \in Workers : hashToWorker(log[k]) = w =>
    /\ log[k].no <= NewestPlaced
    /\ Busy(w) => log[k].no < hand[w].no
    /\ \A i \in 1 .. Len(queue[w]) : log[k].no < queue[w][i].no

LogSorted ==
  \A k, l \in 1 .. Len(log) :
    k < l /\ hashToWorker(log[k]) = hashToWorker(log[l]) => log[k].no < log[l].no

HeldFlowsFresh ==
  \A w \in Workers :
    wpc[w] \in {"analyze", "detected"} => hand[w].flow \in table \ stale

PathInv == /\ QueuesSorted /\ HandsBeforeQueues /\ LogBeforeWorkers /\ LogSorted

IInv == TypeOK /\ FrameNumbered /\ PathInv /\ HeldFlowsFresh

(* The numbers compared are numbers.                                       *)
LEMMA Numbers ==
  ASSUME TypeOK
  PROVE  /\ NewestPlaced \in Int
         /\ \A w \in Workers : hand[w].no \in Nat /\ hashToWorker(hand[w]) \in Workers
         /\ \A w \in Workers : \A i \in 1 .. Len(queue[w]) :
               queue[w][i].no \in Nat /\ hashToWorker(queue[w][i]) \in Workers
         /\ \A k \in 1 .. Len(log) : log[k].no \in Nat /\ hashToWorker(log[k]) \in Workers
<1>1. NewestPlaced \in Int
  BY CapturedType DEF TypeOK, NewestPlaced
<1>2. \A w \in Workers : hand[w] \in Frame
  BY DEF TypeOK
<1>3. \A w \in Workers : \A i \in 1 .. Len(queue[w]) : queue[w][i] \in Frame
  BY DEF TypeOK
<1>4. \A k \in 1 .. Len(log) : log[k].no \in Nat /\ hashToWorker(log[k]) \in Workers
  <2>1. \A k \in 1 .. Len(log) : log[k] \in Record
    BY DEF TypeOK
  <2> QED BY <2>1, PipelineAssumption DEF Record, hashToWorker, Workers
<1> QED BY <1>1, <1>2, <1>3, <1>4, FrameFields

(* A step that moves no frame on its path keeps the path in order.         *)
LEMMA NothingMoves ==
  ASSUME TypeOK, TypeOK', PathInv,
         queue' = queue, log' = log,
         \A w \in Workers : Busy(w)' => Busy(w) /\ hand'[w] = hand[w],
         NewestPlaced <= NewestPlaced'
  PROVE  PathInv'
<1>0. NewestPlaced' \in Int
  <2>1. metrics' \in Metrics BY DEF TypeOK
  <2> QED BY <2>1 DEF Metrics, NewestPlaced
<1>1. QueuesSorted' BY <1>0, Numbers DEF PathInv, QueuesSorted
<1>2. HandsBeforeQueues' BY <1>0, Numbers DEF PathInv, HandsBeforeQueues
<1>3. LogBeforeWorkers' BY <1>0, Numbers DEF PathInv, LogBeforeWorkers
<1>4. LogSorted' BY DEF PathInv, LogSorted
<1> QED BY <1>1, <1>2, <1>3, <1>4 DEF PathInv

(* The capture thread appends its frame to the queue of the flow's worker. *)
LEMMA DispatchOrder ==
  ASSUME TypeOK, TypeOK', FrameNumbered, PathInv, Dispatch
  PROVE  PathInv'
<1> DEFINE h == hashToWorker(frame)
<1>1. h \in Workers /\ frame \in Frame /\ frame.no \in Nat
  BY FrameFields DEF TypeOK
<1>2. /\ log' = log /\ hand' = hand /\ wpc' = wpc
      /\ frame.no = metrics.captured /\ NewestPlaced = frame.no - 1
  BY DEF Dispatch, workerVars, FrameNumbered, NewestPlaced
<1>3. \A w \in Workers : Busy(w)' = Busy(w)
  BY <1>2 DEF Busy
<1>4. NewestPlaced' = frame.no
  <2>1. metrics'.captured = metrics.captured
    BY CountOther DEF Dispatch, Enqueue, TypeOK
  <2>2. pc' # "dispatch"
    BY DEF Dispatch
  <2> QED BY <1>2, <2>1, <2>2 DEF NewestPlaced
<1>5. CASE queue' = queue
  BY <1>1, <1>2, <1>3, <1>4, <1>5, NothingMoves
<1>6. CASE queue' = [queue EXCEPT ![h] = Append(@, frame)]
  <2>1. \A w \in Workers : w # h => queue'[w] = queue[w]
    BY <1>1, <1>6 DEF TypeOK
  <2>2. /\ Len(queue'[h]) = Len(queue[h]) + 1
        /\ \A i \in 1 .. Len(queue[h]) : queue'[h][i] = queue[h][i]
        /\ queue'[h][Len(queue[h]) + 1] = frame
    BY <1>1, <1>6 DEF TypeOK
  <2>3. Len(queue[h]) \in Nat
    BY <1>1 DEF TypeOK
  <2> HIDE DEF h
  <2>4. QueuesSorted'
    <3> SUFFICES ASSUME NEW w \in Workers, NEW i \in 1 .. Len(queue'[w])
                 PROVE  /\ hashToWorker(queue'[w][i]) = w
                        /\ queue'[w][i].no <= frame.no
                        /\ \A j \in 1 .. Len(queue'[w]) :
                             i < j => queue'[w][i].no < queue'[w][j].no
      BY <1>4 DEF QueuesSorted
    <3>1. CASE w # h
      <4>1. queue'[w] = queue[w] BY <3>1, <2>1
      <4>2. /\ hashToWorker(queue[w][i]) = w
            /\ \A j \in 1 .. Len(queue[w]) :
                 i < j => queue[w][i].no < queue[w][j].no
        BY <4>1 DEF PathInv, QueuesSorted
      <4>3. queue[w][i].no \in Nat /\ queue[w][i].no <= NewestPlaced
        BY <4>1, Numbers DEF PathInv, QueuesSorted
      <4>4. queue[w][i].no <= frame.no BY <4>3, <1>1, <1>2
      <4> QED BY <4>1, <4>2, <4>4
    <3>2. CASE w = h
      <4>1. hashToWorker(frame) = w BY <3>2 DEF h
      <4>2. \A m \in 1 .. Len(queue[w]) :
              queue[w][m].no \in Nat /\ queue[w][m].no < frame.no
        BY <1>1, <1>2, Numbers DEF PathInv, QueuesSorted
      <4>3. CASE i = Len(queue[w]) + 1
        BY <4>3, <3>2, <4>1, <2>2, <2>3, <1>1
      <4>4. CASE i \in 1 .. Len(queue[w])
        <5>1. hashToWorker(queue[w][i]) = w BY <4>4 DEF PathInv, QueuesSorted
        <5>2. ASSUME NEW j \in 1 .. Len(queue'[w]), i < j
              PROVE  queue'[w][i].no < queue'[w][j].no
          <6>1. CASE j \in 1 .. Len(queue[w])
            BY <4>4, <5>2, <6>1, <3>2, <2>2 DEF PathInv, QueuesSorted
          <6>2. CASE j = Len(queue[w]) + 1
            BY <4>4, <6>2, <3>2, <4>2, <2>2
          <6> QED BY <6>1, <6>2, <3>2, <2>2, <2>3
        <5> QED BY <4>4, <5>1, <5>2, <4>2, <3>2, <2>2, <1>1
      <4> QED BY <4>3, <4>4, <3>2, <2>2, <2>3
    <3> QED BY <3>1, <3>2
  <2>5. HandsBeforeQueues'
    <3> SUFFICES ASSUME NEW w \in Workers, Busy(w)
                 PROVE  /\ hashToWorker(hand[w]) = w
                        /\ hand[w].no <= frame.no
                        /\ \A i \in 1 .. Len(queue'[w]) : hand[w].no < queue'[w][i].no
      BY <1>2, <1>3, <1>4 DEF HandsBeforeQueues
    <3>1. /\ hashToWorker(hand[w]) = w
          /\ hand[w].no \in Nat /\ hand[w].no < frame.no
          /\ \A i \in 1 .. Len(queue[w]) : hand[w].no < queue[w][i].no
      <4>1. /\ hashToWorker(hand[w]) = w /\ hand[w].no <= NewestPlaced
            /\ \A i \in 1 .. Len(queue[w]) : hand[w].no < queue[w][i].no
        BY DEF PathInv, HandsBeforeQueues
      <4>2. hand[w].no \in Nat BY Numbers
      <4>3. hand[w].no < frame.no BY <4>1, <4>2, <1>1, <1>2
      <4> QED BY <4>1, <4>2, <4>3
    <3>2. hand[w].no <= frame.no BY <3>1, <1>1
    <3>3. ASSUME NEW i \in 1 .. Len(queue'[w])
          PROVE  hand[w].no < queue'[w][i].no
      <4>1. CASE w # h
        <5>1. queue'[w] = queue[w] BY <4>1, <2>1
        <5> QED BY <5>1, <3>1
      <4>2. CASE w = h /\ i \in 1 .. Len(queue[h]) BY <4>2, <3>1, <2>2
      <4>3. CASE w = h /\ i = Len(queue[h]) + 1 BY <4>3, <3>1, <2>2
      <4> QED BY <4>1, <4>2, <4>3, <2>2, <2>3
    <3> QED BY <3>1, <3>2, <3>3
  <2>6. LogBeforeWorkers'
    <3> SUFFICES ASSUME NEW k \in 1 .. Len(log), NEW w \in Workers,
                        hashToWorker(log[k]) = w
                 PROVE  /\ log[k].no <= frame.no
                        /\ Busy(w) => log[k].no < hand[w].no
                        /\ \A i \in 1 .. Len(queue'[w]) : log[k].no < queue'[w][i].no
      BY <1>2, <1>3, <1>4 DEF LogBeforeWorkers
    <3>1. log[k].no \in Nat /\ log[k].no < frame.no
      BY <1>1, <1>2, Numbers DEF PathInv, LogBeforeWorkers
    <3>2. Busy(w) => log[k].no < hand[w].no
      BY DEF PathInv, LogBeforeWorkers
    <3>3. \A i \in 1 .. Len(queue[w]) : log[k].no < queue[w][i].no
      BY DEF PathInv, LogBeforeWorkers
    <3>4. \A i \in 1 .. Len(queue'[w]) : log[k].no < queue'[w][i].no
      <4>1. CASE w = h
        <5> SUFFICES ASSUME NEW i \in 1 .. Len(queue'[w])
                     PROVE  log[k].no < queue'[w][i].no
          OBVIOUS
        <5>1. CASE i \in 1 .. Len(queue[h]) BY <5>1, <4>1, <3>3, <2>2
        <5>2. CASE i = Len(queue[h]) + 1 BY <5>2, <4>1, <3>1, <2>2
        <5> QED BY <5>1, <5>2, <4>1, <2>2, <2>3
      <4>2. CASE w # h
        <5>1. queue'[w] = queue[w] BY <4>2, <2>1
        <5> QED BY <5>1, <3>3
      <4> QED BY <4>1, <4>2
    <3> QED BY <3>1, <3>2, <3>4, <1>1
  <2>7. LogSorted' BY <1>2 DEF PathInv, LogSorted
  <2> QED BY <2>4, <2>5, <2>6, <2>7 DEF PathInv
<1> QED BY <1>5, <1>6 DEF Dispatch, Enqueue, Count

(* A worker takes the oldest frame of its queue into its hands.            *)
LEMMA PopOrder ==
  ASSUME TypeOK, TypeOK', PathInv, NEW w \in Workers, Pop(w)
  PROVE  PathInv'
<1>1. /\ log' = log /\ NewestPlaced' = NewestPlaced
      /\ wpc[w] = "pop" /\ wpc' = [wpc EXCEPT ![w] = "lookup"]
      /\ queue[w] # << >> /\ hand' = [hand EXCEPT ![w] = Head(queue[w])]
      /\ queue' = [queue EXCEPT ![w] = Tail(@)]
  BY DEF Pop, WorkerStep, mainVars, NewestPlaced
<1>2. \A v \in Workers \ {w} :
         Busy(v)' = Busy(v) /\ hand'[v] = hand[v] /\ queue'[v] = queue[v]
  BY <1>1 DEF TypeOK, Busy
<1>3. queue[w] \in Seq(Frame) /\ Len(queue[w]) \in Nat /\ Len(queue[w]) >= 1
  BY <1>1 DEF TypeOK
<1>4. /\ hand'[w] = queue[w][1]
      /\ Len(queue'[w]) = Len(queue[w]) - 1
      /\ \A i \in 1 .. Len(queue'[w]) : queue'[w][i] = queue[w][i + 1]
  BY <1>1, <1>3, HeadTailProperties DEF TypeOK
<1>5. QueuesSorted'
  <2> SUFFICES ASSUME NEW v \in Workers, NEW i \in 1 .. Len(queue'[v])
               PROVE  /\ hashToWorker(queue'[v][i]) = v
                      /\ queue'[v][i].no <= NewestPlaced'
                      /\ \A j \in 1 .. Len(queue'[v]) :
                           i < j => queue'[v][i].no < queue'[v][j].no
    BY DEF QueuesSorted
  <2>1. CASE v # w BY <2>1, <1>1, <1>2 DEF PathInv, QueuesSorted
  <2>2. CASE v = w
    <3>1. i + 1 \in 1 .. Len(queue[w]) BY <2>2, <1>3, <1>4
    <3>2. ASSUME NEW j \in 1 .. Len(queue'[w]), i < j
          PROVE  queue[w][i + 1].no < queue[w][j + 1].no
      <4>1. j + 1 \in 1 .. Len(queue[w]) /\ i + 1 < j + 1 BY <3>2, <2>2, <1>3, <1>4
      <4> QED BY <3>1, <4>1 DEF PathInv, QueuesSorted
    <3> QED BY <2>2, <3>1, <3>2, <1>1, <1>4 DEF PathInv, QueuesSorted
  <2> QED BY <2>1, <2>2
<1>6. HandsBeforeQueues'
  <2> SUFFICES ASSUME NEW v \in Workers, Busy(v)'
               PROVE  /\ hashToWorker(hand'[v]) = v
                      /\ hand'[v].no <= NewestPlaced'
                      /\ \A i \in 1 .. Len(queue'[v]) : hand'[v].no < queue'[v][i].no
    BY DEF HandsBeforeQueues
  <2>1. CASE v # w BY <2>1, <1>1, <1>2 DEF PathInv, HandsBeforeQueues
  <2>2. CASE v = w BY <2>2, <1>1, <1>3, <1>4 DEF PathInv, QueuesSorted
  <2> QED BY <2>1, <2>2
<1>7. LogBeforeWorkers'
  <2> SUFFICES ASSUME NEW k \in 1 .. Len(log), NEW v \in Workers,
                      hashToWorker(log[k]) = v
               PROVE  /\ log[k].no <= NewestPlaced'
                      /\ Busy(v)' => log[k].no < hand'[v].no
                      /\ \A i \in 1 .. Len(queue'[v]) : log[k].no < queue'[v][i].no
    BY <1>1 DEF LogBeforeWorkers
  <2>1. CASE v # w BY <2>1, <1>1, <1>2 DEF PathInv, LogBeforeWorkers
  <2>2. CASE v = w BY <2>2, <1>1, <1>3, <1>4 DEF PathInv, LogBeforeWorkers
  <2> QED BY <2>1, <2>2
<1>8. LogSorted' BY <1>1 DEF PathInv, LogSorted
<1> QED BY <1>5, <1>6, <1>7, <1>8 DEF PathInv

(* A worker appends the record of the packet in its hands.                 *)
LEMMA PushOrder ==
  ASSUME TypeOK, TypeOK', PathInv, NEW w \in Workers, PushRecord(w)
  PROVE  PathInv'
<1> DEFINE r == makeRecord(w)
           n == Len(log)
<1>1. /\ wpc[w] = "record" /\ wpc' = [wpc EXCEPT ![w] = "loop"]
      /\ log' = Append(log, r) /\ NewestPlaced' = NewestPlaced
      /\ queue' = queue /\ hand' = hand
  BY DEF PushRecord, WorkerStep, mainVars, NewestPlaced
<1>2. /\ n \in Nat /\ Len(log') = n + 1 /\ log'[n + 1] = r
      /\ \A k \in 1 .. n : log'[k] = log[k]
  BY <1>1, RecordType DEF TypeOK
<1>3. /\ Busy(w) /\ ~Busy(w)'
      /\ \A v \in Workers \ {w} : Busy(v)' = Busy(v)
  BY <1>1 DEF TypeOK, Busy
<1>4. r.no = hand[w].no /\ hashToWorker(r) = w
  <2>1. r.no = hand[w].no /\ r.flow = hand[w].flow BY RecordType
  <2>2. hashToWorker(hand[w]) = w BY <1>3 DEF PathInv, HandsBeforeQueues
  <2> QED BY <2>1, <2>2 DEF hashToWorker
<1> HIDE DEF r, n
<1>5. QueuesSorted' BY <1>1 DEF PathInv, QueuesSorted
<1>6. HandsBeforeQueues' BY <1>1, <1>3 DEF PathInv, HandsBeforeQueues
<1>7. LogBeforeWorkers'
  <2> SUFFICES ASSUME NEW k \in 1 .. n + 1, NEW v \in Workers,
                      hashToWorker(log'[k]) = v
               PROVE  /\ log'[k].no <= NewestPlaced
                      /\ Busy(v)' => log'[k].no < hand[v].no
                      /\ \A i \in 1 .. Len(queue[v]) : log'[k].no < queue[v][i].no
    BY <1>1, <1>2 DEF LogBeforeWorkers
  <2>1. CASE k = n + 1
    BY <2>1, <1>2, <1>3, <1>4 DEF PathInv, HandsBeforeQueues
  <2>2. CASE k \in 1 .. n
    BY <2>2, <1>2, <1>3 DEF PathInv, LogBeforeWorkers, n
  <2> QED BY <2>1, <2>2, <1>2
<1>8. LogSorted'
  <2>1. \A k \in 1 .. n : hashToWorker(log[k]) = w => log[k].no < hand[w].no
    BY <1>3 DEF PathInv, LogBeforeWorkers, n
  <2>2. \A k, l \in 1 .. n :
          k < l /\ hashToWorker(log[k]) = hashToWorker(log[l]) => log[k].no < log[l].no
    BY DEF PathInv, LogSorted, n
  <2> QED BY <2>1, <2>2, <1>2, <1>4 DEF LogSorted
<1> QED BY <1>5, <1>6, <1>7, <1>8 DEF PathInv

-----------------------------------------------------------------------------
(*                  The inductive invariant, step by step                  *)

(* A step of the main thread changes nothing on the path but in Dispatch.  *)
LEMMA MainMovesNothing ==
  ASSUME TypeOK, FrameNumbered, Main, ~Dispatch
  PROVE  /\ FrameNumbered' /\ NewestPlaced' = NewestPlaced
         /\ queue' = queue /\ log' = log /\ hand' = hand
         /\ table' = table /\ stale' = stale
         /\ \/ wpc' = wpc
            \/ wpc' = [w \in Workers |-> "loop"]
<1> USE DEF FrameNumbered, NewestPlaced, workerVars
<1>1. CASE StartDispatcher BY <1>1 DEF StartDispatcher
<1>2. CASE PublishCapture BY <1>2 DEF PublishCapture
<1>3. CASE OpenCapture BY <1>3 DEF OpenCapture
<1>4. CASE StartCapture BY <1>4 DEF StartCapture
<1>5. CASE ReceiveFrame BY <1>5 DEF ReceiveFrame
<1>6. CASE PcapCallback
  <2>1. CASE capture.running
    <3>1. metrics'.captured = metrics.captured + 1 /\ metrics.captured \in Nat
      BY <1>6, <2>1, CountCaptured, CapturedType DEF PcapCallback, TypeOK
    <3> QED BY <1>6, <2>1, <3>1 DEF PcapCallback
  <2>2. CASE ~capture.running BY <1>6, <2>2 DEF PcapCallback
  <2> QED BY <2>1, <2>2
<1>7. CASE LoopEnds BY <1>7 DEF LoopEnds
<1>8. CASE BeginShutdown BY <1>8 DEF BeginShutdown
<1>9. CASE StopDispatcher BY <1>9 DEF StopDispatcher
<1>10. CASE StopWorker BY <1>10 DEF StopWorker
<1>11. CASE JoinWorker BY <1>11 DEF JoinWorker
<1>12. CASE JoinBackground BY <1>12 DEF JoinBackground
<1> QED BY <1>1, <1>2, <1>3, <1>4, <1>5, <1>6, <1>7, <1>8, <1>9, <1>10, <1>11,
           <1>12 DEF Main

(* Only the main thread changes where it is, its frame, and the number of  *)
(* captured frames.                                                        *)
LEMMA WorkerLeavesMain ==
  ASSUME TypeOK, NEW w \in Workers, Worker(w)
  PROVE  pc' = pc /\ frame' = frame /\ metrics'.captured = metrics.captured
<1> USE DEF TypeOK, mainVars
<1>1. CASE CheckRunning(w) BY <1>1 DEF CheckRunning
<1>2. CASE Pop(w) BY <1>2 DEF Pop
<1>3. CASE PopTimesOut(w) BY <1>3 DEF PopTimesOut
<1>4. CASE LookUp(w) BY <1>4, CountOther DEF LookUp
<1>5. CASE RefuseFlow(w) BY <1>5, CountOther DEF RefuseFlow
<1>6. CASE Analyze(w) BY <1>6, CountVerdictType, PipelineAssumption DEF Analyze
<1>7. CASE RaiseAlert(w) BY <1>7 DEF RaiseAlert
<1>8. CASE PushRecord(w) BY <1>8 DEF PushRecord
<1> QED BY <1>1, <1>2, <1>3, <1>4, <1>5, <1>6, <1>7, <1>8 DEF Worker

LEMMA OthersLeaveThePath ==
  ASSUME TypeOK, Others
  PROVE  /\ pc' = pc /\ frame' = frame /\ metrics'.captured = metrics.captured
         /\ queue' = queue /\ log' = log /\ hand' = hand /\ wpc' = wpc
<1> USE DEF TypeOK, mainVars, workerVars
<1>1. CASE SignalArrives BY <1>1 DEF SignalArrives
<1>2. CASE HandlerStopsCapture BY <1>2 DEF HandlerStopsCapture
<1>3. ASSUME NEW t \in BackgroundThreads, BackgroundExits(t)
      PROVE  /\ pc' = pc /\ frame' = frame /\ metrics' = metrics
             /\ queue' = queue /\ log' = log /\ hand' = hand /\ wpc' = wpc
  BY <1>3 DEF BackgroundExits
<1>4. CASE CleanupIsDue BY <1>4 DEF CleanupIsDue
<1>5. CASE CleanupFlows BY <1>5, CleanupMetricsType DEF CleanupFlows
<1>6. ASSUME NEW f \in Flows, FlowGoesIdle(f)
      PROVE  /\ pc' = pc /\ frame' = frame /\ metrics' = metrics
             /\ queue' = queue /\ log' = log /\ hand' = hand /\ wpc' = wpc
  BY <1>6 DEF FlowGoesIdle
<1>7. CASE Exited BY <1>7 DEF Exited, vars
<1> QED BY <1>1, <1>2, <1>3, <1>4, <1>5, <1>6, <1>7 DEF Others, Cleaner

(* A worker's step between its pop and its push moves no frame either.     *)
LEMMA WorkerOrder ==
  ASSUME TypeOK, TypeOK', PathInv, NEW w \in Workers, Worker(w)
  PROVE  PathInv'
<1>1. NewestPlaced' = NewestPlaced
  BY WorkerLeavesMain DEF NewestPlaced
<1>2. NewestPlaced \in Int
  BY Numbers
<1>3. ASSUME queue' = queue, log' = log, hand' = hand,
             NEW from, NEW to, WorkerStep(w, from, to),
             to \in {"lookup", "refused", "analyze", "detected", "record"} =>
               from \in {"lookup", "refused", "analyze", "detected", "record"}
      PROVE  PathInv'
  <2>1. \A v \in Workers : Busy(v)' => Busy(v) /\ hand'[v] = hand[v]
    BY <1>3 DEF TypeOK, Busy, WorkerStep
  <2> QED BY <2>1, <1>1, <1>2, <1>3, NothingMoves
<1>4. CASE CheckRunning(w)
  <2> DEFINE next == IF running[w] THEN "pop" ELSE "done"
  <2>1. WorkerStep(w, "loop", next) BY <1>4 DEF CheckRunning
  <2>2. next \notin {"lookup", "refused", "analyze", "detected", "record"}
    OBVIOUS
  <2> HIDE DEF next
  <2> QED BY <1>3, <1>4, <2>1, <2>2 DEF CheckRunning
<1>5. CASE Pop(w) BY <1>5, PopOrder
<1>6. CASE PopTimesOut(w) BY <1>3, <1>6 DEF PopTimesOut
<1>7. CASE LookUp(w)
  <2>1. WorkerStep(w, "lookup", "analyze") \/ WorkerStep(w, "lookup", "refused")
    BY <1>7 DEF LookUp
  <2>2. queue' = queue /\ log' = log /\ hand' = hand BY <1>7 DEF LookUp
  <2> QED BY <1>3, <2>1, <2>2
<1>8. CASE RefuseFlow(w) BY <1>3, <1>8 DEF RefuseFlow
<1>9. CASE Analyze(w)
  <2>1. WorkerStep(w, "analyze", "record") \/ WorkerStep(w, "analyze", "detected")
    BY <1>9 DEF Analyze
  <2>2. queue' = queue /\ log' = log /\ hand' = hand BY <1>9 DEF Analyze
  <2> QED BY <1>3, <2>1, <2>2
<1>10. CASE RaiseAlert(w) BY <1>3, <1>10 DEF RaiseAlert
<1>11. CASE PushRecord(w) BY <1>11, PushOrder
<1> QED BY <1>4, <1>5, <1>6, <1>7, <1>8, <1>9, <1>10, <1>11 DEF Worker

(* A flow is looked up, hence fresh, before a worker holds it; only the    *)
(* clock could make it stale, and only a stale flow is erased.             *)
LEMMA WorkerFresh ==
  ASSUME TypeOK, HeldFlowsFresh, NEW w \in Workers, Worker(w)
  PROVE  HeldFlowsFresh'
<1> USE DEF TypeOK, HeldFlowsFresh, WorkerStep
<1>1. CASE CheckRunning(w) BY <1>1 DEF CheckRunning
<1>2. CASE Pop(w) BY <1>2 DEF Pop
<1>3. CASE PopTimesOut(w) BY <1>3 DEF PopTimesOut
<1>4. CASE LookUp(w)
  <2>1. hand' = hand BY <1>4 DEF LookUp
  <2>2. \A v \in Workers \ {w} : wpc'[v] = wpc[v] BY <1>4 DEF LookUp
  <2>3. table \ stale \subseteq table' \ stale'
    BY <1>4 DEF LookUp, Touch, Create, FlowTableTypeOK
  <2>4. wpc'[w] \in {"analyze", "detected"} => hand[w].flow \in table' \ stale'
    BY <1>4 DEF LookUp, Touch, Create, FlowTableTypeOK
  <2> QED BY <2>1, <2>2, <2>3, <2>4
<1>5. CASE RefuseFlow(w) BY <1>5 DEF RefuseFlow
<1>6. CASE Analyze(w) BY <1>6 DEF Analyze
<1>7. CASE RaiseAlert(w) BY <1>7 DEF RaiseAlert
<1>8. CASE PushRecord(w) BY <1>8 DEF PushRecord
<1> QED BY <1>1, <1>2, <1>3, <1>4, <1>5, <1>6, <1>7, <1>8 DEF Worker

LEMMA OthersFresh ==
  ASSUME TypeOK, HeldFlowsFresh, Others
  PROVE  HeldFlowsFresh'
<1>0. wpc' = wpc /\ hand' = hand BY OthersLeaveThePath
<1> USE <1>0 DEF HeldFlowsFresh
<1>1. CASE SignalArrives BY <1>1 DEF SignalArrives
<1>2. CASE HandlerStopsCapture BY <1>2 DEF HandlerStopsCapture
<1>3. ASSUME NEW t \in BackgroundThreads, BackgroundExits(t) PROVE HeldFlowsFresh'
  BY <1>3 DEF BackgroundExits
<1>4. CASE CleanupIsDue BY <1>4 DEF CleanupIsDue
<1>5. CASE CleanupFlows BY <1>5 DEF CleanupFlows, Cleanup
<1>6. ASSUME NEW f \in Flows, FlowGoesIdle(f) PROVE HeldFlowsFresh'
  BY <1>6 DEF FlowGoesIdle, GrowStale, Holds
<1>7. CASE Exited BY <1>7 DEF Exited, vars
<1> QED BY <1>1, <1>2, <1>3, <1>4, <1>5, <1>6, <1>7 DEF Others, Cleaner

LEMMA IInvInit == Init => IInv
<1> SUFFICES ASSUME Init PROVE IInv
  OBVIOUS
<1>1. TypeOK BY TypeInit
<1>2. FrameNumbered /\ HeldFlowsFresh BY DEF Init, FrameNumbered, HeldFlowsFresh
<1>3. QueuesSorted /\ HandsBeforeQueues BY DEF Init, QueuesSorted, HandsBeforeQueues, Busy
<1>4. LogBeforeWorkers /\ LogSorted BY DEF Init, LogBeforeWorkers, LogSorted
<1> QED BY <1>1, <1>2, <1>3, <1>4 DEF IInv, PathInv

LEMMA IInvNext == IInv /\ [Next]_vars => IInv'
<1> SUFFICES ASSUME IInv, [Next]_vars PROVE IInv'
  OBVIOUS
<1>1. TypeOK /\ FrameNumbered /\ PathInv /\ HeldFlowsFresh BY DEF IInv
<1>2. TypeOK' BY <1>1, TypeNext
<1>3. NewestPlaced \in Int BY <1>1, Numbers
<1>4. CASE Dispatch
  <2>1. PathInv' BY <1>1, <1>2, <1>4, DispatchOrder
  <2>2. FrameNumbered' BY <1>4 DEF Dispatch, FrameNumbered
  <2>3. HeldFlowsFresh' BY <1>1, <1>4 DEF Dispatch, HeldFlowsFresh, workerVars
  <2> QED BY <1>2, <2>1, <2>2, <2>3 DEF IInv
<1>5. CASE Main /\ ~Dispatch
  <2>1. /\ FrameNumbered' /\ NewestPlaced' = NewestPlaced
        /\ queue' = queue /\ log' = log /\ hand' = hand
        /\ table' = table /\ stale' = stale
        /\ \/ wpc' = wpc
           \/ wpc' = [w \in Workers |-> "loop"]
    BY <1>1, <1>5, MainMovesNothing
  <2>2. \A w \in Workers : Busy(w)' => Busy(w) /\ hand'[w] = hand[w]
    BY <2>1 DEF Busy
  <2>3. PathInv' BY <1>1, <1>2, <1>3, <2>1, <2>2, NothingMoves
  <2>4. HeldFlowsFresh' BY <1>1, <2>1 DEF HeldFlowsFresh
  <2> QED BY <1>2, <2>1, <2>3, <2>4 DEF IInv
<1>6. ASSUME NEW w \in Workers, Worker(w) PROVE IInv'
  <2>1. PathInv' BY <1>1, <1>2, <1>6, WorkerOrder
  <2>2. FrameNumbered' BY <1>1, <1>6, WorkerLeavesMain DEF FrameNumbered
  <2>3. HeldFlowsFresh' BY <1>1, <1>6, WorkerFresh
  <2> QED BY <1>2, <2>1, <2>2, <2>3 DEF IInv
<1>7. CASE Others
  <2>1. /\ pc' = pc /\ frame' = frame /\ metrics'.captured = metrics.captured
        /\ queue' = queue /\ log' = log /\ hand' = hand /\ wpc' = wpc
    BY <1>1, <1>7, OthersLeaveThePath
  <2>2. NewestPlaced' = NewestPlaced BY <2>1 DEF NewestPlaced
  <2>3. \A w \in Workers : Busy(w)' => Busy(w) /\ hand'[w] = hand[w]
    BY <2>1 DEF Busy
  <2>4. PathInv' BY <1>1, <1>2, <1>3, <2>1, <2>2, <2>3, NothingMoves
  <2>5. FrameNumbered' BY <1>1, <2>1 DEF FrameNumbered
  <2>6. HeldFlowsFresh' BY <1>1, <1>7, OthersFresh
  <2> QED BY <1>2, <2>4, <2>5, <2>6 DEF IInv
<1>8. CASE UNCHANGED vars
  <2>1. FrameNumbered' /\ HeldFlowsFresh'
    BY <1>1, <1>8 DEF vars, FrameNumbered, HeldFlowsFresh
  <2>2. /\ NewestPlaced' = NewestPlaced /\ queue' = queue /\ log' = log
        /\ \A w \in Workers : Busy(w)' => Busy(w) /\ hand'[w] = hand[w]
    BY <1>8 DEF vars, NewestPlaced, Busy
  <2>3. PathInv' BY <1>1, <1>2, <1>3, <2>2, NothingMoves
  <2> QED BY <1>2, <2>1, <2>3 DEF IInv
<1> QED BY <1>4, <1>5, <1>6, <1>7, <1>8 DEF Next, Others

-----------------------------------------------------------------------------
LEMMA IInvImpliesFlowOrder == IInv => FlowOrder
<1> SUFFICES ASSUME IInv, NEW i \in DOMAIN log, NEW j \in DOMAIN log,
                    i < j, log[i].flow = log[j].flow
             PROVE  log[i].no < log[j].no
  BY DEF FlowOrder
<1>1. log \in Seq(Record) BY DEF IInv, TypeOK
<1>2. i \in 1 .. Len(log) /\ j \in 1 .. Len(log) BY <1>1
<1>3. hashToWorker(log[i]) = hashToWorker(log[j]) BY DEF hashToWorker
<1> QED BY <1>2, <1>3 DEF IInv, PathInv, LogSorted

LEMMA IInvImpliesFlowPointersSafe == IInv => FlowPointersSafe
<1> SUFFICES ASSUME IInv, NEW w \in Workers, NEW f \in Flows, Holds(w, f)
             PROVE  /\ f \in table \ stale
                    /\ \A other \in Workers \ {w} : ~Holds(other, f)
  BY DEF FlowPointersSafe
<1>1. f \in table \ stale BY DEF IInv, HeldFlowsFresh, Holds
<1>2. ASSUME NEW other \in Workers \ {w}, Holds(other, f) PROVE FALSE
  <2>1. Busy(w) /\ Busy(other) BY <1>2 DEF Holds, Busy
  <2>2. hashToWorker(hand[w]) = w /\ hashToWorker(hand[other]) = other
    BY <2>1 DEF IInv, PathInv, HandsBeforeQueues
  <2>3. hand[w].flow = hand[other].flow BY <1>2 DEF Holds
  <2> QED BY <2>2, <2>3 DEF hashToWorker
<1> QED BY <1>1, <1>2

(* However many workers push into the ring concurrently, the records of    *)
(* one flow enter it in the order of its frames, each once.                *)
THEOREM FlowOrderHolds == Spec => []FlowOrder
  BY IInvInit, IInvNext, IInvImpliesFlowOrder, PTL DEF Spec

(* A worker uses a FlowState outside the table's lock, yet no other worker *)
(* uses it and cleanup does not free it meanwhile (given that handling one *)
(* packet takes less than the idle timeout).                               *)
THEOREM FlowPointersSafeHolds == Spec => []FlowPointersSafe
  BY IInvInit, IInvNext, IInvImpliesFlowPointersSafe, PTL DEF Spec
-----------------------------------------------------------------------------
(***************************************************************************)
(* Stopping: who has ended when.  Dispatcher::stop takes the workers in    *)
(* turn, and a thread that has ended does not come back.                   *)
(***************************************************************************)

StopInv ==
  /\ pc = "start" => \A w \in Workers : wpc[w] = "off"
  /\ pc \in {"stopWorker", "joinWorker"} =>
       \A w \in Workers : w < stopping => wpc[w] = "done"
  /\ pc \in {"joinBackground", "done"} => \A w \in Workers : wpc[w] = "done"
  /\ pc = "done" => \A t \in BackgroundThreads : background[t] \in {"off", "done"}

(* A worker that takes a step was running, and moves no other worker.      *)
LEMMA WorkerMovesAlone ==
  ASSUME TypeOK, NEW w \in Workers, Worker(w)
  PROVE  /\ wpc[w] \notin {"off", "done"}
         /\ \A v \in Workers \ {w} : wpc'[v] = wpc[v]
         /\ pc' = pc /\ stopping' = stopping /\ background' = background
<1> USE DEF TypeOK, mainVars, WorkerStep
<1>1. CASE CheckRunning(w) BY <1>1 DEF CheckRunning
<1>2. CASE Pop(w) BY <1>2 DEF Pop
<1>3. CASE PopTimesOut(w) BY <1>3 DEF PopTimesOut
<1>4. CASE LookUp(w) BY <1>4 DEF LookUp
<1>5. CASE RefuseFlow(w) BY <1>5 DEF RefuseFlow
<1>6. CASE Analyze(w) BY <1>6 DEF Analyze
<1>7. CASE RaiseAlert(w) BY <1>7 DEF RaiseAlert
<1>8. CASE PushRecord(w) BY <1>8 DEF PushRecord
<1> QED BY <1>1, <1>2, <1>3, <1>4, <1>5, <1>6, <1>7, <1>8 DEF Worker

LEMMA MainStops == ASSUME TypeOK, StopInv, Main PROVE StopInv'
<1> USE DEF StopInv, workerVars
<1>1. CASE StartDispatcher BY <1>1 DEF StartDispatcher
<1>2. CASE PublishCapture BY <1>2 DEF PublishCapture
<1>3. CASE OpenCapture BY <1>3 DEF OpenCapture
<1>4. CASE StartCapture BY <1>4 DEF StartCapture
<1>5. CASE ReceiveFrame BY <1>5 DEF ReceiveFrame
<1>6. CASE PcapCallback BY <1>6 DEF PcapCallback
<1>7. CASE Dispatch BY <1>7 DEF Dispatch
<1>8. CASE LoopEnds BY <1>8 DEF LoopEnds
<1>9. CASE BeginShutdown BY <1>9 DEF BeginShutdown
<1>10. CASE StopDispatcher BY <1>10, PipelineAssumption DEF StopDispatcher, Workers
<1>11. CASE StopWorker BY <1>11 DEF StopWorker
<1>12. CASE JoinWorker
  <2>1. wpc[stopping] = "done" /\ wpc' = wpc /\ pc = "joinWorker" BY <1>12 DEF JoinWorker
  <2>2. stopping \in Workers /\ \A w \in Workers : w \in Int /\ w <= NumWorkers - 1
    BY PipelineAssumption DEF TypeOK, Workers
  <2>3. CASE stopping + 1 \in Workers
    <3>1. pc' = "stopWorker" /\ stopping' = stopping + 1 BY <1>12, <2>3 DEF JoinWorker
    <3>2. \A w \in Workers : w < stopping + 1 => w < stopping \/ w = stopping BY <2>2
    <3> QED BY <2>1, <3>1, <3>2
  <2>4. CASE stopping + 1 \notin Workers
    <3>1. pc' = "joinBackground" BY <1>12, <2>4 DEF JoinWorker
    <3>2. \A w \in Workers : w < stopping \/ w = stopping
      BY <2>2, <2>4, PipelineAssumption DEF Workers
    <3> QED BY <2>1, <3>1, <3>2
  <2> QED BY <2>3, <2>4
<1>13. CASE JoinBackground BY <1>13 DEF JoinBackground
<1> QED BY <1>1, <1>2, <1>3, <1>4, <1>5, <1>6, <1>7, <1>8, <1>9, <1>10, <1>11,
           <1>12, <1>13 DEF Main

LEMMA OthersStop == ASSUME TypeOK, StopInv, Others PROVE StopInv'
<1> USE DEF mainVars, workerVars
<1>1. pc' = pc /\ wpc' = wpc BY OthersLeaveThePath
<1>2. stopping' = stopping
  BY DEF Others, Cleaner, SignalArrives, HandlerStopsCapture, BackgroundExits, CleanupIsDue,
         CleanupFlows, FlowGoesIdle, Exited, vars
<1>3. pc = "done" => \A t \in BackgroundThreads : background'[t] \in {"off", "done"}
  <2> SUFFICES ASSUME pc = "done" PROVE background' = background
    BY DEF StopInv
  <2>1. ASSUME NEW t \in BackgroundThreads PROVE background[t] \notin {"run", "sweep"}
    BY <2>1 DEF StopInv
  <2>2. "cleanup" \in BackgroundThreads BY DEF BackgroundThreads
  <2> QED BY <2>1, <2>2
      DEF Others, Cleaner, SignalArrives, HandlerStopsCapture, BackgroundExits, CleanupIsDue,
          CleanupFlows, FlowGoesIdle, Exited, vars, ThreadStep
<1> QED BY <1>1, <1>2, <1>3 DEF StopInv

LEMMA StopInvInit == Init => StopInv
  BY DEF Init, StopInv

LEMMA StopInvNext == TypeOK /\ StopInv /\ [Next]_vars => StopInv'
<1> SUFFICES ASSUME TypeOK, StopInv, [Next]_vars PROVE StopInv'
  OBVIOUS
<1>1. ASSUME NEW w \in Workers, Worker(w) PROVE StopInv'
  <2>1. /\ wpc[w] \notin {"off", "done"}
        /\ \A v \in Workers \ {w} : wpc'[v] = wpc[v]
        /\ pc' = pc /\ stopping' = stopping /\ background' = background
    BY <1>1, WorkerMovesAlone
  <2> QED BY <2>1 DEF StopInv
<1>2. CASE UNCHANGED vars BY <1>2 DEF vars, StopInv
<1> QED BY <1>1, <1>2, MainStops, OthersStop DEF Next, Others

(* When main has returned from its joins nothing moves any more.           *)
LEMMA DoneIsFinal ==
  TypeOK /\ StopInv /\ [Next]_vars =>
    (pc = "done" => UNCHANGED <<workerVars, queue, table, metrics>>)
<1> SUFFICES ASSUME TypeOK, StopInv, [Next]_vars, pc = "done"
             PROVE  UNCHANGED <<workerVars, queue, table, metrics>>
  OBVIOUS
<1>1. CASE Main
  BY <1>1 DEF Main, StartDispatcher, PublishCapture, OpenCapture, StartCapture, ReceiveFrame,
     PcapCallback, Dispatch, LoopEnds, BeginShutdown, StopDispatcher, StopWorker, JoinWorker,
     JoinBackground
<1>2. ASSUME NEW w \in Workers, Worker(w) PROVE FALSE
  BY <1>2, WorkerMovesAlone DEF StopInv
<1>3. CASE Others
  <2>1. background["cleanup"] # "sweep" BY DEF StopInv, BackgroundThreads
  <2> QED BY <1>3, <2>1
      DEF Others, Cleaner, SignalArrives, HandlerStopsCapture, BackgroundExits, CleanupIsDue,
          CleanupFlows, FlowGoesIdle, GrowStale, Exited, vars, ThreadStep, workerVars
<1>4. CASE UNCHANGED vars BY <1>4 DEF vars, workerVars
<1> QED BY <1>1, <1>2, <1>3, <1>4 DEF Next, Others

(* Once main has joined everything and prints its report, no thread pushes *)
(* a record, takes a packet, touches the flow table or counts any more.    *)
THEOREM FinalReportIsFinalHolds == Spec => FinalReportIsFinal
<1> USE DEF FinalReportIsFinal
<1>1. Spec => []TypeOK BY TypeCorrect
<1> QED BY <1>1, StopInvInit, StopInvNext, DoneIsFinal, PTL DEF Spec
-----------------------------------------------------------------------------
(***************************************************************************)
(* Counting.  A packet's action is counted before its record is pushed: a  *)
(* counter is the number of records with its action and of the workers     *)
(* that carry such a record; the threats are the alerts, and the workers   *)
(* about to raise one.                                                     *)
(***************************************************************************)

Carries(w)  == wpc[w] \in {"detected", "record"}
Carrying(a) == {w \in Workers : Carries(w) /\ result[w].action = a}
Recorded(a) == {i \in DOMAIN log : log[i].action = a}
Counted(a)  == Cardinality(Recorded(a)) + Cardinality(Carrying(a))
Alerting    == {w \in Workers : wpc[w] = "detected"}

CountersInv ==
  /\ metrics.passed = Counted("PASS")
  /\ metrics.dropped = Counted("DROP")
  /\ metrics.alerted = Counted("ALERT")
  /\ metrics.ddos + metrics.slow + metrics.scan = alerts + Cardinality(Alerting)
  /\ metrics.active_flows = Cardinality(table)
  /\ metrics.active_flows <= MaxFlows

LEMMA CountersAreNumbers ==
  ASSUME TypeOK
  PROVE  /\ \A a \in Action : /\ IsFiniteSet(Recorded(a)) /\ IsFiniteSet(Carrying(a))
                              /\ Cardinality(Recorded(a)) \in Nat
                              /\ Cardinality(Carrying(a)) \in Nat
         /\ IsFiniteSet(Alerting) /\ Cardinality(Alerting) \in Nat
         /\ IsFiniteSet(table) /\ Cardinality(table) \in Nat
<1>1. IsFiniteSet(Workers) BY PipelineAssumption, FS_Interval DEF Workers
<1>2. log \in Seq(Record) BY DEF TypeOK
<1>3. IsFiniteSet(DOMAIN log)
  <2>1. DOMAIN log = 1 .. Len(log) /\ Len(log) \in Nat BY <1>2, LenProperties
  <2> QED BY <2>1, FS_Interval
<1>4. \A a \in Action : IsFiniteSet(Recorded(a)) BY <1>3, FS_Subset DEF Recorded
<1>5. \A a \in Action : IsFiniteSet(Carrying(a)) BY <1>1, FS_Subset DEF Carrying
<1>6. IsFiniteSet(Alerting) BY <1>1, FS_Subset DEF Alerting
<1>7. IsFiniteSet(table)
  BY FlowTableAssumption, FS_Subset DEF TypeOK, FlowTableTypeOK
<1> QED BY <1>4, <1>5, <1>6, <1>7, FS_CardinalityType

LEMMA CountersInit == Init => CountersInv
<1> SUFFICES ASSUME Init PROVE CountersInv
  OBVIOUS
<1>1. /\ \A a : Recorded(a) = {} /\ Carrying(a) = {}
      /\ Alerting = {} /\ table = {}
  BY DEF Init, Recorded, Carrying, Carries, Alerting, FlowTableInit
<1>2. Cardinality({}) = 0 BY FS_EmptySet
<1>3. alerts = 0 /\ metrics.passed = 0 /\ metrics.dropped = 0 /\ metrics.alerted = 0
      /\ metrics.ddos = 0 /\ metrics.slow = 0 /\ metrics.scan = 0 /\ metrics.active_flows = 0
  BY DEF Init
<1>4. \A a : Counted(a) = 0 BY <1>1, <1>2 DEF Counted
<1> QED BY <1>1, <1>2, <1>3, <1>4, FlowTableAssumption DEF CountersInv

(* The counters of the report, and those that it does not check.           *)
SameCounts == /\ metrics'.passed = metrics.passed /\ metrics'.dropped = metrics.dropped
              /\ metrics'.alerted = metrics.alerted
              /\ metrics'.ddos = metrics.ddos /\ metrics'.slow = metrics.slow
              /\ metrics'.scan = metrics.scan
              /\ metrics'.active_flows = metrics.active_flows

LEMMA CountKeepsCounts ==
  ASSUME metrics \in Metrics, NEW c \in {"captured", "queue_drops"}, Count(c)
  PROVE  SameCounts
  BY DEF Metrics, Count, SameCounts

(* A step after which the same workers carry the same results.             *)
LEMMA NothingCounted ==
  ASSUME CountersInv, SameCounts, log' = log, alerts' = alerts, table' = table,
         \A w \in Workers :
           /\ Carries(w)' <=> Carries(w)
           /\ Carries(w) => result'[w] = result[w]
           /\ wpc'[w] = "detected" <=> wpc[w] = "detected"
  PROVE  CountersInv'
<1>1. \A a : Recorded(a)' = Recorded(a) BY DEF Recorded
<1>2. \A a : Carrying(a)' = Carrying(a) BY DEF Carrying
<1>3. Alerting' = Alerting BY DEF Alerting
<1>4. \A a : Counted(a)' = Counted(a) BY <1>1, <1>2 DEF Counted
<1> QED BY <1>3, <1>4 DEF CountersInv, SameCounts

LEMMA MainCounts == ASSUME TypeOK, StopInv, CountersInv, Main PROVE CountersInv'
<1> USE DEF workerVars, Carries, SameCounts
<1>0. metrics \in Metrics BY DEF TypeOK
<1>1. CASE StartDispatcher
  <2>1. \A w \in Workers : wpc[w] = "off" /\ wpc'[w] = "loop"
    BY <1>1 DEF StartDispatcher, StopInv
  <2> QED BY <1>1, <2>1, NothingCounted DEF StartDispatcher
<1>2. CASE PublishCapture BY <1>2, NothingCounted DEF PublishCapture
<1>3. CASE OpenCapture BY <1>3, NothingCounted DEF OpenCapture
<1>4. CASE StartCapture BY <1>4, NothingCounted DEF StartCapture
<1>5. CASE ReceiveFrame BY <1>5, NothingCounted DEF ReceiveFrame
<1>6. CASE PcapCallback BY <1>0, <1>6, CountKeepsCounts, NothingCounted DEF PcapCallback
<1>7. CASE Dispatch
  BY <1>0, <1>7, CountKeepsCounts, NothingCounted DEF Dispatch, Enqueue
<1>8. CASE LoopEnds BY <1>8, NothingCounted DEF LoopEnds
<1>9. CASE BeginShutdown BY <1>9, NothingCounted DEF BeginShutdown
<1>10. CASE StopDispatcher BY <1>10, NothingCounted DEF StopDispatcher
<1>11. CASE StopWorker BY <1>11, NothingCounted DEF StopWorker
<1>12. CASE JoinWorker BY <1>12, NothingCounted DEF JoinWorker
<1>13. CASE JoinBackground BY <1>13, NothingCounted DEF JoinBackground
<1> QED BY <1>1, <1>2, <1>3, <1>4, <1>5, <1>6, <1>7, <1>8, <1>9, <1>10, <1>11,
           <1>12, <1>13 DEF Main

(* A worker that begins to carry a result was not carrying one.            *)
LEMMA BeginsToCarry ==
  ASSUME TypeOK, NEW w \in Workers, ~Carries(w), Carries(w)', log' = log,
         \A v \in Workers \ {w} : wpc'[v] = wpc[v] /\ result'[v] = result[v],
         NEW a \in Action
  PROVE  Counted(a)' = IF result'[w].action = a THEN Counted(a) + 1 ELSE Counted(a)
<1>1. Recorded(a)' = Recorded(a) BY DEF Recorded
<1>2. CASE result'[w].action = a
  <2>1. Carrying(a)' = Carrying(a) \union {w} /\ w \notin Carrying(a)
    BY <1>2 DEF Carrying, Carries
  <2>2. Cardinality(Carrying(a)') = Cardinality(Carrying(a)) + 1
    BY <2>1, CountersAreNumbers, FS_AddElement
  <2> QED BY <1>1, <1>2, <2>2, CountersAreNumbers DEF Counted
<1>3. CASE result'[w].action # a
  <2>1. Carrying(a)' = Carrying(a) BY <1>3 DEF Carrying, Carries
  <2> QED BY <1>1, <1>3, <2>1 DEF Counted
<1> QED BY <1>2, <1>3

LEMMA LookUpCounts ==
  ASSUME TypeOK, CountersInv, NEW w \in Workers, LookUp(w)
  PROVE  CountersInv'
<1>0. metrics \in Metrics /\ IsFiniteSet(table) /\ Cardinality(table) \in Nat
  BY CountersAreNumbers DEF TypeOK
<1>1. /\ log' = log /\ alerts' = alerts /\ result' = result
      /\ \A v \in Workers : /\ Carries(v)' <=> Carries(v)
                            /\ wpc'[v] = "detected" <=> wpc[v] = "detected"
  BY DEF LookUp, WorkerStep, Carries, TypeOK
<1>2. CASE table' = table /\ SameCounts
  BY <1>1, <1>2, NothingCounted
<1>3. CASE Create(hand[w].flow) /\ Count("active_flows")
  <2>1. /\ metrics'.active_flows = metrics.active_flows + 1
        /\ metrics'.passed = metrics.passed /\ metrics'.dropped = metrics.dropped
        /\ metrics'.alerted = metrics.alerted /\ metrics'.ddos = metrics.ddos
        /\ metrics'.slow = metrics.slow /\ metrics'.scan = metrics.scan
    BY <1>0, <1>3 DEF Metrics, Count
  <2>2. Cardinality(table') = Cardinality(table) + 1 /\ Cardinality(table) < MaxFlows
    <3> DEFINE f == hand[w].flow
    <3>1. table' = table \union {f} /\ f \notin table /\ ~(Cardinality(table) >= MaxFlows)
      BY <1>3 DEF Create, IsFull
    <3> HIDE DEF f
    <3>2. Cardinality(table') = Cardinality(table) + 1 BY <1>0, <3>1, FS_AddElement
    <3>3. MaxFlows \in Nat BY FlowTableAssumption
    <3>4. Cardinality(table) < MaxFlows BY <1>0, <3>1, <3>3
    <3> QED BY <3>2, <3>4
  <2>3. \A a : Counted(a)' = Counted(a)
    BY <1>1 DEF Counted, Recorded, Carrying
  <2>4. Alerting' = Alerting BY <1>1 DEF Alerting
  <2>5. metrics'.active_flows = Cardinality(table') /\ metrics'.active_flows <= MaxFlows
    BY <1>0, <2>1, <2>2, FlowTableAssumption DEF CountersInv
  <2> QED BY <1>1, <2>1, <2>3, <2>4, <2>5 DEF CountersInv
<1>4. \/ table' = table /\ SameCounts
      \/ Create(hand[w].flow) /\ Count("active_flows")
  <2>1. CASE Touch(hand[w].flow) /\ UNCHANGED metrics BY <2>1 DEF Touch, SameCounts
  <2>2. CASE UNCHANGED <<table, stale>> /\ Count("queue_drops")
    BY <1>0, <2>2, CountKeepsCounts
  <2> QED BY <2>1, <2>2 DEF LookUp
<1> QED BY <1>2, <1>3, <1>4

LEMMA RefuseCounts ==
  ASSUME TypeOK, CountersInv, NEW w \in Workers, RefuseFlow(w)
  PROVE  CountersInv'
<1>1. /\ log' = log /\ alerts' = alerts /\ table' = table
      /\ ~Carries(w) /\ Carries(w)' /\ result'[w].action = "DROP"
      /\ \A v \in Workers \ {w} : wpc'[v] = wpc[v] /\ result'[v] = result[v]
      /\ \A v \in Workers : wpc'[v] = "detected" <=> wpc[v] = "detected"
  BY DEF RefuseFlow, WorkerStep, Carries, TypeOK
<1>2. /\ metrics'.dropped = metrics.dropped + 1 /\ metrics'.passed = metrics.passed
      /\ metrics'.alerted = metrics.alerted /\ metrics'.ddos = metrics.ddos
      /\ metrics'.slow = metrics.slow /\ metrics'.scan = metrics.scan
      /\ metrics'.active_flows = metrics.active_flows
  BY DEF RefuseFlow, Count, TypeOK, Metrics
<1>3. \A a \in Action : Counted(a)' = IF a = "DROP" THEN Counted(a) + 1 ELSE Counted(a)
  BY <1>1, BeginsToCarry
<1>4. Alerting' = Alerting BY <1>1 DEF Alerting
<1> QED BY <1>1, <1>2, <1>3, <1>4 DEF CountersInv, Action

LEMMA AnalyzeCounts ==
  ASSUME TypeOK, CountersInv, NEW w \in Workers, Analyze(w)
  PROVE  CountersInv'
<1>1. PICK v \in Threats \union {"NORMAL"} :
        /\ WorkerStep(w, "analyze", IF v = "NORMAL" THEN "record" ELSE "detected")
        /\ CountVerdict(v)
        /\ result' = [result EXCEPT ![w] = [action |-> ActionFor(v), threat |-> v]]
        /\ UNCHANGED <<mainVars, g_running, capture, signalVars, running, queue,
                       hand, alerts, log, background, table, stale>>
  BY PipelineAssumption DEF Analyze
<1>2. /\ wpc[w] = "analyze" /\ wpc'[w] = IF v = "NORMAL" THEN "record" ELSE "detected"
      /\ result'[w].action = ActionFor(v)
      /\ \A x \in Workers \ {w} : wpc'[x] = wpc[x] /\ result'[x] = result[x]
      /\ log' = log /\ alerts' = alerts /\ table' = table
  BY <1>1 DEF WorkerStep, TypeOK
<1>3. ~Carries(w) /\ Carries(w)' BY <1>2 DEF Carries
<1>4. \A a \in Action : Counted(a)' = IF ActionFor(v) = a THEN Counted(a) + 1 ELSE Counted(a)
  BY <1>2, <1>3, BeginsToCarry
<1>5. Cardinality(Alerting') = Cardinality(Alerting) + IF v = "NORMAL" THEN 0 ELSE 1
  <2>1. CASE v = "NORMAL"
    <3>1. Alerting' = Alerting BY <1>2, <2>1 DEF Alerting
    <3> QED BY <2>1, <3>1, CountersAreNumbers
  <2>2. CASE v # "NORMAL"
    <3>1. Alerting' = Alerting \union {w} /\ w \notin Alerting BY <1>2, <2>2 DEF Alerting
    <3> QED BY <2>2, <3>1, CountersAreNumbers, FS_AddElement
  <2> QED BY <2>1, <2>2
<1>6. /\ metrics'.passed = metrics.passed + (IF v = "NORMAL" THEN 1 ELSE 0)
      /\ metrics'.dropped = metrics.dropped + (IF v = "DDOS_VOLUMETRIC" THEN 1 ELSE 0)
      /\ metrics'.alerted = metrics.alerted + (IF v \in {"SLOW_DDOS", "PORT_SCAN"} THEN 1 ELSE 0)
      /\ metrics'.ddos + metrics'.slow + metrics'.scan
           = metrics.ddos + metrics.slow + metrics.scan + (IF v = "NORMAL" THEN 0 ELSE 1)
      /\ metrics'.active_flows = metrics.active_flows
  <2>1. metrics \in Metrics BY DEF TypeOK
  <2>2. CASE v = "NORMAL" BY <1>1, <2>1, <2>2 DEF CountVerdict, Metrics
  <2>3. CASE v = "DDOS_VOLUMETRIC"
    <3> DEFINE m == [metrics EXCEPT !.ddos = @ + 1]
    <3>1. metrics' = [m EXCEPT !.dropped = metrics.dropped + 1] BY <1>1, <2>3 DEF CountVerdict
    <3>2. m \in Metrics /\ m.ddos = metrics.ddos + 1 BY <2>1 DEF Metrics
    <3>3. m.slow = metrics.slow /\ m.scan = metrics.scan
         /\ m.passed = metrics.passed /\ m.dropped = metrics.dropped /\ m.alerted = metrics.alerted /\ m.active_flows = metrics.active_flows
      BY <2>1 DEF Metrics
    <3> HIDE DEF m
    <3>4. /\ metrics'.ddos = metrics.ddos + 1 /\ metrics'.dropped = metrics.dropped + 1
          /\ metrics'.slow = metrics.slow /\ metrics'.scan = metrics.scan
          /\ metrics'.passed = metrics.passed /\ metrics'.alerted = metrics.alerted /\ metrics'.active_flows = metrics.active_flows
      BY <3>1, <3>2, <3>3 DEF Metrics
    <3>5. metrics.ddos \in Nat /\ metrics.slow \in Nat /\ metrics.scan \in Nat
          /\ metrics.passed \in Nat /\ metrics.dropped \in Nat /\ metrics.alerted \in Nat
      BY <2>1 DEF Metrics
    <3> QED BY <2>3, <3>4, <3>5
  <2>4. CASE v = "SLOW_DDOS"
    <3> DEFINE m == [metrics EXCEPT !.slow = @ + 1]
    <3>1. metrics' = [m EXCEPT !.alerted = metrics.alerted + 1] BY <1>1, <2>4 DEF CountVerdict
    <3>2. m \in Metrics /\ m.slow = metrics.slow + 1 BY <2>1 DEF Metrics
    <3>3. m.ddos = metrics.ddos /\ m.scan = metrics.scan
         /\ m.passed = metrics.passed /\ m.dropped = metrics.dropped /\ m.alerted = metrics.alerted /\ m.active_flows = metrics.active_flows
      BY <2>1 DEF Metrics
    <3> HIDE DEF m
    <3>4. /\ metrics'.slow = metrics.slow + 1 /\ metrics'.alerted = metrics.alerted + 1
          /\ metrics'.ddos = metrics.ddos /\ metrics'.scan = metrics.scan
          /\ metrics'.passed = metrics.passed /\ metrics'.dropped = metrics.dropped /\ metrics'.active_flows = metrics.active_flows
      BY <3>1, <3>2, <3>3 DEF Metrics
    <3>5. metrics.ddos \in Nat /\ metrics.slow \in Nat /\ metrics.scan \in Nat
          /\ metrics.passed \in Nat /\ metrics.dropped \in Nat /\ metrics.alerted \in Nat
      BY <2>1 DEF Metrics
    <3> QED BY <2>4, <3>4, <3>5
  <2>5. CASE v = "PORT_SCAN"
    <3> DEFINE m == [metrics EXCEPT !.scan = @ + 1]
    <3>1. metrics' = [m EXCEPT !.alerted = metrics.alerted + 1] BY <1>1, <2>5 DEF CountVerdict
    <3>2. m \in Metrics /\ m.scan = metrics.scan + 1 BY <2>1 DEF Metrics
    <3>3. m.ddos = metrics.ddos /\ m.slow = metrics.slow
         /\ m.passed = metrics.passed /\ m.dropped = metrics.dropped /\ m.alerted = metrics.alerted /\ m.active_flows = metrics.active_flows
      BY <2>1 DEF Metrics
    <3> HIDE DEF m
    <3>4. /\ metrics'.scan = metrics.scan + 1 /\ metrics'.alerted = metrics.alerted + 1
          /\ metrics'.ddos = metrics.ddos /\ metrics'.slow = metrics.slow
          /\ metrics'.passed = metrics.passed /\ metrics'.dropped = metrics.dropped /\ metrics'.active_flows = metrics.active_flows
      BY <3>1, <3>2, <3>3 DEF Metrics
    <3>5. metrics.ddos \in Nat /\ metrics.slow \in Nat /\ metrics.scan \in Nat
          /\ metrics.passed \in Nat /\ metrics.dropped \in Nat /\ metrics.alerted \in Nat
      BY <2>1 DEF Metrics
    <3> QED BY <2>5, <3>4, <3>5
  <2> QED BY <2>2, <2>3, <2>4, <2>5 DEF Threats
<1>7. /\ Counted("PASS")' = Counted("PASS") + (IF v = "NORMAL" THEN 1 ELSE 0)
      /\ Counted("DROP")' = Counted("DROP") + (IF v = "DDOS_VOLUMETRIC" THEN 1 ELSE 0)
      /\ Counted("ALERT")' = Counted("ALERT") + (IF v \in {"SLOW_DDOS", "PORT_SCAN"} THEN 1 ELSE 0)
  <2>1. \A a \in Action : Counted(a) \in Nat BY CountersAreNumbers DEF Counted
  <2>2. ActionFor(v) = IF v = "NORMAL" THEN "PASS"
                       ELSE IF v = "DDOS_VOLUMETRIC" THEN "DROP" ELSE "ALERT"
    BY DEF ActionFor
  <2>3. {"PASS", "DROP", "ALERT"} \subseteq Action BY DEF Action
  <2> QED BY <1>4, <2>1, <2>2, <2>3 DEF Threats
<1>8. metrics'.ddos + metrics'.slow + metrics'.scan = alerts' + Cardinality(Alerting')
  <2>1. alerts \in Nat /\ Cardinality(Alerting) \in Nat BY CountersAreNumbers DEF TypeOK
  <2> QED BY <1>2, <1>5, <1>6, <2>1 DEF CountersInv
<1> QED BY <1>2, <1>6, <1>7, <1>8 DEF CountersInv

LEMMA RaiseCounts ==
  ASSUME TypeOK, CountersInv, NEW w \in Workers, RaiseAlert(w)
  PROVE  CountersInv'
<1>1. /\ log' = log /\ alerts' = alerts + 1 /\ table' = table /\ metrics' = metrics
      /\ result' = result /\ wpc[w] = "detected" /\ wpc'[w] = "record"
      /\ \A v \in Workers \ {w} : wpc'[v] = wpc[v]
  BY DEF RaiseAlert, WorkerStep, TypeOK
<1>2. \A v \in Workers : Carries(v)' <=> Carries(v) BY <1>1 DEF Carries
<1>3. \A a : Counted(a)' = Counted(a) BY <1>1, <1>2 DEF Counted, Recorded, Carrying
<1>4. Alerting' = Alerting \ {w} /\ w \in Alerting BY <1>1 DEF Alerting
<1>5. Cardinality(Alerting') = Cardinality(Alerting) - 1
  BY <1>4, CountersAreNumbers, FS_RemoveElement
<1>6. alerts' + Cardinality(Alerting') = alerts + Cardinality(Alerting)
  <2> DEFINE c == Cardinality(Alerting)
             d == Cardinality(Alerting')
  <2>1. alerts \in Nat /\ c \in Nat BY CountersAreNumbers DEF TypeOK
  <2>2. d = c - 1 BY <1>5
  <2> HIDE DEF c, d
  <2>3. alerts' + d = alerts + c BY <1>1, <2>1, <2>2
  <2> QED BY <2>3 DEF c, d
<1> QED BY <1>1, <1>3, <1>6 DEF CountersInv

LEMMA PushCounts ==
  ASSUME TypeOK, CountersInv, NEW w \in Workers, PushRecord(w)
  PROVE  CountersInv'
<1>1. /\ log' = Append(log, makeRecord(w)) /\ alerts' = alerts /\ table' = table
      /\ metrics' = metrics /\ result' = result /\ wpc[w] = "record" /\ wpc'[w] = "loop"
      /\ \A v \in Workers \ {w} : wpc'[v] = wpc[v]
  BY DEF PushRecord, WorkerStep, TypeOK
<1> DEFINE n == Len(log)
           b == result[w].action
<1>2. /\ n \in Nat /\ DOMAIN log = 1 .. n /\ DOMAIN log' = 1 .. n + 1
      /\ log'[n + 1].action = b /\ \A k \in 1 .. n : log'[k] = log[k]
  BY <1>1, RecordType DEF TypeOK, makeRecord
<1> HIDE DEF n
<1>3. ASSUME NEW a \in Action PROVE Counted(a)' = Counted(a)
  <2>1. CASE b = a
    <3>1. Recorded(a)' = Recorded(a) \union {n + 1} /\ n + 1 \notin Recorded(a)
      BY <1>2, <2>1 DEF Recorded
    <3>2. Carrying(a)' = Carrying(a) \ {w} /\ w \in Carrying(a)
      BY <1>1, <2>1 DEF Carrying, Carries
    <3>3. Cardinality(Recorded(a)') = Cardinality(Recorded(a)) + 1
      BY <3>1, CountersAreNumbers, FS_AddElement
    <3>4. Cardinality(Carrying(a)') = Cardinality(Carrying(a)) - 1
      BY <3>2, CountersAreNumbers, FS_RemoveElement
    <3> QED BY <3>3, <3>4, CountersAreNumbers DEF Counted
  <2>2. CASE b # a
    <3>1. Recorded(a)' = Recorded(a) BY <1>2, <2>2 DEF Recorded
    <3>2. Carrying(a)' = Carrying(a) BY <1>1, <2>2 DEF Carrying, Carries
    <3> QED BY <3>1, <3>2 DEF Counted
  <2> QED BY <2>1, <2>2
<1>4. Alerting' = Alerting BY <1>1 DEF Alerting
<1> QED BY <1>1, <1>3, <1>4 DEF CountersInv, Action

LEMMA WorkerCounts ==
  ASSUME TypeOK, CountersInv, NEW w \in Workers, Worker(w)
  PROVE  CountersInv'
<1>1. CASE CheckRunning(w) \/ Pop(w) \/ PopTimesOut(w)
  <2>1. /\ log' = log /\ alerts' = alerts /\ table' = table /\ result' = result
        /\ metrics' = metrics
    BY <1>1 DEF CheckRunning, Pop, PopTimesOut
  <2>2. /\ wpc[w] \in {"loop", "pop"} /\ wpc'[w] \in {"loop", "pop", "lookup", "done"}
        /\ \A v \in Workers \ {w} : wpc'[v] = wpc[v]
    BY <1>1 DEF CheckRunning, Pop, PopTimesOut, WorkerStep, TypeOK
  <2> QED BY <2>1, <2>2, NothingCounted DEF Carries, SameCounts
<1> QED BY <1>1, LookUpCounts, RefuseCounts, AnalyzeCounts, RaiseCounts, PushCounts DEF Worker

LEMMA OthersCount == ASSUME TypeOK, CountersInv, Others PROVE CountersInv'
<1>1. log' = log /\ wpc' = wpc BY OthersLeaveThePath
<1>2. result' = result /\ alerts' = alerts
  BY DEF Others, Cleaner, SignalArrives, HandlerStopsCapture, BackgroundExits, CleanupIsDue,
         CleanupFlows, FlowGoesIdle, Exited, vars, workerVars
<1>3. CASE CleanupFlows
  <2> DEFINE gone == Cardinality(stale)
  <2>1. IsFiniteSet(table) /\ Cardinality(table) \in Nat /\ gone \in Nat
        /\ Cardinality(table') = Cardinality(table) - gone
    <3>1. IsFiniteSet(table) /\ stale \subseteq table
      BY CountersAreNumbers DEF TypeOK, FlowTableTypeOK
    <3>2. table' = table \ stale /\ table \cap stale = stale
      BY <1>3, <3>1 DEF CleanupFlows, Cleanup
    <3>3. gone \in Nat BY <3>1, FS_Subset, FS_CardinalityType
    <3>4. Cardinality(table \ stale) = Cardinality(table) - Cardinality(table \cap stale)
      BY <3>1, FS_Difference
    <3>5. Cardinality(table') = Cardinality(table) - gone BY <3>2, <3>4
    <3>6. Cardinality(table) \in Nat BY CountersAreNumbers
    <3> QED BY <3>1, <3>3, <3>5, <3>6
  <2> HIDE DEF gone
  <2>2. metrics' = [metrics EXCEPT !.active_flows = @ - gone] /\ metrics \in Metrics
    BY <1>3 DEF CleanupFlows, gone, TypeOK
  <2>3. /\ metrics'.active_flows = metrics.active_flows - gone
        /\ metrics'.passed = metrics.passed /\ metrics'.dropped = metrics.dropped
        /\ metrics'.alerted = metrics.alerted /\ metrics'.ddos = metrics.ddos
        /\ metrics'.slow = metrics.slow /\ metrics'.scan = metrics.scan
    BY <2>2 DEF Metrics
  <2>4. \A a : Counted(a)' = Counted(a)
    BY <1>1, <1>2 DEF Counted, Recorded, Carrying, Carries
  <2>5. Alerting' = Alerting BY <1>1 DEF Alerting
  <2>6. metrics'.active_flows = Cardinality(table') /\ metrics'.active_flows <= MaxFlows
    BY <2>1, <2>3, FlowTableAssumption DEF CountersInv
  <2> QED BY <1>2, <2>3, <2>4, <2>5, <2>6 DEF CountersInv
<1>4. CASE ~CleanupFlows
  <2>1. metrics' = metrics /\ table' = table
    BY <1>4 DEF Others, Cleaner, SignalArrives, HandlerStopsCapture, BackgroundExits,
       CleanupIsDue, FlowGoesIdle, GrowStale, Exited, vars
  <2> QED BY <1>1, <1>2, <2>1, NothingCounted DEF Carries, SameCounts
<1> QED BY <1>3, <1>4

LEMMA CountersNext == TypeOK /\ StopInv /\ CountersInv /\ [Next]_vars => CountersInv'
<1> SUFFICES ASSUME TypeOK, StopInv, CountersInv, [Next]_vars PROVE CountersInv'
  OBVIOUS
<1>1. CASE UNCHANGED vars
  BY <1>1, NothingCounted DEF vars, Carries, SameCounts
<1> QED BY <1>1, MainCounts, WorkerCounts, OthersCount DEF Next, Others

LEMMA CountersInvImpliesAgree == CountersInv => CountersAgree
<1> SUFFICES ASSUME CountersInv PROVE CountersAgree
  OBVIOUS
<1> QED BY DEF CountersInv, CountersAgree, Counted, Recorded, Carrying, Carries, Alerting,
               Logged, HowMany

(* The figures of the final report agree with each other, with the records *)
(* in the ring, the alerts raised and the flow table, for any number of    *)
(* workers and frames; and the table never holds more than its limit.      *)
THEOREM CountersAgreeHolds == Spec => []CountersAgree
<1>1. Spec => []TypeOK BY TypeCorrect
<1> QED BY <1>1, StopInvInit, StopInvNext, CountersInit, CountersNext,
           CountersInvImpliesAgree, PTL DEF Spec

-----------------------------------------------------------------------------
(***************************************************************************)
(* Conservation.  A frame changes place in a single step, so the sum over  *)
(* the places is the number of frames captured, at every step.  A look-up  *)
(* that the table refuses counts in queue_drops and yet stays in the       *)
(* worker's hands: those packets are taken out of the count of drops, and  *)
(* to know them the invariant has to know that an alert's threat is never  *)
(* "NORMAL".                                                               *)
(***************************************************************************)

Waiting  == UNION {{w} \X DOMAIN queue[w] : w \in Workers}
AtWork   == {w \in Workers : Busy(w)}
Refused  == {i \in DOMAIN log : log[i].action = "DROP" /\ log[i].threat = "NORMAL"}
Refusing == {w \in Workers :
               \/ wpc[w] = "refused"
               \/ /\ wpc[w] = "record"
                  /\ result[w].action = "DROP" /\ result[w].threat = "NORMAL"}

Dispatching == IF pc = "dispatch" THEN 1 ELSE 0
NumWaiting  == Cardinality(Waiting)
NumAtWork   == Cardinality(AtWork)
NumRefusals == Cardinality(Refused) + Cardinality(Refusing)
NumLogged   == Len(log)
Captured    == metrics.captured
Drops       == metrics.queue_drops

Balanced ==
  Captured = Dispatching + ignored + (Drops - NumRefusals) + NumWaiting + NumAtWork + NumLogged
AlertsHaveThreats == \A w \in Workers : wpc[w] = "detected" => result[w].threat # "NORMAL"
PlacesInv == Balanced /\ AlertsHaveThreats

LEMMA WaitingFinite == TypeOK => IsFiniteSet(Waiting)
<1> SUFFICES ASSUME TypeOK PROVE IsFiniteSet(Waiting)
  OBVIOUS
<1> DEFINE Of(w) == {w} \X DOMAIN queue[w]
           Sets  == {Of(w) : w \in Workers}
<1>1. IsFiniteSet(Workers) BY PipelineAssumption, FS_Interval DEF Workers
<1>2. IsFiniteSet(Sets)
  <2> DEFINE f == [w \in Workers |-> Of(w)]
  <2>1. f \in Surjection(Workers, Sets) BY DEF Surjection
  <2> QED BY <1>1, <2>1, FS_Surjection
<1>3. ASSUME NEW w \in Workers PROVE IsFiniteSet(Of(w))
  <2>1. DOMAIN queue[w] = 1 .. Len(queue[w]) /\ Len(queue[w]) \in Nat
    BY LenProperties DEF TypeOK
  <2>2. IsFiniteSet(DOMAIN queue[w]) BY <2>1, FS_Interval
  <2>3. IsFiniteSet({w}) BY FS_Singleton
  <2> QED BY <2>2, <2>3, FS_Product
<1>4. \A S \in Sets : IsFiniteSet(S) BY <1>3
<1>5. IsFiniteSet(UNION Sets) BY <1>2, <1>4, FS_UNION
<1> QED BY <1>5 DEF Waiting

LEMMA PlacesSetsFinite ==
  ASSUME TypeOK
  PROVE  /\ IsFiniteSet(Waiting) /\ IsFiniteSet(AtWork) /\ IsFiniteSet(Refused)
         /\ IsFiniteSet(Refusing)
         /\ Cardinality(Refused) \in Nat /\ Cardinality(Refusing) \in Nat
<1>1. IsFiniteSet(Workers) BY PipelineAssumption, FS_Interval DEF Workers
<1>2. DOMAIN log = 1 .. Len(log) /\ Len(log) \in Nat BY LenProperties DEF TypeOK
<1>3. IsFiniteSet(DOMAIN log) BY <1>2, FS_Interval
<1>4. IsFiniteSet(AtWork) /\ IsFiniteSet(Refusing) BY <1>1, FS_Subset DEF AtWork, Refusing
<1>5. IsFiniteSet(Refused) BY <1>3, FS_Subset DEF Refused
<1> QED BY <1>4, <1>5, WaitingFinite, FS_CardinalityType

LEMMA PlacesAreNumbers ==
  ASSUME TypeOK
  PROVE  /\ Captured \in Nat /\ Drops \in Nat /\ ignored \in Nat /\ Dispatching \in Nat
         /\ NumWaiting \in Nat /\ NumAtWork \in Nat /\ NumRefusals \in Nat
         /\ NumLogged \in Nat
<1>1. Len(log) \in Nat BY LenProperties DEF TypeOK
<1>2. Cardinality(Waiting) \in Nat /\ Cardinality(AtWork) \in Nat
  BY PlacesSetsFinite, FS_CardinalityType
<1>3. NumWaiting \in Nat /\ NumAtWork \in Nat /\ NumRefusals \in Nat /\ NumLogged \in Nat
  BY <1>1, <1>2, PlacesSetsFinite DEF NumWaiting, NumAtWork, NumRefusals, NumLogged
<1>4. Captured \in Nat /\ Drops \in Nat BY DEF TypeOK, Metrics, Captured, Drops
<1> QED BY <1>3, <1>4 DEF TypeOK, Dispatching

LEMMA PlacesInit == Init => PlacesInv
<1> SUFFICES ASSUME Init PROVE PlacesInv
  OBVIOUS
<1>1. Waiting = {} /\ AtWork = {} /\ Refused = {} /\ Refusing = {}
  BY DEF Init, Waiting, AtWork, Busy, Refused, Refusing
<1>2. NumWaiting = 0 /\ NumAtWork = 0 /\ NumRefusals = 0
  BY <1>1, FS_EmptySet DEF NumWaiting, NumAtWork, NumRefusals
<1>3. NumLogged = 0 /\ Dispatching = 0 /\ Captured = 0 /\ Drops = 0 /\ ignored = 0
  BY DEF Init, NumLogged, Dispatching, Captured, Drops
<1>4. AlertsHaveThreats BY DEF Init, AlertsHaveThreats
<1> QED BY <1>2, <1>3, <1>4 DEF PlacesInv, Balanced

(* What the workers have, when none of them takes a step.                  *)
SameWork == /\ NumWaiting' = NumWaiting /\ NumAtWork' = NumAtWork
            /\ NumRefusals' = NumRefusals /\ NumLogged' = NumLogged

LEMMA WorkersStandStill ==
  ASSUME log' = log, result' = result, queue' = queue,
         \A w \in Workers : /\ Busy(w)' <=> Busy(w)
                            /\ wpc'[w] = "refused" <=> wpc[w] = "refused"
                            /\ wpc'[w] = "record" <=> wpc[w] = "record"
  PROVE  SameWork
<1>1. Waiting' = Waiting BY DEF Waiting
<1>2. AtWork' = AtWork BY DEF AtWork
<1>3. Refused' = Refused /\ Refusing' = Refusing BY DEF Refused, Refusing
<1> QED BY <1>1, <1>2, <1>3 DEF SameWork, NumWaiting, NumAtWork, NumRefusals, NumLogged

(* A frame that enters a queue waits there, beside those before it.        *)
LEMMA OneMoreWaits ==
  ASSUME TypeOK, NEW w \in Workers, NEW p \in Frame,
         queue' = [queue EXCEPT ![w] = Append(@, p)]
  PROVE  NumWaiting' = NumWaiting + 1
<1> DEFINE n == Len(queue[w])
<1>1. /\ n \in Nat /\ DOMAIN queue[w] = 1 .. n
      /\ DOMAIN Append(queue[w], p) = 1 .. n + 1
  BY AppendProperties, LenProperties DEF TypeOK
<1>2. /\ queue'[w] = Append(queue[w], p)
      /\ \A v \in Workers \ {w} : queue'[v] = queue[v]
  BY DEF TypeOK
<1> HIDE DEF n
<1>3. DOMAIN queue'[w] = DOMAIN queue[w] \union {n + 1} /\ n + 1 \notin DOMAIN queue[w]
  BY <1>1, <1>2
<1>4. <<w, n + 1>> \notin Waiting BY <1>3 DEF Waiting
<1>5. Waiting' = Waiting \union {<<w, n + 1>>}
  <2>1. \A v \in Workers : {v} \X DOMAIN queue'[v] =
          IF v = w THEN ({v} \X DOMAIN queue[v]) \union {<<w, n + 1>>}
                   ELSE {v} \X DOMAIN queue[v]
    BY <1>2, <1>3
  <2> QED BY <2>1 DEF Waiting
<1>6. Cardinality(Waiting') = Cardinality(Waiting) + 1
  BY <1>4, <1>5, WaitingFinite, FS_AddElement
<1> QED BY <1>6 DEF NumWaiting

(* A frame that is popped waits no more; the others move up.               *)
LEMMA OneLessWaits ==
  ASSUME TypeOK, NEW w \in Workers, queue[w] # << >>,
         queue' = [queue EXCEPT ![w] = Tail(@)]
  PROVE  NumWaiting' = NumWaiting - 1
<1> DEFINE n == Len(queue[w])
<1>1. /\ n \in Nat /\ n > 0 /\ DOMAIN queue[w] = 1 .. n
      /\ DOMAIN Tail(queue[w]) = 1 .. n - 1
  <2>1. queue[w] \in Seq(Frame) BY DEF TypeOK
  <2>2. Tail(queue[w]) \in Seq(Frame) /\ Len(Tail(queue[w])) = n - 1
    BY <2>1, HeadTailProperties
  <2>3. n \in Nat /\ n # 0 /\ DOMAIN queue[w] = 1 .. n BY <2>1, EmptySeq, LenProperties
  <2> QED BY <2>2, <2>3, LenProperties
<1>2. /\ queue'[w] = Tail(queue[w])
      /\ \A v \in Workers \ {w} : queue'[v] = queue[v]
  BY DEF TypeOK
<1> HIDE DEF n
<1>3. DOMAIN queue'[w] = DOMAIN queue[w] \ {n} /\ n \in DOMAIN queue[w]
  <2>1. 1 .. n - 1 = (1 .. n) \ {n} /\ n \in 1 .. n
    <3>1. n \in Nat /\ n > 0 BY <1>1
    <3> QED BY <3>1
  <2>2. DOMAIN queue'[w] = 1 .. n - 1 /\ DOMAIN queue[w] = 1 .. n BY <1>1, <1>2
  <2> QED BY <2>1, <2>2
<1>4. <<w, n>> \in Waiting BY <1>3 DEF Waiting
<1>5. Waiting' = Waiting \ {<<w, n>>}
  <2>1. \A v \in Workers : {v} \X DOMAIN queue'[v] =
          IF v = w THEN ({v} \X DOMAIN queue[v]) \ {<<w, n>>}
                   ELSE {v} \X DOMAIN queue[v]
    BY <1>2, <1>3
  <2> QED BY <2>1 DEF Waiting
<1>6. Cardinality(Waiting') = Cardinality(Waiting) - 1
  BY <1>4, <1>5, WaitingFinite, FS_RemoveElement
<1> QED BY <1>6 DEF NumWaiting

(* A counter of the report that no place depends on.                       *)
LEMMA CountPlaces ==
  ASSUME metrics \in Metrics,
         NEW c \in {"captured", "dropped", "queue_drops", "active_flows"}, Count(c)
  PROVE  /\ Captured' = IF c = "captured" THEN Captured + 1 ELSE Captured
         /\ Drops' = IF c = "queue_drops" THEN Drops + 1 ELSE Drops
  BY DEF Metrics, Count, Captured, Drops

LEMMA MainKeepsPlaces ==
  ASSUME TypeOK, TypeOK', StopInv, PlacesInv, Main
  PROVE  PlacesInv'
<1> USE DEF workerVars, PlacesInv
<1>0. metrics \in Metrics BY DEF TypeOK
<1>1. AlertsHaveThreats'
  <2>1. result' = result /\ (wpc' = wpc \/ \A w \in Workers : wpc'[w] = "loop")
    BY DEF Main, StartDispatcher, PublishCapture, OpenCapture, StartCapture, ReceiveFrame,
       PcapCallback, Dispatch, LoopEnds, BeginShutdown, StopDispatcher, StopWorker,
       JoinWorker, JoinBackground
  <2> QED BY <2>1 DEF AlertsHaveThreats
(* Main moves no worker: those it starts were off.                         *)
<1>2. /\ log' = log /\ result' = result
      /\ \A w \in Workers : /\ Busy(w)' <=> Busy(w)
                            /\ wpc'[w] = "refused" <=> wpc[w] = "refused"
                            /\ wpc'[w] = "record" <=> wpc[w] = "record"
  <2>1. CASE StartDispatcher
    <3>1. \A w \in Workers : wpc[w] = "off" /\ wpc'[w] = "loop"
      BY <2>1 DEF StartDispatcher, StopInv
    <3> QED BY <2>1, <3>1 DEF StartDispatcher, Busy
  <2>2. CASE ~StartDispatcher
    <3>1. wpc' = wpc /\ log' = log /\ result' = result
      BY <2>2
      DEF Main, PublishCapture, OpenCapture, StartCapture, ReceiveFrame,
          PcapCallback, Dispatch, LoopEnds, BeginShutdown, StopDispatcher, StopWorker,
          JoinWorker, JoinBackground
    <3> QED BY <3>1 DEF Busy
  <2> QED BY <2>1, <2>2
<1>3. CASE PcapCallback
  <2>1. SameWork BY <1>2, <1>3, WorkersStandStill DEF PcapCallback
  <2>2. Dispatching = 0 /\ ignored' = ignored BY <1>3 DEF PcapCallback, Dispatching
  <2>3. CASE capture.running
    <3>1. Captured' = Captured + 1 /\ Drops' = Drops
      BY <1>0, <1>3, <2>3, CountPlaces DEF PcapCallback
    <3>2. Dispatching' = 1 BY <1>3, <2>3 DEF PcapCallback, Dispatching
    <3>3. Balanced' BY <2>1, <2>2, <3>1, <3>2, PlacesAreNumbers DEF Balanced, SameWork
    <3> QED BY <1>1, <3>3
  <2>4. CASE ~capture.running
    <3>1. Captured' = Captured /\ Drops' = Drops /\ Dispatching' = 0
      BY <1>3, <2>4 DEF PcapCallback, Captured, Drops, Dispatching
    <3>2. Balanced' BY <2>1, <2>2, <3>1, PlacesAreNumbers DEF Balanced, SameWork
    <3> QED BY <1>1, <3>2
  <2> QED BY <2>3, <2>4
<1>4. CASE Dispatch
  <2> DEFINE w == hashToWorker(frame)
  <2>0. w \in Workers /\ frame \in Frame BY FrameFields DEF TypeOK
  <2>1. Dispatching = 1 /\ Dispatching' = 0 BY <1>4 DEF Dispatch, Dispatching
  <2>2. CASE g_running /\ dispatching /\ Len(queue[w]) < QueueSize
    <3>1. /\ queue' = [queue EXCEPT ![w] = Append(@, frame)]
          /\ ignored' = ignored /\ metrics' = metrics
      BY <1>4, <2>2 DEF Dispatch, Enqueue
    <3>2. NumWaiting' = NumWaiting + 1 BY <2>0, <3>1, OneMoreWaits
    <3>3. NumAtWork' = NumAtWork /\ NumRefusals' = NumRefusals /\ NumLogged' = NumLogged
      BY <1>2 DEF NumAtWork, NumRefusals, NumLogged, AtWork, Refused, Refusing
    <3>4. Captured' = Captured /\ Drops' = Drops BY <3>1 DEF Captured, Drops
    <3>5. Balanced' BY <2>1, <3>1, <3>2, <3>3, <3>4, PlacesAreNumbers DEF Balanced
    <3> QED BY <1>1, <3>5
  <2>3. CASE g_running /\ dispatching /\ ~(Len(queue[w]) < QueueSize)
    <3>1. queue' = queue /\ ignored' = ignored /\ Count("queue_drops")
      BY <1>4, <2>3 DEF Dispatch, Enqueue
    <3>2. Captured' = Captured /\ Drops' = Drops + 1 BY <1>0, <3>1, CountPlaces
    <3>3. SameWork BY <1>2, <3>1, WorkersStandStill
    <3>4. Balanced' BY <2>1, <3>1, <3>2, <3>3, PlacesAreNumbers DEF Balanced, SameWork
    <3> QED BY <1>1, <3>4
  <2>4. CASE ~(g_running /\ dispatching)
    <3>1. queue' = queue /\ ignored' = ignored + 1 /\ metrics' = metrics
      BY <1>4, <2>4 DEF Dispatch
    <3>2. SameWork BY <1>2, <3>1, WorkersStandStill
    <3>3. Captured' = Captured /\ Drops' = Drops BY <3>1 DEF Captured, Drops
    <3>4. Balanced' BY <2>1, <3>1, <3>2, <3>3, PlacesAreNumbers DEF Balanced, SameWork
    <3> QED BY <1>1, <3>4
  <2> QED BY <2>2, <2>3, <2>4
<1>5. CASE ~PcapCallback /\ ~Dispatch
  <2>1. queue' = queue /\ metrics' = metrics /\ ignored' = ignored
        /\ pc # "dispatch" /\ pc' # "dispatch"
    BY <1>5
    DEF Main, StartDispatcher, PublishCapture, OpenCapture, StartCapture, ReceiveFrame,
        LoopEnds, BeginShutdown, StopDispatcher, StopWorker, JoinWorker, JoinBackground
  <2>2. SameWork BY <1>2, <2>1, WorkersStandStill
  <2>3. Captured' = Captured /\ Drops' = Drops /\ Dispatching' = Dispatching
    BY <2>1 DEF Captured, Drops, Dispatching
  <2>4. Balanced' BY <2>1, <2>2, <2>3 DEF Balanced, SameWork
  <2> QED BY <1>1, <2>4
<1> QED BY <1>3, <1>4, <1>5

(* A worker that takes a packet is at work until it has pushed its record. *)
LEMMA TakesUpWork ==
  ASSUME TypeOK, NEW w \in Workers, ~Busy(w), Busy(w)',
         \A v \in Workers \ {w} : wpc'[v] = wpc[v]
  PROVE  NumAtWork' = NumAtWork + 1
<1>1. AtWork' = AtWork \union {w} /\ w \notin AtWork BY DEF AtWork, Busy
<1> QED BY <1>1, PlacesSetsFinite, FS_AddElement DEF NumAtWork

LEMMA EndsWork ==
  ASSUME TypeOK, NEW w \in Workers, Busy(w), ~Busy(w)',
         \A v \in Workers \ {w} : wpc'[v] = wpc[v]
  PROVE  NumAtWork' = NumAtWork - 1
<1>1. AtWork' = AtWork \ {w} /\ w \in AtWork BY DEF AtWork, Busy
<1> QED BY <1>1, PlacesSetsFinite, FS_RemoveElement DEF NumAtWork

LEMMA PopKeepsPlaces ==
  ASSUME TypeOK, TypeOK', PlacesInv, NEW w \in Workers, Pop(w)
  PROVE  PlacesInv'
<1>1. /\ wpc[w] = "pop" /\ wpc'[w] = "lookup" /\ \A v \in Workers \ {w} : wpc'[v] = wpc[v]
      /\ log' = log /\ result' = result /\ metrics' = metrics /\ pc' = pc /\ ignored' = ignored
  BY DEF Pop, WorkerStep, TypeOK, mainVars
<1>2. NumWaiting' = NumWaiting - 1 BY OneLessWaits DEF Pop
<1>3. NumAtWork' = NumAtWork + 1 BY <1>1, TakesUpWork DEF Busy
<1>4. Refused' = Refused /\ Refusing' = Refusing BY <1>1 DEF Refused, Refusing
<1>5. NumRefusals' = NumRefusals /\ NumLogged' = NumLogged
  BY <1>1, <1>4 DEF NumRefusals, NumLogged
<1>6. Captured' = Captured /\ Drops' = Drops /\ Dispatching' = Dispatching
  BY <1>1 DEF Captured, Drops, Dispatching
<1>7. Balanced'
  BY <1>1, <1>2, <1>3, <1>5, <1>6, PlacesAreNumbers DEF Balanced, PlacesInv
<1>8. AlertsHaveThreats' BY <1>1 DEF AlertsHaveThreats, PlacesInv
<1> QED BY <1>7, <1>8 DEF PlacesInv

LEMMA LookUpKeepsPlaces ==
  ASSUME TypeOK, TypeOK', PlacesInv, NEW w \in Workers, LookUp(w)
  PROVE  PlacesInv'
<1>0. metrics \in Metrics BY DEF TypeOK
<1>1. /\ wpc[w] = "lookup" /\ wpc'[w] \in {"analyze", "refused"}
      /\ \A v \in Workers \ {w} : wpc'[v] = wpc[v]
      /\ log' = log /\ result' = result /\ queue' = queue /\ pc' = pc /\ ignored' = ignored
  BY DEF LookUp, WorkerStep, TypeOK, mainVars
<1>2. AlertsHaveThreats' BY <1>1 DEF AlertsHaveThreats, PlacesInv
<1>3. Dispatching' = Dispatching BY <1>1 DEF Dispatching
<1>4. CASE wpc'[w] = "analyze"
  <2>1. SameWork BY <1>1, <1>4, WorkersStandStill DEF Busy
  <2>2. UNCHANGED metrics \/ Count("active_flows")
    BY <1>4 DEF LookUp, WorkerStep, TypeOK
  <2>3. Captured' = Captured /\ Drops' = Drops
    BY <1>0, <2>2, CountPlaces DEF Captured, Drops
  <2>4. Balanced' BY <1>1, <1>3, <2>1, <2>3 DEF Balanced, PlacesInv, SameWork
  <2> QED BY <1>2, <2>4 DEF PlacesInv
<1>5. CASE wpc'[w] = "refused"
  <2>1. Count("queue_drops") BY <1>5 DEF LookUp, WorkerStep, TypeOK
  <2>2. Captured' = Captured /\ Drops' = Drops + 1 BY <1>0, <2>1, CountPlaces
  <2>3. Waiting' = Waiting /\ AtWork' = AtWork /\ Refused' = Refused
    BY <1>1, <1>5 DEF Waiting, AtWork, Busy, Refused
  <2>4. Refusing' = Refusing \union {w} /\ w \notin Refusing
    BY <1>1, <1>5 DEF Refusing
  <2>5. Cardinality(Refusing') = Cardinality(Refusing) + 1
    BY <2>4, PlacesSetsFinite, FS_AddElement
  <2>6. NumRefusals' = NumRefusals + 1
    BY <2>3, <2>5, PlacesSetsFinite DEF NumRefusals
  <2>7. NumWaiting' = NumWaiting /\ NumAtWork' = NumAtWork /\ NumLogged' = NumLogged
    BY <1>1, <2>3 DEF NumWaiting, NumAtWork, NumLogged
  <2>8. Balanced'
    BY <1>1, <1>3, <2>2, <2>6, <2>7, PlacesAreNumbers DEF Balanced, PlacesInv
  <2> QED BY <1>2, <2>8 DEF PlacesInv
<1> QED BY <1>1, <1>4, <1>5

LEMMA RefuseKeepsPlaces ==
  ASSUME TypeOK, TypeOK', PlacesInv, NEW w \in Workers, RefuseFlow(w)
  PROVE  PlacesInv'
<1>0. metrics \in Metrics BY DEF TypeOK
<1>1. /\ wpc[w] = "refused" /\ wpc'[w] = "record"
      /\ result'[w].action = "DROP" /\ result'[w].threat = "NORMAL"
      /\ \A v \in Workers \ {w} : wpc'[v] = wpc[v] /\ result'[v] = result[v]
      /\ log' = log /\ queue' = queue /\ pc' = pc /\ ignored' = ignored
  BY DEF RefuseFlow, WorkerStep, TypeOK, mainVars
<1>2. AlertsHaveThreats' BY <1>1 DEF AlertsHaveThreats, PlacesInv
<1>3. Waiting' = Waiting /\ AtWork' = AtWork /\ Refused' = Refused
  BY <1>1 DEF Waiting, AtWork, Busy, Refused
<1>4. Refusing' = Refusing BY <1>1 DEF Refusing
<1>5. SameWork
  BY <1>1, <1>3, <1>4 DEF SameWork, NumWaiting, NumAtWork, NumRefusals, NumLogged
<1>6. Captured' = Captured /\ Drops' = Drops BY <1>0, CountPlaces DEF RefuseFlow
<1>7. Dispatching' = Dispatching BY <1>1 DEF Dispatching
<1>8. Balanced' BY <1>1, <1>5, <1>6, <1>7 DEF Balanced, PlacesInv, SameWork
<1> QED BY <1>2, <1>8 DEF PlacesInv

LEMMA VerdictKeepsPlaces ==
  ASSUME metrics \in Metrics, NEW v \in Threats \union {"NORMAL"}, CountVerdict(v)
  PROVE  Captured' = Captured /\ Drops' = Drops
<1>1. Captured' = Captured BY CountVerdictType DEF Captured
<1>2. Drops' = Drops BY DEF Threats, CountVerdict, Metrics, Drops
<1> QED BY <1>1, <1>2

LEMMA AnalyzeKeepsPlaces ==
  ASSUME TypeOK, TypeOK', PlacesInv, NEW w \in Workers, Analyze(w)
  PROVE  PlacesInv'
<1>0. metrics \in Metrics BY DEF TypeOK
<1>1. PICK t \in Threats \union {"NORMAL"} :
        /\ WorkerStep(w, "analyze", IF t = "NORMAL" THEN "record" ELSE "detected")
        /\ CountVerdict(t)
        /\ result' = [result EXCEPT ![w] = [action |-> ActionFor(t), threat |-> t]]
        /\ UNCHANGED <<mainVars, g_running, capture, signalVars, running, queue,
                       hand, alerts, log, background, table, stale>>
  BY PipelineAssumption DEF Analyze
<1>2. /\ wpc[w] = "analyze" /\ wpc'[w] = IF t = "NORMAL" THEN "record" ELSE "detected"
      /\ result'[w].action = ActionFor(t) /\ result'[w].threat = t
      /\ \A v \in Workers \ {w} : wpc'[v] = wpc[v] /\ result'[v] = result[v]
      /\ log' = log /\ queue' = queue /\ pc' = pc /\ ignored' = ignored
  BY <1>1 DEF WorkerStep, TypeOK, mainVars
<1>3. AlertsHaveThreats' BY <1>2 DEF AlertsHaveThreats, PlacesInv
<1>4. Waiting' = Waiting /\ AtWork' = AtWork /\ Refused' = Refused
  BY <1>2 DEF Waiting, AtWork, Busy, Refused
<1>5. Refusing' = Refusing
  <2>1. t = "NORMAL" => ActionFor(t) = "PASS" BY DEF ActionFor
  <2> QED BY <1>2, <2>1 DEF Refusing
<1>6. SameWork
  BY <1>2, <1>4, <1>5 DEF SameWork, NumWaiting, NumAtWork, NumRefusals, NumLogged
<1>7. Captured' = Captured /\ Drops' = Drops BY <1>0, <1>1, VerdictKeepsPlaces
<1>8. Dispatching' = Dispatching BY <1>2 DEF Dispatching
<1>9. Balanced' BY <1>2, <1>6, <1>7, <1>8 DEF Balanced, PlacesInv, SameWork
<1> QED BY <1>3, <1>9 DEF PlacesInv

LEMMA RaiseKeepsPlaces ==
  ASSUME TypeOK, TypeOK', PlacesInv, NEW w \in Workers, RaiseAlert(w)
  PROVE  PlacesInv'
<1>1. /\ wpc[w] = "detected" /\ wpc'[w] = "record"
      /\ \A v \in Workers \ {w} : wpc'[v] = wpc[v]
      /\ log' = log /\ queue' = queue /\ pc' = pc /\ ignored' = ignored
      /\ result' = result /\ metrics' = metrics
  BY DEF RaiseAlert, WorkerStep, TypeOK, mainVars
<1>2. AlertsHaveThreats' BY <1>1 DEF AlertsHaveThreats, PlacesInv
<1>3. Waiting' = Waiting /\ AtWork' = AtWork /\ Refused' = Refused
  BY <1>1 DEF Waiting, AtWork, Busy, Refused
<1>4. Refusing' = Refusing BY <1>1 DEF Refusing, PlacesInv, AlertsHaveThreats
<1>5. SameWork
  BY <1>1, <1>3, <1>4 DEF SameWork, NumWaiting, NumAtWork, NumRefusals, NumLogged
<1>6. Captured' = Captured /\ Drops' = Drops /\ Dispatching' = Dispatching
  BY <1>1 DEF Captured, Drops, Dispatching
<1>7. Balanced' BY <1>1, <1>5, <1>6 DEF Balanced, PlacesInv, SameWork
<1> QED BY <1>2, <1>7 DEF PlacesInv

LEMMA PushKeepsPlaces ==
  ASSUME TypeOK, TypeOK', PlacesInv, NEW w \in Workers, PushRecord(w)
  PROVE  PlacesInv'
<1>1. /\ wpc[w] = "record" /\ wpc'[w] = "loop"
      /\ \A v \in Workers \ {w} : wpc'[v] = wpc[v]
      /\ log' = Append(log, makeRecord(w)) /\ queue' = queue /\ pc' = pc
      /\ ignored' = ignored /\ result' = result /\ metrics' = metrics
  BY DEF PushRecord, WorkerStep, TypeOK, mainVars
<1>2. AlertsHaveThreats' BY <1>1 DEF AlertsHaveThreats, PlacesInv
<1> DEFINE n == Len(log)
           refusal == result[w].action = "DROP" /\ result[w].threat = "NORMAL"
<1>3. /\ n \in Nat /\ DOMAIN log = 1 .. n /\ DOMAIN log' = 1 .. n + 1 /\ Len(log') = n + 1
      /\ (log'[n + 1].action = "DROP" /\ log'[n + 1].threat = "NORMAL") <=> refusal
      /\ \A k \in 1 .. n : log'[k] = log[k]
  BY <1>1, RecordType DEF TypeOK, makeRecord
<1> HIDE DEF n, refusal
<1>4. NumRefusals' = NumRefusals
  <2>1. CASE refusal
    <3>1. Refused' = Refused \union {n + 1} /\ n + 1 \notin Refused
      BY <1>3, <2>1 DEF Refused
    <3>2. Refusing' = Refusing \ {w} /\ w \in Refusing
      BY <1>1, <2>1 DEF Refusing, refusal
    <3>3. Cardinality(Refused') = Cardinality(Refused) + 1
      BY <3>1, PlacesSetsFinite, FS_AddElement
    <3>4. Cardinality(Refusing') = Cardinality(Refusing) - 1
      BY <3>2, PlacesSetsFinite, FS_RemoveElement
    <3> QED BY <3>3, <3>4, PlacesSetsFinite DEF NumRefusals
  <2>2. CASE ~refusal
    <3>1. Refused' = Refused BY <1>3, <2>2 DEF Refused
    <3>2. Refusing' = Refusing BY <1>1, <2>2 DEF Refusing, refusal
    <3> QED BY <3>1, <3>2 DEF NumRefusals
  <2> QED BY <2>1, <2>2
<1>5. NumLogged' = NumLogged + 1 BY <1>3 DEF NumLogged, n
<1>6. NumAtWork' = NumAtWork - 1 BY <1>1, EndsWork DEF Busy
<1>7. NumWaiting' = NumWaiting BY <1>1 DEF NumWaiting, Waiting
<1>8. Captured' = Captured /\ Drops' = Drops /\ Dispatching' = Dispatching
  BY <1>1 DEF Captured, Drops, Dispatching
<1>9. Balanced'
  <2>1. ignored' = ignored BY <1>1
  <2> QED BY <2>1, <1>4, <1>5, <1>6, <1>7, <1>8, PlacesAreNumbers DEF Balanced, PlacesInv
<1> QED BY <1>2, <1>9 DEF PlacesInv

LEMMA WorkerKeepsPlaces ==
  ASSUME TypeOK, TypeOK', PlacesInv, NEW w \in Workers, Worker(w)
  PROVE  PlacesInv'
<1>1. CASE CheckRunning(w) \/ PopTimesOut(w)
  <2>1. /\ log' = log /\ queue' = queue /\ pc' = pc /\ ignored' = ignored
        /\ result' = result /\ metrics' = metrics
    BY <1>1 DEF CheckRunning, PopTimesOut, mainVars
  <2>2. /\ wpc[w] \in {"loop", "pop"} /\ wpc'[w] \in {"loop", "pop", "done"}
        /\ \A v \in Workers \ {w} : wpc'[v] = wpc[v]
    BY <1>1 DEF CheckRunning, PopTimesOut, WorkerStep, TypeOK
  <2>3. SameWork BY <2>1, <2>2, WorkersStandStill DEF Busy
  <2>4. Captured' = Captured /\ Drops' = Drops /\ Dispatching' = Dispatching
    BY <2>1 DEF Captured, Drops, Dispatching
  <2>5. Balanced' BY <2>1, <2>3, <2>4 DEF Balanced, PlacesInv, SameWork
  <2>6. AlertsHaveThreats' BY <2>1, <2>2 DEF AlertsHaveThreats, PlacesInv
  <2> QED BY <2>5, <2>6 DEF PlacesInv
<1> QED BY <1>1, PopKeepsPlaces, LookUpKeepsPlaces, RefuseKeepsPlaces, AnalyzeKeepsPlaces,
           RaiseKeepsPlaces, PushKeepsPlaces DEF Worker

LEMMA OthersKeepPlaces == ASSUME TypeOK, PlacesInv, Others PROVE PlacesInv'
<1>1. pc' = pc /\ log' = log /\ wpc' = wpc /\ queue' = queue BY OthersLeaveThePath
<1>2. result' = result /\ ignored' = ignored
  BY DEF Others, Cleaner, SignalArrives, HandlerStopsCapture, BackgroundExits, CleanupIsDue,
         CleanupFlows, FlowGoesIdle, Exited, vars, workerVars, mainVars
<1>3. metrics' = metrics \/ metrics' = [metrics EXCEPT !.active_flows = @ - Cardinality(stale)]
  BY DEF Others, Cleaner, SignalArrives, HandlerStopsCapture, BackgroundExits, CleanupIsDue,
         CleanupFlows, FlowGoesIdle, Exited, vars
<1>4. Captured' = Captured /\ Drops' = Drops
  <2>1. metrics \in Metrics BY DEF TypeOK
  <2> QED BY <1>3, <2>1 DEF Captured, Drops, Metrics
<1>5. SameWork BY <1>1, <1>2, WorkersStandStill DEF Busy
<1>6. Dispatching' = Dispatching BY <1>1 DEF Dispatching
<1>7. Balanced' BY <1>2, <1>4, <1>5, <1>6 DEF Balanced, PlacesInv, SameWork
<1>8. AlertsHaveThreats' BY <1>1, <1>2 DEF AlertsHaveThreats, PlacesInv
<1> QED BY <1>7, <1>8 DEF PlacesInv

LEMMA PlacesNext == TypeOK /\ TypeOK' /\ StopInv /\ PlacesInv /\ [Next]_vars => PlacesInv'
<1> SUFFICES ASSUME TypeOK, TypeOK', StopInv, PlacesInv, [Next]_vars PROVE PlacesInv'
  OBVIOUS
<1>1. CASE UNCHANGED vars
  <2>1. SameWork BY <1>1, WorkersStandStill DEF vars, Busy
  <2> QED BY <1>1, <2>1
      DEF vars, PlacesInv, Balanced, AlertsHaveThreats, SameWork, Captured, Drops, Dispatching
<1> QED BY <1>1, MainKeepsPlaces, WorkerKeepsPlaces, OthersKeepPlaces DEF Next, Others

LEMMA PlacesInvImpliesConservation == PlacesInv => Conservation
<1> SUFFICES ASSUME PlacesInv PROVE Conservation
  OBVIOUS
<1>1. RefusedByTable = NumRefusals
  BY DEF RefusedByTable, Logged, HowMany, NumRefusals, Refused, Refusing
<1>2. HowMany(Busy) = NumAtWork BY DEF HowMany, NumAtWork, AtWork
<1> QED BY <1>1, <1>2
    DEF PlacesInv, Balanced, Conservation, Captured, Drops, Dispatching, NumWaiting, Waiting,
        NumLogged

(* No captured frame is lost or counted in two places, for any number of   *)
(* workers, queues of any size (none at all included) and any hash: each   *)
(* is being dispatched, ignored, refused, queued, in hand or recorded.     *)
THEOREM ConservationHolds == Spec => []Conservation
<1>1. Spec => []TypeOK BY TypeCorrect
<1> QED BY <1>1, StopInvInit, StopInvNext, PlacesInit, PlacesNext,
           PlacesInvImpliesConservation, PTL DEF Spec
=============================================================================
