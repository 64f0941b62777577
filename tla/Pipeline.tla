------------------------------ MODULE Pipeline ------------------------------
(***************************************************************************)
(* The headless program (main.cpp) from its start to its exit, run with    *)
(* --no-l2: the main thread captures frames and dispatches them by flow    *)
(* hash to worker threads; each worker looks the flow up, judges the       *)
(* packet, counts it, raises an alert and pushes a record into the packet  *)
(* ring; a cleanup thread erases idle flows; SIGINT may arrive at any      *)
(* time; at the end the main thread stops and joins everything.            *)
(*                                                                         *)
(* One step is one access to shared memory (an atomic, or a section under  *)
(* a mutex), but for two: Dispatch tests the two flags and enqueues,       *)
(* CountVerdict adds to the two counters of a verdict.  The rules of       *)
(* signature_engine.cpp and protocol_anomaly.cpp are abstracted to the     *)
(* verdict they may return; the ring is abstracted to the log of its       *)
(* pushes (module PacketRing has its slots).                               *)
(***************************************************************************)
EXTENDS FlowTable, Sequences

CONSTANTS NumWorkers,   \* num_workers_
          Hash,         \* the 5-tuple hash of hashToWorker, before the modulus
          QueueSize,    \* max_size_ of each PacketQueue
          Verdicts,     \* what the rules may return
          MaxFrames,    \* bound: frames the source delivers
          MaxSignals    \* bound: deliveries of SIGINT/SIGTERM/SIGHUP

Threats == {"DDOS_VOLUMETRIC", "SLOW_DDOS", "PORT_SCAN"}

ASSUME PipelineAssumption == /\ NumWorkers \in Nat \ {0}
                             /\ Hash \in [Flows -> Nat]
                             /\ QueueSize \in Nat
                             /\ Verdicts \subseteq Threats \union {"NORMAL"}
                             /\ MaxFrames \in Nat
                             /\ MaxSignals \in Nat

Workers  == 0 .. NumWorkers - 1
Frame    == [no : Nat, flow : Flows]     \* no: its position in the capture
NoFrame  == [no |-> 0, flow |-> CHOOSE f \in Flows : TRUE]
Action   == {"PASS", "ALERT", "DROP"}
Result   == [action : Action, threat : Threats \union {"NORMAL"}]
Record   == [no : Nat, flow : Flows, action : Action,
             threat : Threats \union {"NORMAL"}]

VARIABLES
  mode,        \* cfg.mode: "-i" live, "-f" a capture file
  g_running,   \* the global stop flag
  published,   \* g_capture_ptr # nullptr
  capture,     \* PacketCapture: running_ and libpcap's break_loop flag
  pc,          \* where the main thread is
  frame,       \* the frame in pcapCallback's hands
  handler,     \* the signal handler: "idle", or "stop" between its two effects
  signals,     \* signals delivered so far
  dispatching, \* Dispatcher::running_
  stopping,    \* the worker Dispatcher::stop is at
  running,     \* WorkerThread::running_, per worker
  queue,       \* PacketQueue, per worker
  wpc,         \* where each worker thread is
  hand,        \* the packet each worker last popped
  result,      \* what its record will say
  background,  \* the state of the stats and cleanup threads
  metrics,     \* SystemMetrics
  ignored,     \* frames captured and not dispatched since g_running was false
  alerts,      \* calls of AlertManager::addL1Alert
  log          \* the records pushed into the packet ring, oldest first

mainVars    == <<mode, published, pc, frame, dispatching, stopping, ignored>>
signalVars  == <<handler, signals>>
workerVars  == <<wpc, hand, result, alerts, log>>
vars == <<mode, g_running, published, capture, pc, frame, handler, signals,
          dispatching, stopping, running, queue, wpc, hand, result,
          background, metrics, ignored, alerts, log, table, stale>>

Metrics == [captured : Nat, passed : Nat, dropped : Nat, alerted : Nat,
            ddos : Nat, slow : Nat, scan : Nat,
            queue_drops : Nat, active_flows : Int]

BackgroundThreads == {"stats", "cleanup"}

TypeOK ==
  /\ FlowTableTypeOK
  /\ mode \in {"-i", "-f"}
  /\ g_running \in BOOLEAN /\ published \in BOOLEAN /\ dispatching \in BOOLEAN
  /\ capture \in [running : BOOLEAN, break_loop : BOOLEAN]
  /\ pc \in {"start", "publish", "open", "startCapture", "loop", "callback",
             "dispatch", "shutdown", "stopDispatcher",
             "stopWorker", "joinWorker", "joinBackground", "done"}
  /\ frame \in Frame
  /\ handler \in {"idle", "stop"} /\ signals \in Nat
  /\ stopping \in Workers
  /\ running \in [Workers -> BOOLEAN]
  /\ queue \in [Workers -> Seq(Frame)]
  /\ wpc \in [Workers -> {"off", "loop", "pop", "lookup", "refused", "analyze",
                          "detected", "record", "done"}]
  /\ hand \in [Workers -> Frame]
  /\ result \in [Workers -> Result]
  /\ background \in [BackgroundThreads -> {"off", "run", "sweep", "done"}]
  /\ metrics \in Metrics
  /\ ignored \in Nat /\ alerts \in Nat
  /\ log \in Seq(Record)

Init ==
  /\ FlowTableInit
  /\ mode \in {"-i", "-f"}
  /\ g_running = TRUE
  /\ published = FALSE
  /\ capture = [running |-> FALSE, break_loop |-> FALSE]
  /\ pc = "start"
  /\ frame = NoFrame
  /\ handler = "idle" /\ signals = 0
  /\ dispatching = FALSE
  /\ stopping = 0
  /\ running = [w \in Workers |-> FALSE]
  /\ queue = [w \in Workers |-> << >>]
  /\ wpc = [w \in Workers |-> "off"]
  /\ hand = [w \in Workers |-> NoFrame]
  /\ result = [w \in Workers |-> [action |-> "PASS", threat |-> "NORMAL"]]
  /\ background = [t \in BackgroundThreads |-> "off"]
  /\ metrics = [captured |-> 0, passed |-> 0, dropped |-> 0, alerted |-> 0,
                ddos |-> 0, slow |-> 0, scan |-> 0,
                queue_drops |-> 0, active_flows |-> 0]
  /\ ignored = 0 /\ alerts = 0
  /\ log = << >>

Count(counter) == metrics' = [metrics EXCEPT ![counter] = @ + 1]

-----------------------------------------------------------------------------
(*                        The main thread: start-up                        *)

(* Dispatcher::start: every worker thread is created and runs.             *)
StartDispatcher ==
  /\ pc = "start" /\ pc' = "publish"
  /\ dispatching' = TRUE
  /\ running' = [w \in Workers |-> TRUE]
  /\ wpc' = [w \in Workers |-> "loop"]
  /\ UNCHANGED <<mode, g_running, published, capture, frame, signalVars, stopping,
                 queue, hand, result, background, metrics, ignored, alerts, log,
                 table, stale>>

(* g_capture_ptr = &capture: from here on the handler sees the capture.    *)
PublishCapture ==
  /\ pc = "publish" /\ pc' = "open"
  /\ published' = TRUE
  /\ UNCHANGED <<mode, g_running, capture, frame, signalVars, dispatching, stopping,
                 running, queue, workerVars, background, metrics, ignored,
                 table, stale>>

(* openLive or openOffline; on failure main stops the dispatcher and       *)
(* returns, else it creates the background threads.                        *)
OpenCapture ==
  /\ pc = "open"
  /\ \/ /\ pc' = "startCapture"
        /\ background' = [t \in BackgroundThreads |-> "run"]
     \/ /\ pc' = "stopDispatcher"
        /\ UNCHANGED background
  /\ UNCHANGED <<mode, g_running, published, capture, frame, signalVars,
                 dispatching, stopping, running, queue, workerVars, metrics,
                 ignored, table, stale>>

(* startCapture: running_ is set unconditionally, then pcap_loop begins.   *)
StartCapture ==
  /\ pc = "startCapture" /\ pc' = "loop"
  /\ capture' = [capture EXCEPT !.running = TRUE]
  /\ UNCHANGED <<mode, g_running, published, frame, signalVars, dispatching,
                 stopping, running, queue, workerVars, background, metrics,
                 ignored, table, stale>>

-----------------------------------------------------------------------------
(*                     The main thread: the capture loop                   *)

(* Fault: the packet number takes part in the hash.                        *)
hashPerPacket(p) == (Hash[p.flow] + p.no) % NumWorkers

(* hashToWorker: the same 5-tuple always goes to the same worker.          *)
hashToWorker(p) == Hash[p.flow] % NumWorkers

(* pcap_loop hands the next frame to the callback, unless told to break.   *)
ReceiveFrame ==
  /\ pc = "loop" /\ pc' = "callback"
  /\ ~capture.break_loop
  /\ metrics.captured < MaxFrames
  /\ \E f \in Flows : frame' = [no |-> metrics.captured + 1, flow |-> f]
  /\ UNCHANGED <<mode, g_running, published, capture, signalVars, dispatching,
                 stopping, running, queue, workerVars, background, metrics,
                 ignored, table, stale>>

(* pcapCallback: a frame that arrives after stopCapture is not counted.    *)
PcapCallback ==
  /\ pc = "callback"
  /\ IF capture.running
       THEN pc' = "dispatch" /\ Count("captured") /\ UNCHANGED frame
       ELSE pc' = "loop" /\ frame' = NoFrame /\ UNCHANGED metrics
  /\ UNCHANGED <<mode, g_running, published, capture, signalVars, dispatching,
                 stopping, running, queue, workerVars, background, ignored,
                 table, stale>>

(* Fault: a refused packet is not counted.                                 *)
EnqueueUncounted(w) ==
  /\ IF Len(queue[w]) < QueueSize
       THEN queue' = [queue EXCEPT ![w] = Append(@, frame)]
       ELSE UNCHANGED queue
  /\ UNCHANGED metrics

(* WorkerThread::enqueue: a full queue refuses the packet, counted.        *)
Enqueue(w) ==
  IF Len(queue[w]) < QueueSize
    THEN /\ queue' = [queue EXCEPT ![w] = Append(@, frame)]
         /\ UNCHANGED metrics
    ELSE Count("queue_drops") /\ UNCHANGED queue

(* main's packet callback and Dispatcher::dispatch, the tests of g_running *)
(* and running_ with the enqueue.  Only the thread that dispatches ever    *)
(* clears running_; a frame that g_running was read for just before a      *)
(* signal is enqueued here before the signal.                              *)
Dispatch ==
  /\ pc = "dispatch" /\ pc' = "loop"
  /\ frame' = NoFrame
  /\ IF g_running /\ dispatching
       THEN Enqueue(hashToWorker(frame)) /\ UNCHANGED ignored
       ELSE ignored' = ignored + 1 /\ UNCHANGED <<queue, metrics>>
  /\ UNCHANGED <<mode, g_running, published, capture, signalVars, dispatching,
                 stopping, running, workerVars, background, table, stale>>

(* pcap_loop returns: told to break (libpcap clears the flag), or at the   *)
(* end of the file.  startCapture then clears running_.                    *)
LoopEnds ==
  /\ pc = "loop" /\ pc' = "shutdown"
  /\ capture.break_loop \/ mode = "-f"
  /\ capture' = [running |-> FALSE, break_loop |-> FALSE]
  /\ UNCHANGED <<mode, g_running, published, frame, signalVars, dispatching,
                 stopping, running, queue, workerVars, background, metrics,
                 ignored, table, stale>>

-----------------------------------------------------------------------------
(*                        The main thread: shutdown                        *)

(* Fault: g_running is left true at the end of the capture.                *)
ShutdownKeepsRunning ==
  /\ pc = "shutdown" /\ pc' = "stopDispatcher"
  /\ UNCHANGED <<mode, g_running, published, capture, frame, signalVars,
                 dispatching, stopping, running, queue, workerVars, background,
                 metrics, ignored, table, stale>>

(* g_running = false; stopCapture() finds the capture stopped already, and *)
(* with --no-l2 the feeder thread, joined here, returned when it started.  *)
BeginShutdown ==
  /\ pc = "shutdown" /\ pc' = "stopDispatcher"
  /\ g_running' = FALSE
  /\ UNCHANGED <<mode, published, capture, frame, signalVars, dispatching,
                 stopping, running, queue, workerVars, background, metrics,
                 ignored, table, stale>>

(* Dispatcher::stop: no more dispatching, then each worker in turn is told *)
(* to stop and joined; what is left in its queue is destroyed with it.     *)
StopDispatcher ==
  /\ pc = "stopDispatcher" /\ pc' = "stopWorker"
  /\ dispatching' = FALSE
  /\ stopping' = 0
  /\ UNCHANGED <<mode, g_running, published, capture, frame, signalVars, running,
                 queue, workerVars, background, metrics, ignored, table, stale>>

StopWorker ==
  /\ pc = "stopWorker" /\ pc' = "joinWorker"
  /\ running' = [running EXCEPT ![stopping] = FALSE]
  /\ UNCHANGED <<mode, g_running, published, capture, frame, signalVars,
                 dispatching, stopping, queue, workerVars, background, metrics,
                 ignored, table, stale>>

(* Fault: the loop over the workers runs one too far.                      *)
JoinPastTheLast ==
  /\ pc = "joinWorker" /\ wpc[stopping] = "done"
  /\ stopping' = stopping + 1
  /\ pc' = IF stopping \in Workers THEN "stopWorker" ELSE "joinBackground"
  /\ UNCHANGED <<mode, g_running, published, capture, frame, signalVars,
                 dispatching, running, queue, workerVars, background, metrics,
                 ignored, table, stale>>

(* Fault: a worker is told to stop but not joined.                         *)
JoinWithoutWaiting ==
  /\ pc = "joinWorker"
  /\ IF stopping + 1 \in Workers
       THEN pc' = "stopWorker" /\ stopping' = stopping + 1
       ELSE pc' = "joinBackground" /\ UNCHANGED stopping
  /\ UNCHANGED <<mode, g_running, published, capture, frame, signalVars,
                 dispatching, running, queue, workerVars, background, metrics,
                 ignored, table, stale>>

JoinWorker ==
  /\ pc = "joinWorker" /\ wpc[stopping] = "done"
  /\ IF stopping + 1 \in Workers
       THEN pc' = "stopWorker" /\ stopping' = stopping + 1
       ELSE pc' = "joinBackground" /\ UNCHANGED stopping
  /\ UNCHANGED <<mode, g_running, published, capture, frame, signalVars,
                 dispatching, running, queue, workerVars, background, metrics,
                 ignored, table, stale>>

(* The stats and cleanup threads are joined last; after a failed open they *)
(* were never created.                                                     *)
JoinBackground ==
  /\ pc = "joinBackground" /\ pc' = "done"
  /\ \A t \in BackgroundThreads : background[t] \in {"off", "done"}
  /\ UNCHANGED <<mode, g_running, published, capture, frame, signalVars,
                 dispatching, stopping, running, queue, workerVars, background,
                 metrics, ignored, table, stale>>

-----------------------------------------------------------------------------
(*              SIGINT, on any thread and between any two steps            *)

SignalArrives ==
  /\ handler = "idle" /\ handler' = "stop"
  /\ pc # "done"
  /\ signals < MaxSignals /\ signals' = signals + 1
  /\ g_running' = FALSE
  /\ UNCHANGED <<mainVars, capture, running, queue, workerVars, background,
                 metrics, table, stale>>

(* stopCapture: does nothing unless the capture is running.                *)
HandlerStopsCapture ==
  /\ handler = "stop" /\ handler' = "idle"
  /\ IF published /\ capture.running
       THEN capture' = [running |-> FALSE, break_loop |-> TRUE]
       ELSE UNCHANGED capture
  /\ UNCHANGED <<mainVars, g_running, signals, running, queue, workerVars,
                 background, metrics, table, stale>>

-----------------------------------------------------------------------------
(*                             A worker thread                             *)

WorkerStep(w, from, to) == wpc[w] = from /\ wpc' = [wpc EXCEPT ![w] = to]

(* run(): the flag is read before each pop, so a pop may follow a stop.    *)
CheckRunning(w) ==
  /\ WorkerStep(w, "loop", IF running[w] THEN "pop" ELSE "done")
  /\ UNCHANGED <<mainVars, g_running, capture, signalVars, running, queue, hand,
                 result, alerts, log, background, metrics, table, stale>>

Pop(w) ==
  /\ WorkerStep(w, "pop", "lookup")
  /\ queue[w] # << >>
  /\ hand' = [hand EXCEPT ![w] = Head(queue[w])]
  /\ queue' = [queue EXCEPT ![w] = Tail(@)]
  /\ UNCHANGED <<mainVars, g_running, capture, signalVars, running, result,
                 alerts, log, background, metrics, table, stale>>

PopTimesOut(w) ==
  /\ WorkerStep(w, "pop", "loop")
  /\ queue[w] = << >>
  /\ UNCHANGED <<mainVars, g_running, capture, signalVars, running, queue, hand,
                 result, alerts, log, background, metrics, table, stale>>

(* processPacket 1: FlowTable::getOrCreate, with its own counters.         *)
LookUp(w) ==
  LET f == hand[w].flow IN
  /\ \/ WorkerStep(w, "lookup", "analyze") /\ Touch(f) /\ UNCHANGED metrics
     \/ WorkerStep(w, "lookup", "analyze") /\ Create(f) /\ Count("active_flows")
     \/ /\ f \notin table /\ IsFull
        /\ WorkerStep(w, "lookup", "refused")
        /\ Count("queue_drops") /\ UNCHANGED <<table, stale>>
  /\ UNCHANGED <<mainVars, g_running, capture, signalVars, running, queue, hand,
                 result, alerts, log, background>>

(* The flow table was full: the packet is dropped but still recorded.      *)
RefuseFlow(w) ==
  /\ WorkerStep(w, "refused", "record")
  /\ Count("dropped")
  /\ result' = [result EXCEPT ![w] = [action |-> "DROP", threat |-> "NORMAL"]]
  /\ UNCHANGED <<mainVars, g_running, capture, signalVars, running, queue, hand,
                 alerts, log, background, table, stale>>

ActionFor(threat) ==
  CASE threat = "NORMAL"          -> "PASS"
    [] threat = "DDOS_VOLUMETRIC" -> "DROP"
    [] OTHER                      -> "ALERT"

(* Fault: the threat is counted and the action is not.                     *)
CountVerdictOnce(v) ==
  CASE v = "NORMAL"          -> Count("passed")
    [] v = "DDOS_VOLUMETRIC" -> Count("ddos")
    [] v = "SLOW_DDOS"       -> Count("slow")
    [] v = "PORT_SCAN"       -> Count("scan")

(* The counters of handleDetection, or of a packet that passes: the threat *)
(* and the action, which the code counts one after the other.              *)
CountVerdict(v) ==
  metrics' = CASE v = "NORMAL" ->
                    [metrics EXCEPT !.passed = @ + 1]
               [] v = "DDOS_VOLUMETRIC" ->
                    [metrics EXCEPT !.ddos = @ + 1, !.dropped = @ + 1]
               [] v = "SLOW_DDOS" ->
                    [metrics EXCEPT !.slow = @ + 1, !.alerted = @ + 1]
               [] v = "PORT_SCAN" ->
                    [metrics EXCEPT !.scan = @ + 1, !.alerted = @ + 1]

(* processPacket 2 to 4: the engines read and write the flow through the   *)
(* pointer getOrCreate returned, without the table's lock.                 *)
Analyze(w) ==
  \E v \in Verdicts :
    /\ WorkerStep(w, "analyze", IF v = "NORMAL" THEN "record" ELSE "detected")
    /\ CountVerdict(v)
    /\ result' = [result EXCEPT ![w] = [action |-> ActionFor(v), threat |-> v]]
    /\ UNCHANGED <<mainVars, g_running, capture, signalVars, running, queue,
                   hand, alerts, log, background, table, stale>>

(* handleDetection: the flow is marked through the pointer, then on_alert. *)
RaiseAlert(w) ==
  /\ WorkerStep(w, "detected", "record")
  /\ alerts' = alerts + 1
  /\ UNCHANGED <<mainVars, g_running, capture, signalVars, running, queue, hand,
                 result, log, background, metrics, table, stale>>

makeRecord(w) == [no     |-> hand[w].no,       flow   |-> hand[w].flow,
                  action |-> result[w].action, threat |-> result[w].threat]

PushRecord(w) ==
  /\ WorkerStep(w, "record", "loop")
  /\ log' = Append(log, makeRecord(w))
  /\ UNCHANGED <<mainVars, g_running, capture, signalVars, running, queue, hand,
                 result, alerts, background, metrics, table, stale>>

Worker(w) == \/ CheckRunning(w) \/ Pop(w) \/ PopTimesOut(w) \/ LookUp(w)
             \/ RefuseFlow(w) \/ Analyze(w) \/ RaiseAlert(w) \/ PushRecord(w)

-----------------------------------------------------------------------------
(*                         The background threads                          *)

ThreadStep(t, from, to) ==
  background[t] = from /\ background' = [background EXCEPT ![t] = to]

(* Each loops while g_running.                                             *)
BackgroundExits(t) ==
  /\ ~g_running
  /\ ThreadStep(t, "run", "done")
  /\ UNCHANGED <<mainVars, g_running, capture, signalVars, running, queue,
                 workerVars, metrics, table, stale>>

(* Once a minute the cleanup thread checks g_running ...                   *)
CleanupIsDue ==
  /\ g_running
  /\ ThreadStep("cleanup", "run", "sweep")
  /\ UNCHANGED <<mainVars, g_running, capture, signalVars, running, queue,
                 workerVars, metrics, table, stale>>

(* ... and then erases the stale flows, active_flows following.            *)
CleanupFlows ==
  /\ ThreadStep("cleanup", "sweep", "run")
  /\ Cleanup
  /\ metrics' = [metrics EXCEPT !.active_flows = @ - Cardinality(stale)]
  /\ UNCHANGED <<mainVars, g_running, capture, signalVars, running, queue,
                 workerVars>>

(* The pointer into the flow table that a worker is holding.               *)
Holds(w, f) == wpc[w] \in {"analyze", "detected"} /\ hand[w].flow = f

(* Time passes.  Assumed of the environment: no packet takes as long as    *)
(* the idle timeout (300 s) from its look-up to its last use of the flow.  *)
FlowGoesIdle(f) ==
  /\ GrowStale(f)
  /\ \A w \in Workers : ~Holds(w, f)
  /\ UNCHANGED <<mainVars, g_running, capture, signalVars, running, queue,
                 workerVars, background, metrics>>

-----------------------------------------------------------------------------
Main == \/ StartDispatcher \/ PublishCapture \/ OpenCapture \/ StartCapture
        \/ ReceiveFrame \/ PcapCallback \/ Dispatch \/ LoopEnds
        \/ BeginShutdown \/ StopDispatcher \/ StopWorker
        \/ JoinWorker \/ JoinBackground

Cleaner == CleanupIsDue \/ CleanupFlows

(* The process has returned from main.                                     *)
Exited == pc = "done" /\ UNCHANGED vars

Next == \/ Main
        \/ SignalArrives \/ HandlerStopsCapture
        \/ \E w \in Workers : Worker(w)
        \/ \E t \in BackgroundThreads : BackgroundExits(t)
        \/ Cleaner
        \/ \E f \in Flows : FlowGoesIdle(f)
        \/ Exited

(* Every thread the operating system runs gets to take its next step; a    *)
(* signal handler that has begun finishes.  Neither signals nor idleness   *)
(* have to happen.                                                         *)
Fairness == /\ WF_vars(Main)
            /\ WF_vars(HandlerStopsCapture)
            /\ \A w \in Workers : WF_vars(Worker(w))
            /\ \A t \in BackgroundThreads : WF_vars(BackgroundExits(t))
            /\ WF_vars(Cleaner)

Spec == Init /\ [][Next]_vars /\ Fairness

-----------------------------------------------------------------------------
(*                                Properties                               *)

(* A worker dereferences its FlowState* after getOrCreate has released the *)
(* table's lock: the flow is still in the table (cleanup has not freed     *)
(* it), it is not about to be freed, and no other worker is using it.      *)
FlowPointersSafe ==
  \A w \in Workers, f \in Flows : Holds(w, f) =>
    /\ f \in table \ stale
    /\ \A other \in Workers \ {w} : ~Holds(other, f)

(* The records of one flow enter the packet ring in the order its frames   *)
(* were captured, each once, although many workers push concurrently.      *)
FlowOrder ==
  \A i, j \in DOMAIN log :
    i < j /\ log[i].flow = log[j].flow => log[i].no < log[j].no

HowMany(P(_)) == Cardinality({w \in Workers : P(w)})
Logged(P(_))  == Cardinality({i \in DOMAIN log : P(log[i])})

(* The packets queue_drops counts that were not refused by a full queue.   *)
RefusedByTable ==
  LET IsRefusal(r) == r.action = "DROP" /\ r.threat = "NORMAL"
      Refusing(w)  == \/ wpc[w] = "refused"
                      \/ wpc[w] = "record" /\ IsRefusal(result[w])
  IN  Logged(IsRefusal) + HowMany(Refusing)

(* A worker between its pop and the push of the record.                     *)
Busy(w) == wpc[w] \in {"lookup", "refused", "analyze", "detected", "record"}

(* Every frame counted as captured is in exactly one place: being          *)
(* dispatched, ignored during shutdown, refused by a full queue, waiting   *)
(* in a queue, in a worker's hands, or recorded.                           *)
Conservation ==
  LET Waiting == UNION {{w} \X DOMAIN queue[w] : w \in Workers}
  IN  metrics.captured = (IF pc = "dispatch" THEN 1 ELSE 0) + ignored
                         + (metrics.queue_drops - RefusedByTable)
                         + Cardinality(Waiting) + HowMany(Busy) + Len(log)

(* The figures of the final report agree with each other and with the      *)
(* ring: each action is counted once per record, each threat once per      *)
(* alert, and active_flows is the size of the table.                       *)
CountersAgree ==
  LET Is(a, r)      == r.action = a
      About(a, w)   == wpc[w] \in {"detected", "record"} /\ result[w].action = a
      Total(a)      == Logged(LAMBDA r : Is(a, r)) + HowMany(LAMBDA w : About(a, w))
  IN  /\ metrics.passed = Total("PASS")
      /\ metrics.dropped = Total("DROP")
      /\ metrics.alerted = Total("ALERT")
      /\ metrics.ddos + metrics.slow + metrics.scan
           = alerts + HowMany(LAMBDA w : wpc[w] = "detected")
      /\ metrics.active_flows = Cardinality(table)
      /\ metrics.active_flows <= MaxFlows

(* Once main prints the final report and returns, which destroys the queue *)
(* of every worker, the flow table and the alert manager, no thread uses   *)
(* any of them: what the report says is what happened.                     *)
FinalReportIsFinal ==
  [][pc = "done" => UNCHANGED <<workerVars, queue, table, metrics>>]_vars

(* The program ends, although every queue may be full and every thread has *)
(* to be joined: when it analyses a capture file, and when a stop request  *)
(* has reached libpcap.                                                    *)
RunEnds == (mode = "-f" \/ capture.break_loop) ~> (pc = "done")

(* What main.cpp tells the user: "Press Ctrl+C to stop."  It fails when    *)
(* the signal comes before startCapture has set running_.                  *)
CtrlCStops == (signals > 0) ~> (pc = "done")
=============================================================================
