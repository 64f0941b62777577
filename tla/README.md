# network-ids in TLA+

The program is a network intrusion detection system in C++: it captures frames
with libpcap, hands them by flow to worker threads that apply detection rules
(layer 1), samples the flows for a machine-learning engine (layer 2), and shows
packets and alerts in a Qt interface. This directory models its core, checks it
with TLC on small instances and proves the central results with TLAPS.
Paths below are relative to `src/src/`.

## 1. Inventory

| Component | State | Operations | Talks to |
|---|---|---|---|
| Life cycle, `main.cpp` | `g_running`, `g_capture_ptr`, the threads | start-up 233-316, signal handler 35-41, shutdown 327-347, report 350-384 | everything |
| Capture, `capture/packet_capture.cpp` | `running_`, the pcap handle and its break flag | openLive/openOffline, startCapture, stopCapture, pcapCallback, parsePacket | calls back into `main`, which dispatches |
| Dispatcher and workers, `layer1/dispatcher.cpp`, `worker_thread.cpp` | `running_`, a `PacketQueue` per worker | start, stop, dispatch, hashToWorker; enqueue, pop, processPacket, handleDetection | flow table, rules, metrics, alert manager, packet ring |
| Flow table, `layer1/flow_table.cpp` | `table_` under a mutex | getOrCreate, cleanup, forEachFlow | returns raw `FlowState*` to the workers |
| Rules, `layer1/signature_engine.cpp`, `protocol_anomaly.cpp` | counters and flags in `FlowState`, the Aho-Corasick automaton | analyze, search | workers |
| Metrics, `common/metrics.*` | atomic counters | increments, print | workers, flow table, report, UI |
| Packet ring, `pcap_io/packet_ring_buffer.*` | `buffer_`, `total_received_` | push, clear, getRange, getByIndex, withRecord, evictAllRawData | workers write, UI reads; every packet tab has another of its own |
| ML job queue and engine loop, `layer2/data_queue.hpp`, `ml_engine.cpp` | `buffer_`, `head_`, `tail_` | push, pop; run, processJob, combineResults, classifyThreat, stop | L2 feeder of `main`, alert manager, feedback loop |
| Features, models, `layer2/feature_extractor.cpp`, `onnx_model.cpp` | none | extract, normalize, infer | ML engine |
| Feedback, `layer2/feedback_loop.cpp` | proposals under a mutex | onMLResult, getPendingProposals, approve, reject | ML engine, administrators |
| Alert manager, `dashboard/alert_manager.*` | `alerts_`, `suppress_map_`, counters | addL1Alert, addL2Alert, getRecent, totalAlerts | workers, ML thread, UI bridge |
| UI bridge, `ui/qt/ui_bridge.*` | `last_alert_seq_`, `last_sent_seq_`, the batch size, the timer | onTimer, startPolling, stopPolling | polls alert manager, ring and metrics; signals the widgets |
| Alert panel, `ui/qt/alert_panel.*` | `all_alerts_`, the table, the filter | onNewAlerts, onFilterChanged, onClearClicked, onRowClicked | UI bridge |
| Packet tab and list model, `ui/qt/pcap_tab.cpp`, `packet_list_model.cpp`, `filter_bar.cpp` | a ring of its own, `live_pending_`, `row_cache_`, `filtered_indices_`, the filter | append, flush, pause, load and save a file, filter, clear | UI bridge, capture-file reader |
| Capture files, `pcap_io/pcap_reader.cpp`, `pcap_writer.cpp` | the mapping, its size, the file header and the cancel flag, which all scans share | scanFile, loadRawBytes, writePacket | packet tab, from detached threads |
| Qt life cycle, `ui_main.cpp`, `ui/qt/main_window.cpp` | `g_running`, `g_capture_ptr`, the engine thread and its helpers | engineThread, the handlers of quitting and of Pause Monitoring | everything |
| Widgets, logger, `capture/protocol_decoder.cpp` | | presentation and output; the decoder has no callers | not modelled |

What is hard to test in it, and what correctness means there:

- **Threads and raw pointers.** A worker uses a `FlowState*` after the table's
  mutex is released; cleanup may erase the flow. It must be there, and nobody else's.
- **Order.** The rules and the packet list are only right if the packets of a
  flow are handled in capture order, which rests on the flow hash alone.
- **Accounting.** Queues and the table refuse work at their limits; every frame
  must be accounted for and the final report must agree with itself.
- **Stopping.** Signals come at any time, users quit at any time, and both
  programs join every thread before they destroy what the threads share.
- **Index arithmetic under concurrency.** The packet ring publishes its index
  before its record; the job queue is lock-free and its wake-ups may be lost.
- **Indices and places that go stale.** The bridge reads a total and later a
  range; the packet list keeps indices of one ring and looks them up in another;
  the alert panel maps rows to alerts by counting; administrators decide on
  proposals by their place in an old copy of the list; the reader looks up bytes
  in whatever file is mapped.
- **Scans and the GUI.** Each file is read by a detached thread, and nothing
  stops a second file from being opened meanwhile: its scan overwrites the size,
  the header and the mapping that the first one's loop still reads.
- **Incremental and repeated computation.** Windows, flags and early returns in
  `FlowState` must amount to a statement about the packets of the flow; features
  are normalised twice; live capture and files are parsed by two implementations.

`PROJECT.json` lists each hazard at its line, with the properties that cover it.

## 2. Modules

| Module | Models | State and actions |
|---|---|---|
| `FlowTable` | `flow_table.cpp` | `table`, and `stale`: the flows past the idle timeout. `Touch`, `Create`, `IsFull` are getOrCreate; `Cleanup` is cleanup; `GrowStale` is the clock |
| `Pipeline` (extends `FlowTable`) | the run of `main` with `--no-l2`: capture, dispatcher, workers, stats and cleanup threads, signal handler, metrics | one action per access to shared memory, but for `Dispatch`, which tests both flags and enqueues, and `CountVerdict`, which adds to two counters; `pc` is the main thread, `wpc[w]` worker `w`, `background[t]` the two others, `handler` the signal handler between its two effects; `log` is the sequence of pushes into the ring |
| `RecordWindow` | what the ring promises: a window over the last `max_packets` records | abstract specification |
| `PacketRing` | `packet_ring_buffer.*` | slots, index, eviction of raw bytes; push is two steps because `total_received_` is visible before the record |
| `BoundedFifo` | what the job queue promises | abstract specification |
| `JobQueue` | `data_queue.hpp`, `MLEngine::run` and `stop` | one action per load, store, wait and notification |
| `Inference` | `FeatureExtractor`, the two mock models, `combineResults`, `classifyThreat` | operators on fractions; scores in thousandths |
| `MLEngine` (extends `JobQueue`, `Inference`) | layer 2: the feeder of `main`, the workers that write the flows it reads, the engine thread, `FeedbackLoop` and its administrators | `Feed` reads a `FlowState` field by field while `WorkerWrites` may replace it (`Readings`); `Judge` is processJob with its report; `views` are the copies of the proposals that administrators hold |
| `AlertManager` | `alert_manager.*` | `CountAlert` before the lock (two counters in one step), `HandleAlert` under it |
| `AlertPath` (extends `AlertManager`) | the alerts' part of `onTimer`, `alert_panel.*` | a tick is two reads, `TickReadsTotal` and `TickEmits`; the panel's slots come between ticks; `onRowClicked` is the alert a double click opens |
| `LiveFeed` (extends `PacketRing`) | the packets' part of `onTimer` | `TickReadsTotal`, `TickSends`, over the real ring, with the batch size as any of a set |
| `QtProgram` (extends `LiveFeed`) | `ui_main.cpp` and what `main_window.cpp` does to it | `app` is main from `app.exec()` on, `engine` the engine thread, `helpers` its two threads, `ml_thread` the thread of the ML engine, which main stops and joins after the engine thread, `capture_ptr` what `g_capture_ptr` points to, `polling` the bridge's timer; signals, quitting and Pause Monitoring come at any moment |
| `FrameParsing` | `parsePacket` of the capture, `parseHeaders` of the reader, the columns of the list | operators on frames given by their headers and lengths |
| `DisplayFilter` (extends `FrameParsing`) | `parseFilter`, `parseCondition`, `matchFilter` | operators on lines given as terms |
| `PacketTab` (extends `PacketRing`, `DisplayFilter`) | a packet tab with its ring, list, filter and reader | GUI slots start at `gui = "idle"` and their loops are steps; `scans` are the detached threads with the completions they post; `mapped`, `sized` and `header` are the mapping, `mmap_size_` and `stats_` of the one reader, `unmapped` the scans whose mapping another has taken away |
| `SignatureSearch` | the Aho-Corasick automaton of `signature_engine.cpp` | operators: nodes, fail links, the walk of `search` |
| `FlowRules` (extends `SignatureSearch`) | both rule engines on `FlowState` | `ProcessPacket` moves the clock, updates the counters and gives the verdict; `Recounted` and `TakenFor` recompute both from the packets, as the code counts |
| `MC*` | values for the constants | |
| `NumberLemmas`, `*Proofs` | theorems | those about `JobQueue` are in `MLEngineProofs`, those about `SignatureSearch` in `FlowRulesProofs` |

`Pipeline` and `FlowTable`, `MLEngine` and `JobQueue`, `PacketTab` and
`PacketRing`, `QtProgram` and `LiveFeed` and `PacketRing`, `AlertPath` and
`AlertManager` are compositions: the larger module's actions call the smaller
one's. That they do so properly is proved for the three that extend a component
with a specification of its own (`EngineRunsTheQueue`, `TabUsesTheRing`,
`QtRunsTheFeed`), which is how the components' theorems carry over.

Definitions marked `Fault:` are deliberately wrong variants of the definition
that follows. They take no part in any specification: put in the place of the
right one, each makes a property fail, which shows what the property can catch.

Main abstractions. In `Pipeline` a verdict is any of the four, and a frame is its
number and flow; in `FlowRules` the verdict is computed and one life of each flow
is modelled. A frame in `FrameParsing` is a record of the header fields the
parsers read and of the lengths they test; addresses are numbers. A filter line
is a sequence of terms, already split at its operators. Time is a set of stale
flows in `Pipeline` and a clock with jumps in `FlowRules`; in `AlertManager` a
timestamp is any of a set per layer, because L1 alerts carry a packet's Unix time
and L2 alerts a reading of the monotonic clock. `g_capture_ptr` after its object
is gone is "dangling", and a call through it either does nothing or ends the
process. In `PacketTab` a place in a file stands for an offset, all frames being
of one size; `open`, `fstat`, the size and `mmap` (lines 62-94 of
`pcap_reader.cpp`) are one step, the header another, and every turn of the scan
loop two, its condition and its body.

## 3. Runs

| Run | Bounds | What it shows |
|---|---|---|
| `pipeline` | 2 workers, 2 flows on different workers, queue of 1, table of 1, 2 frames, a verdict of each action, 1 signal | flow pointers are safe, flows stay in order, frames are conserved, counters agree, nothing moves after the final report; under fairness, a capture file's analysis ends and a stop request that reached libpcap leads to the exit |
| `lost_stop` | the same with 1 flow, 1 frame | counterexample: Ctrl+C before `startCapture` sets `running_` is lost |
| `engine` | 2 slots (a queue of 1 job), 3 jobs, 1 feeder, a web flow that changes and a UDP flood, mocks or ONNX models, 2 administrators | with the one feeder the program has, the queue implements `BoundedFifo`; accepted jobs are judged, what mock models can and cannot report, and when a decision hits the proposal it was meant for |
| `two_producers` | 2 producers, 3 slots, 3 jobs | counterexample: two producers fill one slot, and an accepted job is lost |
| `alerts` | 1 worker and the ML thread, 2 keys, 4 calls, 2 stored alerts, batches of 2, 2 rows | deduplication loses no attack, repeats are spaced, the table shows the newest matching alerts, and a double click opens its row's alert until rows are dropped |
| `panel_repeat` | the same | counterexample: an alert reaches the panel twice |
| `row_click` | the same | counterexample: after rows were dropped a double click opens an older alert |
| `live` | ring of 2, raw bytes for 1, 5 packets, first batch 2 then 1 or 2; an interface or a file | the threads that main joins have ended when it ends; quitting ends a file or a running capture; the feed is exact and catches up until overtaken, and is stuck for good a batch behind |
| `rules` | a web and a UDP flow, 4 packets of 8 kinds, 3 overlapping signatures, clock jumps 0 or 3 and readings 0 or 1 apart | `FlowState` is what recounting the flow's packets gives, and the verdicts follow from it; the signature search is exact on every text of up to 6 letters (an assumption TLC evaluates) |
| `syn_window` | the web flow alone | counterexample: SYNs further apart than the window are a flood |
| `tab` | ring of 3, raw bytes for 2, list of 2 rows, rows taken one at a time, pending buffer of 2, 3 live frames, files of 2 and of 1 with different link types, 2 loads (1 in a tab with live packets), 2 filters | the ring implements `RecordWindow` for all its threads; when rows, columns, filter and bytes belong to the packet the user clicked; files loaded one at a time are read to their end, every load comes to an end, and what the program can die of |
| `filter_hangs` | the same | counterexample: a filter with conditions blocks the GUI thread |

Why the bounds are enough to be interesting. `pipeline`: with a queue and a table
of one, two frames fill both, so refusal by queue, refusal by table, cleanup and
renewal of a flow all occur, in every order with the shutdown. `engine`: three jobs
go round two slots and more than fill the queue; the web flow changes between two
readings, its later state makes a proposal possible with ONNX scores, and two
administrators suffice for an old copy. `alerts`: four calls are enough for two
keys to alternate on two clocks, for eviction from a store of two and for trimming
to two rows. `live`: five pushes overwrite two slots twice and leave the feed a
whole batch behind. `rules`: thresholds are scaled to one or two, so that four
packets cross each; the seconds are scaled with them (a tick is half a second, and
a jump is longer than the window).
`tab`: the wire and the files hold VLAN tags, IP options, an IPv6 extension header,
ARP and a cooked (SLL) frame; the ring wraps between two loads. The files differ in
length and link type, so that a second scan lengthens, shortens or misreads a first
one, resets its header in the middle, or unmaps it by failing; the pending buffer
overflows while the tab is paused, the bridge's feed may have skipped or repeated
records, one of the two filters throws, and the list is trimmed. Loading in a tab that has live packets is bounded to one load, because
after the first mixture `disturbed` says that nothing more is promised of its rows.

Fairness. `Pipeline`: every thread that can take a step eventually takes one, and
a handler that has begun finishes; signals, frames beyond the bound and idleness
are never forced. `JobQueue` and `MLEngine`: a push that has begun and the engine's
thread keep running, and `wait_for` returns (its 200 ms timeout: `TimesOut` belongs
to the consumer); nobody has to look at proposals. `QtProgram`: main, the engine
thread, its helpers and the workers keep running, a file ends, and a bridge that
polls keeps polling; frames need not arrive, signals need not come and nobody has
to quit. `PacketTab`: the GUI thread finishes the slot it is in and the scan
threads run; that a posted completion is served is strong fairness, because
between two clicks the event loop is free only now and then, but serves what was
posted in turn. `AlertPath` and `FlowRules` have no fairness. `FlowRules` stops
when traffic does, `PacketTab` and `QtProgram` when their bounds are reached or
the process has ended, so their runs do not check deadlock.

### Disagreements found

1. **A lost stop** (`lost_stop`). `stopCapture` returns at once while `running_`
   is false, and `startCapture` sets it unconditionally. A Ctrl+C during start-up
   leaves a live capture running with every frame ignored.
2. **A filter hangs the window** (`filter_hangs`). `matchFilter` calls itself
   lock-free, but asks the ring for the record; `applyFilter` calls it inside a
   callback that runs under the ring's mutex.
3. **Repeated alerts** (`panel_repeat`). The bridge takes the growth of
   `total_alerts_`, which counts suppressed and not yet stored alerts, for the
   number of new alerts.
4. **A queue for one producer** (`two_producers`). `data_queue.hpp:24` says "many
   producers, one consumer", but two calls of `push` may load the same head, fill
   the same slot and both return true. The program starts a single feeder, and for
   one the queue is right (`engine`, section 4).
5. **A double click opens another alert** (`row_click`). `onRowClicked` counts from
   the first alert received, also when the table has dropped its oldest rows.
6. **A flood without a window** (`syn_window`). The rules say 100 SYNs in ten
   seconds; `syn_no_ack` is never reset, so that SYNs hours apart add up.

Three more that the models show and no run is devoted to. The first packet of a
UDP flow is a flood: its rate is taken over the microseconds since the window
began (`signature_engine.cpp:147` speaks of a high rate); `FloodIsRecent` fails
there too when the UDP flow is part of the run. A port scan goes unnoticed:
`signature_engine.cpp:163` promises the ports of one source, but they are counted in
the state of one 5-tuple, which has one destination port. And `SIG_002` of
`config/rules.json` asks for an alert on "Content-Length:", while
`checkPayloadSignatures` leaves `SIG_SLOW_POST` to the anomaly engine, which never
looks at it.

Other facts, which properties state as they are:

- `RepeatsAreSpaced`: suppression compares the key's last alert with the newest
  stored alert of any key, never with the alert at hand, so that a key that is
  alone is stored once and never again.
- `LostOnceBehind`: once the ring is a batch ahead of the feed's cursor the range
  it asks for is empty, the cursor does not move, and the live view stops for good.
  Pause Monitoring stops the polling but not the capture, and can bring this about.
- `QuitEnds` excepts a live capture that is quit before `startCapture`: that stop
  is lost like a signal's, and main waits for the engine thread. A stop after the
  engine thread has returned goes through a pointer to its dead local. Packets
  still in the workers' queues when main stops are lost (`DispatcherStops`).
- `RatiosDecide`: `processJob` normalises the features and `MockAutoencoder` does
  it again, so that only ratios keep any weight: with the mocks every TLS
  connection seen from its SYN is reported and no UDP flood is.
  `MocksNeverPropose`: their confidence never reaches that of a proposal.
- `CountersAreRecounted` recounts as the code does, which is not always as the rules
  are described: SYNs over the flow's whole life, and an HTTP request that is timed
  from the clock's epoch until the anomaly engine has seen a SYN.
- `FreshViewsAreExact` covers copies of the proposals that were fetched after the
  last decision; an older one hits another proposal.
- `LoadsAreComplete` and the bytes' `BytesAreOwn` need loads that do not overlap. A
  second scan may cut the first short, make it read with the other file's link type,
  or unmap what it reads, and the program may then die: `CrashIsExplained` allows
  nothing else to kill it but a filter term on which `std::stoul` throws (the flag
  `syn` is one). `LoadEnds` holds of overlapping loads too: each ends, perhaps early.
- `RowsOpenTheirOwn` and `BytesAreOwn` hold under the conditions they name only:
  after a drop, a clear, a gap in what the bridge sends or a mixture of live packets
  and a file, a row opens another packet; when two files were scanned at once, bytes come from the other.
- `SameColumns` excepts what one of the parsers is not made for (`Sound`).

## 4. Theorems

All are checked by TLAPS to the last leaf, for every value of the constants that
satisfies the named assumptions of the modules.

- `PipelineProofs`, from `PipelineAssumption` and `FlowTableAssumption`:
  `TypeCorrect`, `FlowOrderHolds`, `FlowPointersSafeHolds`,
  `FinalReportIsFinalHolds`, `CountersAgreeHolds`, `ConservationHolds`. Order in
  the log alone is not inductive. `IInv` follows a frame along its path: the main
  thread's frame has the highest number (`FrameNumbered`), each queue is sorted and
  holds only flows that hash to its worker (`QueuesSorted`), what a worker holds
  comes before what waits for it (`HandsBeforeQueues`), what is recorded of its
  flows comes before what it holds (`LogBeforeWorkers`), and the log is sorted
  (`LogSorted`). With `HeldFlowsFresh` (a held flow is in the table and not stale)
  the flow's single worker gives pointer safety. That part rests on the environment
  assumption in `FlowGoesIdle`: no packet takes as long as the idle timeout of 300 s
  from its look-up to its last use of the flow. `StopInv` says which workers have
  been joined at each step of the shutdown. `CountersInv` and `PlacesInv` replace
  the sums of the report by cardinalities: a counter is the number of records with
  its action and of workers that carry such a record, the threats are the alerts
  raised and the workers about to raise one, and `active_flows` is the size of the
  table; the frames captured are those in each place (`Balanced`), where the packets
  that the table refused are told from those that a queue refused because an alert
  always has a threat (`AlertsHaveThreats`).
- `FlowRulesProofs`, from `FlowRulesAssumption` and `SignatureAssumption` (finitely
  many signatures, none empty; thresholds are natural numbers, and a port scan takes
  one port at least). The search first: `FailLinksAreRight` and, from it,
  `SearchIsExact`. The fail links are a function on the nodes in order of length;
  that it exists is an induction on the length, and that its list is complete
  rests on `GoToLongest`: the walk along a node's links stops at the longest node
  to which the letter can be appended. `search` keeps the longest node that the
  payload read so far ends with (`Reaches`). Then `TypeCorrect` and
  `CountersAreRecountedHolds`. The verdicts rest on sets of earlier packets: `FlowInv` says what
  each `FlowState` keeps of its packets. The counters are the packets of each kind
  (`CountsFit`); the rate window began with the last of the packets that begin one,
  and counts since then (`WindowFits`); start, bytes and header flag of the HTTP
  request are those of the packets that reached the anomaly engine since the last
  bare SYN among them (`RequestFits`), which the early returns of `analyze` make
  depend on all earlier verdicts; and the clock never goes back (`Timely`). That the
  rate window found by `CHOOSE` is this one is `WindowStartsAre`.
- `PacketRingProofs`, from `RingAssumption` (`keep_raw` between 1 and
  `max_packets`, as every ring the program creates has it): `WindowCompleteHolds`,
  `RawIsRecentHolds`, `Refinement`. `RingInv` says where each index of the window
  is stored, where the record of an unfinished push will go, and which slots may
  have raw bytes; that distinct indices of a window have distinct slots is in
  `NumberLemmas`.
- `PacketTabProofs`, from `PacketTabAssumption` too (a list is not longer than the
  ring: 50,000 rows of 200,000 records): `TabUsesTheRing`, and with it
  `TabWindowComplete`, `TabRawIsRecent`, `TabImplementsWindow`; `TabTypeCorrect`,
  `RowsOpenTheirOwnHolds`, `BytesAreOwnHolds`, `SameColumnsHolds`,
  `ShownMatchHolds`, `ListShowsWindowHolds`, `LoadsAreCompleteHolds`,
  `CrashIsExplainedHolds`. `TabInv` bounds lists and buffers
  through the loops of the GUI thread; `RowInv` adds that until something disturbs
  the live records their numbers follow the ring's indices, along pending buffer,
  batch and list; `FileInv` that without overlapping loads only the last scan
  runs, with size, header and mapping of its own file, and that the file records in
  the ring are those of the current file, which is the one in memory; a scan that
  has not opened its file finds none of them.
  `SameColumns` compares the two parsers layer by layer, for any frame that both are
  made for. `SatisfyInv` carries the filter through a run over the ring and through
  the rows that arrive during it. `ListInv` says what the loop of a filter run has
  listed when no scan can push: the ring stands still, because without live records
  only scans push (`OnlyScansPush`); a run that began before the last scan was over
  is followed by another, which the completion of that scan asks for.
- `MLEngineProofs`. The queue first: `TypeCorrect` for any producers;
  `NoTornSlotHolds` and `Refinement` for a single one (`SingleProducer`, an
  assumption of the theorems, and all the program has: see `two_producers`). `QueueInv` relates `head` and `tail` to the numbers of accepted and
  received jobs modulo the capacity, bounds their difference, and says which jobs
  the slots between them hold. Then the engine, also for a single feeder:
  `EngineRunsTheQueue`, and with it `EngineNoTornSlot` and `EngineImplementsFifo`;
  `EngineNoJobLost`; `EngineTypeCorrect`, `ViewsStayExact`. `EngineInv` adds to
  `QueueInv` that accepted jobs are numbered in the order in which they were made,
  so that the job the engine forgets is no other's; that each job in being has its
  features and its flow; and that there is an anomaly at most for each job received.
  `MocksNeverProposeHolds` and `RatiosDecideHolds` are about arithmetic: features
  that were normalised are fractions between 0 and 1, whatever the flow, so that
  the forest never finds an anomaly (`ForestIsQuiet`), and 18 of the autoencoder's
  21 squares are at most a millionth each (`RatiosAreTheSum`).
- `AlertPathProofs`: `ManagerTypeCorrect`, `EveryKeyIsStoredHolds`,
  `RepeatsAreSpacedHolds`, and for the manager with bridge and panel `TypeCorrect`,
  `TableIsSuffixHolds`, `RowsOpenTheirAlertsHolds`. `AlertInv` relates the
  suppression map to the history of stored alerts: a key has an entry only if one
  of its alerts was stored, and then the timestamp of the last one; keys that were
  handled have an entry; and the newest alert in the store is the last one stored,
  although others were evicted. `PanelInv` says that the table is the end of the
  matching alerts, and all of them while it has room, and that what a tick has read
  lies between what it saw last and the total now.
- `QtProgramProofs`: `QtRunsTheFeed`, and with it `QtImplementsWindow`;
  `QtTypeCorrect`, `ExactUntilOverrunHolds`, `LostOnceBehindHolds`,
  `JoinedThreadsHaveEndedHolds`. `FeedInv` carries the ring's invariant and what a
  tick has read over to its second half; `LifeInv` says that
  helpers live inside the engine thread, and that main stops and joins the engine
  thread, the ML thread and the workers in this order, so that none of them is left
  when main ends.
- `NumberLemmas` has what these need of numbers: remainders, the least and the
  greatest of a set, sums over finite sets. The library's induction theorems take
  an operator and cannot be used; `NatsFromZero` states induction for a set
  of numbers, proved from the fact that a non-empty set of them has a least one.
  Every recursive definition that a theorem is about (sums, the matching alerts,
  the fail links, the search) is first shown to exist by it.

Every safety property that a passing run checks is a theorem. Only model-checked
are:

- liveness (`RunEnds`, `AcceptedIsProcessed`, `CatchesUp`,
  `QuitEnds`, `LoadEnds`), which is out of the prover's reach, and with it that no
  run that should not stop deadlocks;
- the six properties that the code does not have (section 3): each rests on TLC's
  counterexample.

## 5. What is not modelled, and the assumptions made

- Errors of a running `pcap_loop`, option parsing (`--workers 0`, which would make
  `hashToWorker` divide by zero, is assumed away by `PipelineAssumption`). `Pipeline`
  is the `--no-l2` run; layer 2 is `MLEngine`, which has the feeder's data race with
  the workers but not the pipeline around them.
- Memory ordering: `JobQueue` is sequentially consistent. With acquire and release
  on the two indices that is what one producer and one consumer observe.
- Floating point: rates and ratios are fractions of integers, and scores are
  rounded down to thousandths. What an ONNX model answers is any score of a set.
- The rules read the clock when a packet is processed and not its timestamp, so
  that a replayed file is judged by the speed of the replay: the model lets the
  clock move freely, and does not relate it to capture time.
- Closing a tab while a scan thread runs, which destroys what the thread uses: a
  use after free has no outcome to model. A tab in `PacketTab` is never closed, and
  the scan threads, which are detached and may outlive the window, are not among the
  threads of `QtProgram`.
- In a scan, frames of different sizes, and a snap length shorter than the other
  file's frames; a read outside of a mapping yields bytes or ends the process.
- `pcap_writer.cpp` beyond which frames `saveToFile` writes; the order and wording
  of columns; statistics and labels; the traffic chart and the metrics snapshot,
  which only read counters.
- Widgets, logging and printing; files of the repository that are empty (tests,
  web interface, eBPF, scripts) and `protocol_decoder.cpp`, which nothing calls.
  `evictAllRawData`, `FlowTable::remove`, `Metrics::reset`, `approve` and `reject`
  have no callers in the program; the first is in `PacketRing`, the last two are
  in `MLEngine` as what the administrators' interface will call.

## 6. Plan

Done: every component above except widgets, logger and decoder. Next, in this order:

1. `FlowRules` with several lives of a flow, joined to `Pipeline`, so that cleanup
   in the middle of an attack is part of the histories; capture time beside the
   steady clock.
2. Proofs of the safety half of the liveness properties: that the shutdown of
   `Pipeline` and of the Qt program is never blocked, that a wake-up of the job
   queue is lost only for the time-out of its wait, and that each load of a tab has
   exactly one scan or completion under way until it is shown.
3. Several tabs over one bridge, opened and closed.
