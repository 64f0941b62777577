----------------------------- MODULE QtProgram ------------------------------
(***************************************************************************)
(* The life of the Qt program (ui_main.cpp, ui/qt/main_window.cpp) around  *)
(* its live feed: main runs the event loop, which starts the engine thread *)
(* and polls the feed; the engine thread captures, with an L2 feeder and a *)
(* cleanup thread of its own; the workers push what was dispatched; the ML *)
(* engine has a thread that main stops after the engine's.  The            *)
(* capture object is a local of the engine thread, and g_capture_ptr keeps *)
(* its address.                                                            *)
(***************************************************************************)
EXTENDS LiveFeed

VARIABLES live,         \* -i rather than -f
          app,          \* where main is, from app.exec() on
          engine,       \* where engineThread is
          helpers,      \* its L2 feeder and cleanup threads that run
          g_running,
          capture_ptr,  \* what g_capture_ptr points to
          running,      \* the capture's running_
          broken,       \* pcap_breakloop was called on its handle
          dispatched,   \* packets in the workers' queues
          ml_thread,    \* the ML engine's thread, running since before the window
          polling       \* the bridge's timer runs

engineVars == <<engine, helpers>>
stopVars   == <<g_running, capture_ptr, running, broken>>
workVars   == <<dispatched, ml_thread>>
qtVars     == <<live, app, engineVars, stopVars, workVars, polling>>
progVars   == <<allVars, qtVars>>

QtTypeOK ==
  /\ FeedTypeOK
  /\ live \in BOOLEAN /\ polling \in BOOLEAN
  /\ app \in {"exec", "quitting", "stopping", "joining", "stopping_ml", "joining_ml",
              "stopping_workers", "over", "crashed"}
  /\ engine \in {"none", "started", "opening", "opened", "capturing", "ending", "joining", "exited"}
  /\ helpers \subseteq {"l2_feeder", "cleanup"}
  /\ g_running \in BOOLEAN /\ running \in BOOLEAN /\ broken \in BOOLEAN
  /\ capture_ptr \in {"null", "capture", "dangling"}
  /\ dispatched \in Nat /\ total + dispatched <= MaxTotal
  /\ ml_thread \in {"running", "told", "ended"}

(* The window is shown, polling, and the start of the engine is posted.    *)
QtInit ==
  /\ FeedInit
  /\ live \in BOOLEAN /\ polling = TRUE
  /\ app = "exec" /\ engine = "none" /\ helpers = {}
  /\ g_running = TRUE /\ capture_ptr = "null" /\ running = FALSE /\ broken = FALSE
  /\ dispatched = 0 /\ ml_thread = "running"

(* The GUI thread is at its event loop, between two events.                *)
AtEventLoop == app = "exec" /\ tick = {}

Alive == app \notin {"over", "crashed"}

-----------------------------------------------------------------------------
(*                                Stopping                                 *)

(* Fault: the loop is told to stop by the flag alone.                      *)
stopCaptureByFlag(next) ==
  IF capture_ptr = "capture" /\ running
  THEN running' = FALSE /\ app' = next /\ UNCHANGED broken
  ELSE UNCHANGED <<running, broken>> /\ app' \in {next}

(* if (g_capture_ptr) g_capture_ptr->stopCapture(), which does nothing     *)
(* unless the capture is running.  The memory of a capture that is gone    *)
(* may hold anything: nothing happens, or the process dies.                *)
stopCapture(next) ==
  IF capture_ptr = "capture" /\ running
  THEN running' = FALSE /\ broken' = TRUE /\ app' = next
  ELSE /\ UNCHANGED <<running, broken>>
       /\ app' \in {next} \union IF capture_ptr = "dangling" THEN {"crashed"} ELSE {}

Stop(next) ==
  /\ g_running' = FALSE /\ stopCapture(next)
  /\ UNCHANGED <<allVars, live, engineVars, capture_ptr, workVars, polling>>

(* SIGINT or SIGTERM; the window stays.                                    *)
signalHandler == Alive /\ Stop(app)

(* Quit in the menu, or the window is closed, which stops the polling.     *)
Quit ==
  /\ AtEventLoop /\ app' = "quitting" /\ polling' \in {polling, FALSE}
  /\ UNCHANGED <<allVars, live, engineVars, stopVars, workVars>>

aboutToQuit == app = "quitting" /\ Stop("stopping")
AfterExec   == app = "stopping" /\ Stop("joining")

JoinEngine ==
  /\ app = "joining" /\ engine \in {"none", "exited"}
  /\ app' = "stopping_ml"
  /\ UNCHANGED <<allVars, live, engineVars, stopVars, workVars, polling>>

(* ml_engine.stop(): the thread is told to stop, and joined.               *)
MLEngineStops ==
  /\ app = "stopping_ml" /\ app' = "joining_ml" /\ ml_thread' = "told"
  /\ UNCHANGED <<allVars, live, engineVars, stopVars, dispatched, polling>>

JoinMLThread ==
  /\ app = "joining_ml" /\ ml_thread = "ended" /\ app' = "stopping_workers"
  /\ UNCHANGED <<allVars, live, engineVars, stopVars, workVars, polling>>

(* dispatcher.stop(): a worker ends the packet it is at, or one more, and  *)
(* is joined.  What its queue still holds is lost.                         *)
DispatcherStops ==
  /\ app = "stopping_workers" /\ ~pushing
  /\ app' = "over"
  /\ UNCHANGED <<allVars, live, engineVars, stopVars, workVars, polling>>

-----------------------------------------------------------------------------
(*                             The event loop                              *)

StartEngine ==
  /\ AtEventLoop /\ engine = "none" /\ engine' = "started"
  /\ UNCHANGED <<allVars, live, app, helpers, stopVars, workVars, polling>>

(* Pause Monitoring only stops the polling; the capture goes on.           *)
onToggleCapture ==
  /\ AtEventLoop /\ polling' = ~polling
  /\ UNCHANGED <<allVars, live, app, engineVars, stopVars, workVars>>

(* A tick is one event: it goes on to its end.                             *)
Poll == app = "exec" /\ (polling \/ tick # {}) /\ Tick /\ UNCHANGED qtVars

-----------------------------------------------------------------------------
(*                      The engine and worker threads                      *)

EngineMoves(from, to) ==
  /\ Alive /\ engine = from /\ engine' = to
  /\ UNCHANGED <<allVars, live, app, workVars, polling>>

EnginePublishes ==
  /\ EngineMoves("started", "opening") /\ capture_ptr' = "capture"
  /\ UNCHANGED <<helpers, g_running, running, broken>>

EngineFailsToOpen ==
  /\ EngineMoves("opening", "exited")
  /\ g_running' = FALSE /\ capture_ptr' = "dangling"
  /\ UNCHANGED <<helpers, running, broken>>

EngineOpens ==
  /\ EngineMoves("opening", "opened") /\ helpers' = {"l2_feeder", "cleanup"}
  /\ UNCHANGED stopVars

startCapture ==
  /\ EngineMoves("opened", "capturing") /\ running' = TRUE
  /\ UNCHANGED <<helpers, g_running, capture_ptr, broken>>

(* pcap_loop delivers a frame.  Once stopped it is ignored.                *)
Dispatch ==
  /\ Alive /\ engine = "capturing" /\ ~broken /\ running /\ g_running
  /\ total + dispatched < MaxTotal
  /\ dispatched' = dispatched + 1
  /\ UNCHANGED <<allVars, live, app, engineVars, stopVars, ml_thread, polling>>

(* pcap_loop returns at the end of a file, or when it was broken.          *)
LoopEnds ==
  /\ EngineMoves("capturing", "ending") /\ (~live \/ broken) /\ running' = FALSE
  /\ UNCHANGED <<helpers, g_running, capture_ptr, broken>>

EngineEnds ==
  /\ EngineMoves("ending", "joining") /\ g_running' = FALSE
  /\ UNCHANGED <<helpers, capture_ptr, running, broken>>

(* Fault: the helper threads are not waited for.                           *)
EngineExitsAlone ==
  /\ EngineMoves("joining", "exited") /\ capture_ptr' = "dangling"
  /\ UNCHANGED <<helpers, g_running, running, broken>>

EngineExits ==
  /\ EngineMoves("joining", "exited") /\ helpers = {} /\ capture_ptr' = "dangling"
  /\ UNCHANGED <<helpers, g_running, running, broken>>

HelperEnds ==
  /\ Alive /\ ~g_running
  /\ \E h \in helpers : helpers' = helpers \ {h}
  /\ UNCHANGED <<allVars, live, app, engine, stopVars, workVars, polling>>

WorkerBegins ==
  /\ Alive /\ dispatched > 0 /\ PushesOne /\ dispatched' = dispatched - 1
  /\ UNCHANGED <<live, app, engineVars, stopVars, ml_thread, polling>>

WorkerEnds == Alive /\ PushEnds /\ UNCHANGED qtVars

MLThreadEnds ==
  /\ Alive /\ ml_thread = "told" /\ ml_thread' = "ended"
  /\ UNCHANGED <<allVars, live, app, engineVars, stopVars, dispatched, polling>>

Main   == aboutToQuit \/ AfterExec \/ JoinEngine \/ MLEngineStops \/ JoinMLThread
            \/ DispatcherStops
Engine == EnginePublishes \/ EngineFailsToOpen \/ EngineOpens \/ startCapture
            \/ LoopEnds \/ EngineEnds \/ EngineExits

QtNext == \/ signalHandler \/ Quit \/ Main
          \/ StartEngine \/ onToggleCapture \/ Poll
          \/ Engine \/ Dispatch \/ HelperEnds
          \/ WorkerBegins \/ WorkerEnds \/ MLThreadEnds

(* Threads run, a file ends, the timer of a polling bridge keeps firing.   *)
(* Frames need not arrive, and nobody need quit.                           *)
QtFairness ==
  /\ WF_progVars(Main) /\ WF_progVars(Engine) /\ WF_progVars(HelperEnds)
  /\ WF_progVars(WorkerBegins) /\ WF_progVars(WorkerEnds) /\ WF_progVars(Poll)
  /\ WF_progVars(MLThreadEnds)

QtSpec == QtInit /\ [][QtNext]_progVars /\ QtFairness

-----------------------------------------------------------------------------
(*                                Properties                               *)

(* When main comes to its end, every thread it joins has ended: the engine *)
(* thread with its helpers, the ML engine's thread and the workers,        *)
(* whenever a stop comes and from whomever.  (The scan threads of the tabs *)
(* are detached, are not among them, and may outlive the window: see       *)
(* PacketTab.)                                                             *)
JoinedThreadsHaveEnded ==
  app = "over" => /\ engine \in {"none", "exited"} /\ helpers = {}
                  /\ ml_thread = "ended" /\ ~pushing

(* While the bridge polls, every record that enters the ring is sent,      *)
(* unless the feed is overtaken - as it may be while monitoring is paused. *)
CatchesUp ==
  \A n \in 1 .. MaxTotal :
    (total >= n) ~> (last_sent_seq >= n \/ Overtaken \/ ~polling \/ app # "exec")

(* Quitting a program that reads a file, or that is capturing, ends it.    *)
(* (A stop that comes before startCapture is lost: a live capture that is  *)
(* quit then goes on, and main waits for it.)                              *)
QuitEnds ==
  (app = "quitting" /\ (running \/ ~live)) ~> (app \in {"over", "crashed"})
=============================================================================
