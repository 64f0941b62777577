------------------------------ MODULE JobQueue ------------------------------
(***************************************************************************)
(* layer2/data_queue.hpp's RingBuffer (MLJobQueue) between its ends: the   *)
(* feeder threads that push jobs and the MLEngine thread that pops and     *)
(* processes them until it is stopped.  push takes no lock: it loads head, *)
(* compares with tail, fills the slot, and publishes it by storing head.   *)
(* One step is one access to shared memory; pop's mutex is taken by the    *)
(* consumer alone and excludes nobody.  Loads and stores are sequentially  *)
(* consistent here: with acquire and release on head and tail, that is     *)
(* what one producer and one consumer observe.                             *)
(*                                                                         *)
(* accepted, received and refused are history: what the calls returned.    *)
(***************************************************************************)
EXTENDS Integers, Sequences

CONSTANTS Producers,   \* the threads that push
          Capacity,    \* size of buffer_
          MaxJobs      \* bound: calls of push

ASSUME JobQueueAssumption == Capacity \in Nat \ {0, 1} /\ MaxJobs \in Nat

Jobs  == 1 .. MaxJobs
NoJob == 0
Slots == 0 .. Capacity - 1

VARIABLES buffer,    \* buffer_
          head,      \* head_: the next slot to fill
          tail,      \* tail_: the next slot to empty
          made,      \* jobs made so far
          ppc,       \* where each producer is in push
          job,       \* the job it is pushing
          at,        \* the value of head_ it has loaded
          running,   \* MLEngine::running_
          cpc,       \* where the MLEngine thread is
          item,      \* the job it is working on
          accepted, received, refused

queueVars    == <<buffer, head, tail>>
producerVars == <<made, ppc, job, at>>
consumerVars == <<cpc, item>>
vars == <<queueVars, producerVars, running, consumerVars,
          accepted, received, refused>>

TypeOK ==
  /\ buffer \in [Slots -> Jobs \union {NoJob}]
  /\ head \in Slots /\ tail \in Slots
  /\ made \in 0 .. MaxJobs
  /\ ppc \in [Producers -> {"idle", "full?", "fill", "publish"}]
  /\ job \in [Producers -> Jobs \union {NoJob}]
  /\ at \in [Producers -> Slots]
  /\ running \in BOOLEAN
  /\ cpc \in {"loop", "check", "wait", "asleep", "take", "advance", "process", "done"}
  /\ item \in Jobs \union {NoJob}
  /\ accepted \in Seq(Jobs \union {NoJob})
  /\ received \in Seq(Jobs \union {NoJob})
  /\ refused \in Nat

Init ==
  /\ buffer = [s \in Slots |-> NoJob]
  /\ head = 0 /\ tail = 0
  /\ made = 0
  /\ ppc = [p \in Producers |-> "idle"]
  /\ job = [p \in Producers |-> NoJob]
  /\ at = [p \in Producers |-> 0]
  /\ running = TRUE
  /\ cpc = "loop" /\ item = NoJob
  /\ accepted = << >> /\ received = << >> /\ refused = 0

(* Fault: the index wraps one slot late.                                   *)
NextSlotUnwrapped(s) == IF s < Capacity THEN s + 1 ELSE 0

NextSlot(s) == (s + 1) % Capacity

-----------------------------------------------------------------------------
(*                                  push                                   *)

ProducerStep(p, from, to) == ppc[p] = from /\ ppc' = [ppc EXCEPT ![p] = to]

(* The feeder has a job for push, which loads head_.                       *)
LoadHead(p) ==
  /\ ProducerStep(p, "idle", "full?")
  /\ running   \* the feeders are joined before MLEngine::stop
  /\ made < MaxJobs
  /\ made' = made + 1
  /\ job' = [job EXCEPT ![p] = made + 1]
  /\ at' = [at EXCEPT ![p] = head]
  /\ UNCHANGED <<queueVars, running, consumerVars, accepted, received, refused>>

(* Fault: no test for a full queue.                                        *)
NeverRefuse(p) ==
  /\ ProducerStep(p, "full?", "fill")
  /\ UNCHANGED <<queueVars, made, job, at, running, consumerVars,
                 accepted, received, refused>>

(* next == tail_: the queue is full, push returns false.                   *)
CheckFull(p) ==
  /\ IF NextSlot(at[p]) = tail
       THEN ProducerStep(p, "full?", "idle") /\ refused' = refused + 1
       ELSE ProducerStep(p, "full?", "fill") /\ UNCHANGED refused
  /\ UNCHANGED <<queueVars, made, job, at, running, consumerVars, accepted, received>>

(* Fault: the job is stored at next and not at head.                       *)
FillNextSlot(p) ==
  /\ ProducerStep(p, "fill", "publish")
  /\ buffer' = [buffer EXCEPT ![NextSlot(at[p])] = job[p]]
  /\ UNCHANGED <<head, tail, made, job, at, running, consumerVars,
                 accepted, received, refused>>

Fill(p) ==
  /\ ProducerStep(p, "fill", "publish")
  /\ buffer' = [buffer EXCEPT ![at[p]] = job[p]]
  /\ UNCHANGED <<head, tail, made, job, at, running, consumerVars,
                 accepted, received, refused>>

(* head_.store, then notify_one, which wakes the consumer if it is asleep  *)
(* by now and is lost otherwise; push returns true.                        *)
Publish(p) ==
  /\ ProducerStep(p, "publish", "idle")
  /\ head' = NextSlot(at[p])
  /\ accepted' = Append(accepted, job[p])
  /\ cpc' = IF cpc = "asleep" THEN "check" ELSE cpc
  /\ UNCHANGED <<buffer, tail, made, job, at, running, item, received, refused>>

Push(p) == LoadHead(p) \/ CheckFull(p) \/ Fill(p) \/ Publish(p)

-----------------------------------------------------------------------------
(*                     pop, called by MLEngine::run                        *)

ConsumerStep(from, to) == cpc = from /\ cpc' = to

(* while (running_): the flag is read before each pop.                     *)
CheckRunning ==
  /\ ConsumerStep("loop", IF running THEN "check" ELSE "done")
  /\ UNCHANGED <<queueVars, producerVars, running, item, accepted, received, refused>>

(* wait_for evaluates its predicate before it blocks ...                   *)
CheckReady ==
  /\ ConsumerStep("check", IF tail # head THEN "take" ELSE "wait")
  /\ UNCHANGED <<queueVars, producerVars, running, item, accepted, received, refused>>

(* ... and push, which does not take the mutex, may publish in between.    *)
FallAsleep ==
  /\ ConsumerStep("wait", "asleep")
  /\ UNCHANGED <<queueVars, producerVars, running, item, accepted, received, refused>>

(* Fault: wait() in place of wait_for().                                   *)
NeverTimesOut == FALSE /\ UNCHANGED vars

(* 200 ms later the predicate decides; if it still fails pop returns       *)
(* nullopt and run() starts over.                                          *)
TimesOut ==
  /\ ConsumerStep("asleep", IF tail # head THEN "take" ELSE "loop")
  /\ UNCHANGED <<queueVars, producerVars, running, item, accepted, received, refused>>

(* std::move(buffer_[tail]): the slot is read while tail_ still names it.  *)
Take ==
  /\ ConsumerStep("take", "advance")
  /\ item' = buffer[tail]
  /\ UNCHANGED <<queueVars, producerVars, running, accepted, received, refused>>

(* tail_.store: the slot is given back and pop returns the item.           *)
Advance ==
  /\ ConsumerStep("advance", "process")
  /\ tail' = NextSlot(tail)
  /\ received' = Append(received, item)
  /\ UNCHANGED <<buffer, head, producerVars, running, item, accepted, refused>>

(* processJob, and the callback for an anomaly.                            *)
Process ==
  /\ ConsumerStep("process", "loop")
  /\ item' = NoJob
  /\ UNCHANGED <<queueVars, producerVars, running, accepted, received, refused>>

Consumer == \/ CheckRunning \/ CheckReady \/ FallAsleep \/ TimesOut
            \/ Take \/ Advance \/ Process

(* MLEngine::stop, after the feeders have been joined.                     *)
Stop ==
  /\ running /\ running' = FALSE
  /\ \A p \in Producers : ppc[p] = "idle"
  /\ UNCHANGED <<queueVars, producerVars, consumerVars, accepted, received, refused>>

(* MLEngine::stop has joined the thread.                                   *)
Stopped == cpc = "done" /\ UNCHANGED vars

Next == (\E p \in Producers : Push(p)) \/ Consumer \/ Stop \/ Stopped

(* The feeder, once in push, and the engine's thread keep running, and     *)
(* wait_for does return.  Nobody has to stop the engine.                   *)
Fairness == /\ \A p \in Producers : WF_vars(CheckFull(p) \/ Fill(p) \/ Publish(p))
            /\ WF_vars(Consumer)

Spec == Init /\ [][Next]_vars /\ Fairness

-----------------------------------------------------------------------------
(*                                Properties                               *)

(* With one producer no slot is written while the consumer moves a job out *)
(* of it, and until it has given the slot back, although push compares     *)
(* with a tail_ that pop may be moving.                                    *)
NoTornSlot ==
  \A p \in Producers : ppc[p] = "fill" => ~(cpc \in {"take", "advance"} /\ at[p] = tail)

(* The queue with its two indices implements the bounded FIFO, although    *)
(* one of Capacity slots must stay empty to tell full from empty.          *)
Fifo == INSTANCE BoundedFifo WITH Limit <- Capacity - 1

ImplementsFifo == Fifo!Spec

(* A job push has accepted is processed unless the engine is stopped first *)
(* - in spite of notifications that come before the consumer is asleep.    *)
AcceptedIsProcessed ==
  \A n \in Jobs : (Len(accepted) >= n) ~> (Len(received) >= n \/ ~running)

(* With one producer, every job push has returned true for is still in its *)
(* slot or has been received, in the order of acceptance.                  *)
NoJobLost ==
  \A i \in 1 .. Len(accepted) :
    IF i <= Len(received)
      THEN received[i] = accepted[i]
      ELSE buffer[(i - 1) % Capacity] = accepted[i]

Occupied == {(tail + n) % Capacity : n \in 0 .. ((head - tail) % Capacity) - 1}

(* data_queue.hpp:24 calls the queue one of many producers and a single    *)
(* consumer.  Whoever pushed it, a job that push has accepted would then   *)
(* be between tail_ and head_, or have been received.                      *)
ManyProducersLoseNoJob ==
  \A i \in 1 .. Len(accepted) :
    \/ \E n \in 1 .. Len(received) : received[n] = accepted[i]
    \/ \E s \in Occupied : buffer[s] = accepted[i]
=============================================================================
