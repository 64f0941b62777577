------------------------------ MODULE LiveFeed ------------------------------
(***************************************************************************)
(* The live packets' part of UiBridge::onTimer (ui/qt/ui_bridge.cpp),      *)
(* reading the packet ring that the workers fill.  A tick reads            *)
(* totalReceived() without the mutex, decides how many records to take,    *)
(* and takes them with getRange under the mutex; pushes may come between.  *)
(* The program never clears this ring.                                     *)
(***************************************************************************)
EXTENDS PacketRing, Sequences, FiniteSetsExt

CONSTANTS FirstBatch,   \* max_batch_per_tick_ at the start
          Batches       \* what the measured packet rate may set it to

ASSUME LiveFeedAssumption == /\ FirstBatch \in Nat \ {0}
                             /\ Batches \subseteq Nat \ {0}

VARIABLES tick,                \* to_send, while a tick is between its reads
          max_batch_per_tick,  \* max_batch_per_tick_
          last_sent_seq,       \* last_sent_seq_
          sent,                \* history: the batches emitted, as sets of indices
          overrun              \* history: the ring overtook the feed at a tick

feedVars == <<tick, max_batch_per_tick, last_sent_seq, sent, overrun>>
allVars  == <<vars, feedVars>>

FeedTypeOK == /\ TypeOK
              /\ tick \in SUBSET Nat
              /\ max_batch_per_tick \in Batches \union {FirstBatch}
              /\ last_sent_seq \in 0 .. total
              /\ sent \in Seq(SUBSET (0 .. MaxTotal - 1))
              /\ overrun \in BOOLEAN

FeedInit == /\ Init
            /\ tick = {}
            /\ max_batch_per_tick = FirstBatch
            /\ last_sent_seq = 0
            /\ sent = << >> /\ overrun = FALSE

(* A worker in PacketRingBuffer::push: a captured packet has its bytes.    *)
PushesOne == (\E p \in Packets : PushBegins(p, TRUE)) /\ UNCHANGED feedVars
PushEnds  == PushStores /\ UNCHANGED feedVars

(* Fault: a single new record is not worth a tick.                         *)
TickSkipsTheLast ==
  /\ tick = {}
  /\ total > last_sent_seq + 1
  /\ \E b \in Batches \union {max_batch_per_tick} :
       /\ max_batch_per_tick' = b
       /\ tick' = {Min({total - last_sent_seq, b})}
  /\ UNCHANGED <<vars, last_sent_seq, sent, overrun>>

(* The batch adapts to the packet rate, once two samples exist.            *)
TickReadsTotal ==
  /\ tick = {}
  /\ total > last_sent_seq
  /\ \E b \in Batches \union {max_batch_per_tick} :
       /\ max_batch_per_tick' = b
       /\ tick' = {Min({total - last_sent_seq, b})}
  /\ UNCHANGED <<vars, last_sent_seq, sent, overrun>>

(* A record the feed has yet to take is no longer in the ring.             *)
Overtaken == last_sent_seq < oldestIndex

(* newPacketRecords; an empty batch is not emitted.                        *)
Emit(records) ==
  /\ sent' = IF records = {} THEN sent ELSE Append(sent, {r.index : r \in records})
  /\ overrun' = (overrun \/ Overtaken)

(* Fault: the cursor jumps to the newest record.                           *)
TickJumpsToNewest ==
  /\ ~pushing
  /\ \E to_send \in tick :
       LET records == getRange(last_sent_seq, last_sent_seq + to_send)
       IN  last_sent_seq' = total /\ Emit(records)
  /\ tick' = {}
  /\ UNCHANGED <<vars, max_batch_per_tick>>

(* Fault: the cursor advances by what a batch may hold.                    *)
TickAdvancesByBatch ==
  /\ ~pushing
  /\ \E to_send \in tick :
       LET records == getRange(last_sent_seq, last_sent_seq + to_send)
       IN  last_sent_seq' = last_sent_seq + max_batch_per_tick /\ Emit(records)
  /\ tick' = {}
  /\ UNCHANGED <<vars, max_batch_per_tick>>

(* The cursor advances by the number of records found.                     *)
TickSends ==
  /\ ~pushing
  /\ \E to_send \in tick :
       LET records == getRange(last_sent_seq, last_sent_seq + to_send)
       IN  last_sent_seq' = last_sent_seq + Cardinality(records) /\ Emit(records)
  /\ tick' = {}
  /\ UNCHANGED <<vars, max_batch_per_tick>>

(* A tick that finds nothing new returns at once.                          *)
Tick == TickReadsTotal \/ TickSends

FeedNext == PushesOne \/ PushEnds \/ Tick

FeedSpec == FeedInit /\ [][FeedNext]_allVars

-----------------------------------------------------------------------------
(*                                Properties                               *)

(* Until the ring overtakes it for the first time the feed emits every     *)
(* record up to its cursor once and in order (a batch lists its records by *)
(* index), although it reads the total while pushes are in progress.       *)
ExactUntilOverrun ==
  ~overrun =>
    /\ UNION {sent[k] : k \in DOMAIN sent} = 0 .. last_sent_seq - 1
    /\ \A k, l \in DOMAIN sent : k < l => \A i \in sent[k], j \in sent[l] : i < j

(* A feed that is a whole batch behind the ring's oldest record finds      *)
(* nothing in its range, does not move, and never emits a record again.    *)
HopelesslyBehind ==
  \A b \in Batches \union {FirstBatch} : last_sent_seq + b <= oldestIndex

LostOnceBehind == [][HopelesslyBehind => UNCHANGED <<last_sent_seq, sent>>]_allVars
=============================================================================
