------------------------------ MODULE MLEngine ------------------------------
(***************************************************************************)
(* Layer 2 of the program: the feeder, which main starts, reads the flow   *)
(* table and pushes jobs to the queue; the MLEngine thread pops, judges    *)
(* and reports them; FeedbackLoop collects proposals for administrators.   *)
(* The workers write the flows meanwhile, without the lock that the feeder *)
(* holds.  JobQueue is the queue between the threads.                      *)
(***************************************************************************)
EXTENDS JobQueue, Inference, SequencesExt

CONSTANTS FlowLives,       \* for each flow, the FlowStates it goes through
          IFScores, AEScores,   \* what ONNX models may answer, of 1000
          Administrators,
          MIN_CONFIDENCE

Flows == DOMAIN FlowLives

ASSUME MLEngineAssumption ==
  /\ \A f \in Flows : FlowLives[f] # << >> /\ FlowLives[f] \in Seq(FlowState)
  /\ IFScores \subseteq 0 .. 1000 /\ AEScores \subseteq 0 .. 1000
  /\ MIN_CONFIDENCE = 700

VARIABLES age,              \* for each flow, the FlowState it has reached
          features,         \* the FlowState that each job in being was made of
          source,           \* the flow of each job in being
          mock,             \* whether if_model_ and ae_model_ are mocks
          anomalies_found,  \* anomalies_found_
          pending,          \* pending_proposals_
          views             \* what each administrator has fetched

engineVars == <<age, features, source, mock, anomalies_found, pending, views>>
allVars    == <<vars, engineVars>>

NoFlow == "none"
NoFeatures == << >>

ThreatTypes  == {"SLOW_DDOS", "DDOS_VOLUMETRIC", "PORT_SCAN"}
RuleProposal == [type : {"ADD_TO_BLACKLIST", "REDUCE_TIMEOUT"}, src_ip : Flows, timestamp : Jobs]

EngineTypeOK ==
  /\ TypeOK
  /\ \A f \in Flows : age[f] \in DOMAIN FlowLives[f]
  /\ DOMAIN features = Jobs /\ \A j \in Jobs : features[j] \in FlowState \union {NoFeatures}
  /\ source \in [Jobs -> Flows \union {NoFlow}]
  /\ mock \in [{"IF", "AE"} -> BOOLEAN]
  /\ anomalies_found \in 0 .. made
  /\ pending \in Seq(RuleProposal) /\ Len(pending) <= anomalies_found
  /\ views \in [Administrators -> [seen : Seq(RuleProposal), fresh : BOOLEAN]]

(* start: without ONNX Runtime, or if a model cannot be loaded, a mock is  *)
(* used in its place, whatever use_mock says.                              *)
EngineInit ==
  /\ Init
  /\ age = [f \in Flows |-> 1]
  /\ features = [j \in Jobs |-> NoFeatures] /\ source = [j \in Jobs |-> NoFlow]
  /\ mock \in [{"IF", "AE"} -> BOOLEAN]
  /\ anomalies_found = 0 /\ pending = << >>
  /\ views = [a \in Administrators |-> [seen |-> << >>, fresh |-> TRUE]]

-----------------------------------------------------------------------------
(*                         The feeder and the workers                      *)

(* A worker has handled another packet of the flow.                        *)
WorkerWrites(f) ==
  /\ age[f] < Len(FlowLives[f])
  /\ age' = [age EXCEPT ![f] = @ + 1]
  /\ UNCHANGED <<vars, features, source, mock, anomalies_found, pending, views>>

(* A FlowState as the feeder may read it, field by field, while a worker   *)
(* is writing the next one.                                                *)
Readings(f, k) ==
  LET old    == FlowLives[f][k]
      new    == FlowLives[f][Min({k + 1, Len(FlowLives[f])})]
      differ == {n \in DOMAIN old : old[n] # new[n]}
  IN  {[n \in DOMAIN old |-> IF n \in written THEN new[n] ELSE old[n]] : written \in SUBSET differ}

(* forEachFlow comes to a flow, in no particular order.                    *)
Feed(p, f) ==
  /\ LoadHead(p)
  /\ \E read \in Readings(f, age[f]) :
       /\ read.total_packets >= 5 /\ ~read.is_malicious
       /\ features' = [features EXCEPT ![made'] = read]
  /\ source' = [source EXCEPT ![made'] = f]
  /\ UNCHANGED <<age, mock, anomalies_found, pending, views>>

Forget(j) == /\ features' = [features EXCEPT ![j] = NoFeatures]
             /\ source' = [source EXCEPT ![j] = NoFlow]

(* The rest of push; a refused job is gone.                                *)
FeederPushes(p) ==
  \/ /\ CheckFull(p)
     /\ IF refused' # refused THEN Forget(job[p]) ELSE UNCHANGED <<features, source>>
     /\ UNCHANGED <<age, mock, anomalies_found, pending, views>>
  \/ (Fill(p) \/ Publish(p)) /\ UNCHANGED engineVars

-----------------------------------------------------------------------------
(*                       The engine and the feedback loop                  *)

(* The features are normalized, and each model judges them.                *)
processJob(j) ==
  UNION {{combineResults(i, a, fv) : i \in infer(mock["IF"], MockIsolationForest(fv), IFScores, IF_THRESHOLD),
                                     a \in infer(mock["AE"], MockAutoencoder(fv), AEScores, AE_THRESHOLD)} :
         fv \in {normalize(extract(fl)) : fl \in {features[j]}}}

buildProposal(j, result) ==
  [type |-> IF result = "SLOW_DDOS" THEN "REDUCE_TIMEOUT" ELSE "ADD_TO_BLACKLIST",
   src_ip |-> source[j], timestamp |-> j]

(* Fault: every anomaly becomes a proposal.                                *)
onMLResultAlways(j, r) == pending' = Append(pending, buildProposal(j, r.result))

(* Fault: the latest proposal comes first.                                 *)
onMLResultFirst(j, r) ==
  pending' = IF r.confidence < MIN_CONFIDENCE THEN pending
             ELSE <<buildProposal(j, r.result)>> \o pending

onMLResult(j, r) ==
  pending' = IF r.confidence < MIN_CONFIDENCE THEN pending
             ELSE Append(pending, buildProposal(j, r.result))

(* run: the job is judged; an anomaly is counted and reported to the alert *)
(* manager and the feedback loop.                                          *)
Judge ==
  /\ Process
  /\ \E r \in processJob(item) :
       IF r.result = "NORMAL" THEN UNCHANGED <<anomalies_found, pending>>
       ELSE anomalies_found' = anomalies_found + 1 /\ onMLResult(item, r)
  /\ Forget(item)
  /\ UNCHANGED <<age, mock, views>>

Pops == \/ CheckRunning \/ CheckReady \/ FallAsleep \/ TimesOut
        \/ Take \/ Advance

EngineThread == Judge \/ (Pops /\ UNCHANGED engineVars)

(* The dashboard shows an administrator a copy of the list ...             *)
getPendingProposals(a) ==
  /\ views[a] # [seen |-> pending, fresh |-> TRUE]
  /\ views' = [views EXCEPT ![a] = [seen |-> pending, fresh |-> TRUE]]
  /\ UNCHANGED <<vars, age, features, source, mock, anomalies_found, pending>>

(* ... and takes the place in it for the place in pending_proposals_.      *)
(* Approved or rejected, the proposal is erased: all other copies are old. *)
Decide(a, i) ==
  /\ i \in DOMAIN views[a].seen
  /\ pending' = IF i \in DOMAIN pending THEN RemoveAt(pending, i) ELSE pending
  /\ views' = IF i \in DOMAIN pending THEN [b \in Administrators |-> [views[b] EXCEPT !.fresh = FALSE]]
              ELSE views
  /\ UNCHANGED <<vars, age, features, source, mock, anomalies_found>>

EngineNext ==
  \/ \E f \in Flows : WorkerWrites(f)
  \/ \E p \in Producers : FeederPushes(p) \/ \E f \in Flows : Feed(p, f)
  \/ EngineThread
  \/ \E a \in Administrators : getPendingProposals(a) \/ \E i \in Jobs : Decide(a, i)
  \/ (Stop \/ Stopped) /\ UNCHANGED engineVars

(* The threads are as fair as JobQueue's; nobody has to look at proposals. *)
EngineSpec == EngineInit /\ [][EngineNext]_allVars /\ Fairness

-----------------------------------------------------------------------------
(*                                Properties                               *)

Mocks == mock["IF"] /\ mock["AE"]

(* The mocks see features that were normalized, once or twice, and compare *)
(* them with thresholds for raw ones: neither comes near the confidence of *)
(* a proposal, and in a build without ONNX Runtime nobody is ever asked.   *)
MocksNeverPropose == Mocks => pending = << >>

(* What three features, in thousandths, add to the autoencoder's sum.      *)
RatioDistance(fl) ==
    Square(PerMille(Ratio(Min({fl.syn_no_ack, fl.syn_count}), fl.syn_count)) - 50)
  + Square(PerMille(Ratio(Min({fl.rst_count, fl.total_packets}), fl.total_packets)) - 20)
  + Square(When(fl.http_header_complete, 1000) - 1000)

(* With the mocks, a flow is reported for its share of unanswered SYNs and *)
(* of RSTs and its missing HTTP header, and for nothing else: rates,       *)
(* durations, sizes and ports, which the other 18 features describe, have  *)
(* no weight left.  Every TLS connection seen from its SYN is reported, no *)
(* UDP flood is.                                                           *)
RatiosDecide ==
  [][cpc = "process" /\ cpc' # cpc /\ Mocks =>
       LET reported == anomalies_found' > anomalies_found
       IN  /\ RatioDistance(features[item]) > 1050000 => reported
           /\ reported => RatioDistance(features[item]) > 1050000 - 100]_allVars

(* A place in an administrator's copy of the list names the same proposal  *)
(* in the list, whatever the engine adds, until a decision is taken: then  *)
(* every copy is to be fetched again.                                      *)
FreshViewsAreExact ==
  \A a \in Administrators : views[a].fresh => IsPrefix(views[a].seen, pending)
=============================================================================
