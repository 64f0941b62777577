---------------------------- MODULE AlertManager ----------------------------
(***************************************************************************)
(* dashboard/alert_manager.cpp: the alerts of both layers, deduplicated    *)
(* and kept for the user interface.  addAlert is called by every worker    *)
(* (through onL1Alert) and by the MLEngine thread (through onL2Alert).  It *)
(* counts the alert before it takes the mutex, and suppresses, evicts and  *)
(* stores under it: two steps, and another caller may come in between.     *)
(*                                                                         *)
(* stored and handled are history: every alert ever stored, and the keys   *)
(* of the calls that have returned.                                        *)
(***************************************************************************)
EXTENDS Integers, SequencesExt

CONSTANTS Callers,       \* the threads that raise alerts
          LayerOf,       \* of each caller: "L1" for a worker, "L2" for MLEngine
          Keys,          \* dedup keys: addresses, ports and threat
          ThreatOf,      \* the threat a key names
          Times,         \* timestamps that occur, per layer
          SUPPRESS_SEC,
          max_alerts,    \* max_alerts_
          MaxCalls       \* bound: calls of addAlert

Threats == {"DDOS_VOLUMETRIC", "SLOW_DDOS", "PORT_SCAN"}

(* A timestamp is a packet's, in Unix time, for L1, and a reading of the   *)
(* monotonic clock for L2: nothing orders those of different alerts.       *)
ASSUME AlertManagerAssumption ==
  /\ LayerOf \in [Callers -> {"L1", "L2"}]
  /\ ThreatOf \in [Keys -> Threats]
  /\ Times \in [{"L1", "L2"} -> SUBSET Nat]
  /\ SUPPRESS_SEC \in Nat \ {0}
  /\ max_alerts \in Nat \ {0}
  /\ MaxCalls \in Nat

(* no: which call of addAlert it comes from.                               *)
UnifiedAlert == [no : 1 .. MaxCalls, key : Keys, source : {"L1", "L2"}, timestamp : Nat]

VARIABLES calling,      \* the alert each caller has counted and not handled, if any
          counted,      \* total_alerts_ and, by threat, the other counters
          alerts,       \* alerts_: the latest max_alerts stored
          suppress_map, \* suppress_map_: a timestamp for each key stored
          stored, handled

managerVars == <<calling, counted, alerts, suppress_map, stored, handled>>

Idle == {}

ManagerTypeOK ==
  /\ calling \in [Callers -> SUBSET UnifiedAlert]
  /\ \A c \in Callers : Cardinality(calling[c]) <= 1
  /\ counted \in [Threats \union {"total"} -> 0 .. MaxCalls]
  /\ alerts \in Seq(UnifiedAlert) /\ Len(alerts) <= max_alerts
  /\ DOMAIN suppress_map \subseteq Keys
  /\ \A k \in DOMAIN suppress_map : suppress_map[k] \in Nat
  /\ stored \in Seq(UnifiedAlert)
  /\ handled \subseteq Keys

ManagerInit ==
  /\ calling = [c \in Callers |-> Idle]
  /\ counted = [t \in Threats \union {"total"} |-> 0]
  /\ alerts = << >>
  /\ suppress_map = << >>
  /\ stored = << >> /\ handled = {}

totalAlerts == counted["total"]

(* addL1Alert or addL2Alert, and addAlert up to the lock: the total and    *)
(* the threat's counter, which the code increments one after the other.    *)
CountAlert(c) ==
  /\ calling[c] = Idle
  /\ totalAlerts < MaxCalls
  /\ \E k \in Keys, t \in Times[LayerOf[c]] :
       /\ calling' = [calling EXCEPT ![c] =
            {[no |-> totalAlerts + 1, key |-> k, source |-> LayerOf[c], timestamp |-> t]}]
       /\ counted' = [counted EXCEPT !["total"] = @ + 1, ![ThreatOf[k]] = @ + 1]
  /\ UNCHANGED <<alerts, suppress_map, stored, handled>>

(* Fault: a missing key counts as stored at time 0.                        *)
SuppressUnknownToo(k) ==
  /\ alerts # << >>
  /\ Last(alerts).timestamp
       - (IF k \in DOMAIN suppress_map THEN suppress_map[k] ELSE 0) < SUPPRESS_SEC

(* A key stored before is compared with the newest stored alert, whatever  *)
(* its key: the alert at hand is not asked for its timestamp.              *)
shouldSuppress(k) ==
  /\ k \in DOMAIN suppress_map
  /\ alerts # << >>
  /\ Last(alerts).timestamp - suppress_map[k] < SUPPRESS_SEC

(* Fault: insert() in place of assignment: the first time stays.           *)
RememberTheFirst(a) ==
  suppress_map' = [k \in DOMAIN suppress_map \union {a.key} |->
                     IF k \in DOMAIN suppress_map THEN suppress_map[k] ELSE a.timestamp]

Remember(a) ==
  suppress_map' = [k \in DOMAIN suppress_map \union {a.key} |->
                     IF k = a.key THEN a.timestamp ELSE suppress_map[k]]

(* Fault: the oldest alert is not evicted.                                 *)
StoreWithoutEvicting(a) ==
  Remember(a) /\ alerts' = Append(alerts, a) /\ stored' = Append(stored, a)

Store(a) ==
  /\ Remember(a)
  /\ alerts' = Append(IF Len(alerts) >= max_alerts THEN Tail(alerts) ELSE alerts, a)
  /\ stored' = Append(stored, a)

(* addAlert under the lock.                                                *)
HandleAlert(c) ==
  /\ \E a \in calling[c] :
       /\ IF shouldSuppress(a.key)
            THEN UNCHANGED <<alerts, suppress_map, stored>>
            ELSE Store(a)
       /\ handled' = handled \union {a.key}
  /\ calling' = [calling EXCEPT ![c] = Idle]
  /\ UNCHANGED counted

addAlert(c) == CountAlert(c) \/ HandleAlert(c)

(* getRecent: the newest n alerts, oldest first.                           *)
getRecent(n) == IF n >= Len(alerts) THEN alerts
                ELSE SubSeq(alerts, Len(alerts) - n + 1, Len(alerts))

-----------------------------------------------------------------------------
(*                                Properties                               *)

(* Deduplication loses no attack: once addAlert has returned for a key,    *)
(* some alert of that key has been stored, whoever else raised alerts.     *)
EveryKeyIsStored == \A k \in handled : \E i \in DOMAIN stored : stored[i].key = k

(* What suppression does: an alert is never stored twice in a row for one  *)
(* key, and a repeat needs the alert stored just before it (of another     *)
(* key) to be SUPPRESS_SEC younger than the key's own last one.  A key     *)
(* that is alone is therefore stored only once, however long it goes on.   *)
RepeatsAreSpaced ==
  \A i, j \in DOMAIN stored :
    /\ i < j /\ stored[i].key = stored[j].key
    /\ \A m \in i + 1 .. j - 1 : stored[m].key # stored[i].key
    => /\ j > i + 1
       /\ stored[j - 1].timestamp - stored[i].timestamp >= SUPPRESS_SEC
=============================================================================
