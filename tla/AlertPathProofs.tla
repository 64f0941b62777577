-------------------------- MODULE AlertPathProofs ---------------------------
(***************************************************************************)
(* What the alert manager stores, for any threads that raise alerts, keys, *)
(* timestamps, sizes and suppression time, with the bridge and the panel   *)
(* reading it meanwhile; and what the panel makes of the batches it gets:  *)
(* its table is the newest of the alerts that match, and a double click on *)
(* a row opens the row's alert.                                            *)
(***************************************************************************)
EXTENDS AlertPath, SequenceTheorems, NumberLemmas

-----------------------------------------------------------------------------
(*                                  Types                                  *)

(* No threat is counted more often than all together.                      *)
CountsBounded == \A t \in Threats : counted[t] <= counted["total"]

(* What is typed of the manager, without the bounds on its containers.     *)
ManagerTypes ==
  /\ calling \in [Callers -> SUBSET UnifiedAlert]
  /\ counted \in [Threats \union {"total"} -> 0 .. MaxCalls]
  /\ alerts \in Seq(UnifiedAlert)
  /\ DOMAIN suppress_map \subseteq Keys
  /\ \A k \in DOMAIN suppress_map : suppress_map[k] \in Nat
  /\ stored \in Seq(UnifiedAlert)
  /\ handled \subseteq Keys

(* A caller has one alert in its hands at most, and the store its size.    *)
OneAtATime == \A c \in Callers : calling[c] = Idle \/ \E a \in UnifiedAlert : calling[c] = {a}
StoreBounded == Len(alerts) <= max_alerts

-----------------------------------------------------------------------------
(*                         The inductive invariant                         *)

(* A key has an entry once one of its alerts was stored: that is what lets *)
(* the first alert of a key through.                                       *)
MapKnowsStored == \A k \in DOMAIN suppress_map : \E i \in DOMAIN stored : stored[i].key = k
HandledIsKnown == handled \subseteq DOMAIN suppress_map

(* The newest alert of the store is the one stored last, and the entry of  *)
(* a key is the timestamp of its own last one.                             *)
SameNewest ==
  /\ (alerts = << >>) <=> (stored = << >>)
  /\ stored # << >> => Last(alerts) = Last(stored)
MapIsLatest ==
  \A i \in DOMAIN stored :
    (\A m \in DOMAIN stored : m > i => stored[m].key # stored[i].key)
      => /\ stored[i].key \in DOMAIN suppress_map
         /\ suppress_map[stored[i].key] = stored[i].timestamp

AlertInv == /\ ManagerTypes /\ CountsBounded /\ OneAtATime /\ StoreBounded
            /\ MapKnowsStored /\ HandledIsKnown /\ SameNewest /\ MapIsLatest
            /\ RepeatsAreSpaced

LEMMA AlertInvInit == ManagerInit => AlertInv
<1> SUFFICES ASSUME ManagerInit PROVE AlertInv
  OBVIOUS
<1> USE AlertManagerAssumption DEF ManagerInit
<1>1. /\ << >> \in Seq(UnifiedAlert) /\ Len(<< >>) = 0 /\ DOMAIN << >> = {}
  OBVIOUS
<1>2. ManagerTypes /\ CountsBounded
  BY <1>1 DEF ManagerTypes, CountsBounded, Idle, Threats
<1>3. OneAtATime /\ StoreBounded BY <1>1 DEF OneAtATime, StoreBounded
<1>4. MapKnowsStored /\ HandledIsKnown /\ SameNewest /\ MapIsLatest /\ RepeatsAreSpaced
  BY <1>1 DEF MapKnowsStored, HandledIsKnown, SameNewest, MapIsLatest, RepeatsAreSpaced
<1> QED BY <1>2, <1>3, <1>4 DEF AlertInv

LEMMA CountAlertInv ==
  ASSUME AlertInv, NEW c \in Callers, CountAlert(c)
  PROVE  AlertInv'
<1>1. PICK k \in Keys, t \in Times[LayerOf[c]] :
        /\ calling' = [calling EXCEPT ![c] =
             {[no |-> totalAlerts + 1, key |-> k, source |-> LayerOf[c], timestamp |-> t]}]
        /\ counted' = [counted EXCEPT !["total"] = @ + 1, ![ThreatOf[k]] = @ + 1]
  BY DEF CountAlert
<1>2. UNCHANGED <<alerts, suppress_map, stored, handled>> /\ totalAlerts < MaxCalls
  BY DEF CountAlert
<1> DEFINE a == [no |-> totalAlerts + 1, key |-> k, source |-> LayerOf[c], timestamp |-> t]
<1>3. ThreatOf[k] \in Threats /\ ThreatOf[k] # "total" /\ "total" \notin Threats
  BY AlertManagerAssumption DEF Threats
<1>4. totalAlerts \in Nat /\ totalAlerts + 1 \in 1 .. MaxCalls /\ MaxCalls \in Nat
  BY <1>2, AlertManagerAssumption DEF AlertInv, ManagerTypes, totalAlerts
<1>5. a \in UnifiedAlert
  <2>1. LayerOf[c] \in {"L1", "L2"} BY AlertManagerAssumption
  <2>2. t \in Nat BY <2>1, AlertManagerAssumption
  <2> QED BY <1>4, <2>1, <2>2 DEF UnifiedAlert
<1>6. calling' = [calling EXCEPT ![c] = {a}] BY <1>1
<1> HIDE DEF a
<1>7. /\ counted' \in [Threats \union {"total"} -> 0 .. MaxCalls]
      /\ CountsBounded'
  <2>1. \A s \in Threats \union {"total"} :
          counted'[s] = IF s \in {"total", ThreatOf[k]} THEN counted[s] + 1 ELSE counted[s]
    BY <1>1, <1>3 DEF AlertInv, ManagerTypes
  <2>2. \A s \in Threats \union {"total"} : counted[s] \in Nat /\ counted[s] <= counted["total"]
    BY DEF AlertInv, ManagerTypes, CountsBounded
  <2>3. \A s \in Threats \union {"total"} : counted'[s] \in 0 .. MaxCalls
    BY <1>4, <2>1, <2>2 DEF totalAlerts
  <2>4. DOMAIN counted' = Threats \union {"total"} BY <1>1 DEF AlertInv, ManagerTypes
  <2>5. \E f \in [Threats \union {"total"} -> 0 .. MaxCalls] : f = counted'
    <3>1. counted' = [s \in Threats \union {"total"} |-> counted'[s]]
      BY <1>1 DEF AlertInv, ManagerTypes
    <3> QED BY <2>3, <3>1
  <2>6. CountsBounded' BY <2>1, <2>2 DEF CountsBounded
  <2> QED BY <2>5, <2>6
<1>8. ManagerTypes' BY <1>2, <1>5, <1>6, <1>7 DEF AlertInv, ManagerTypes
<1>9. OneAtATime'
  BY <1>5, <1>6 DEF AlertInv, ManagerTypes, OneAtATime
<1>10. (StoreBounded /\ MapKnowsStored /\ HandledIsKnown /\ SameNewest /\ MapIsLatest)'
  BY <1>2 DEF AlertInv, StoreBounded, MapKnowsStored, HandledIsKnown, SameNewest, MapIsLatest
<1>11. RepeatsAreSpaced' BY <1>2 DEF AlertInv, RepeatsAreSpaced
<1> QED BY <1>7, <1>8, <1>9, <1>10, <1>11 DEF AlertInv

(* The alert stored: the key's last one is older than the newest, by the   *)
(* time the repeat needs.                                                  *)
LEMMA StoreInv ==
  ASSUME AlertInv, NEW a \in UnifiedAlert, ~shouldSuppress(a.key), Store(a)
  PROVE  /\ alerts' \in Seq(UnifiedAlert) /\ stored' \in Seq(UnifiedAlert)
         /\ DOMAIN suppress_map' = DOMAIN suppress_map \union {a.key}
         /\ \A k \in DOMAIN suppress_map' : suppress_map'[k] \in Nat
         /\ (StoreBounded /\ MapKnowsStored /\ SameNewest /\ MapIsLatest /\ RepeatsAreSpaced)'
<1> DEFINE n == Len(stored)
           kept == IF Len(alerts) >= max_alerts THEN Tail(alerts) ELSE alerts
<1>1. /\ alerts \in Seq(UnifiedAlert) /\ stored \in Seq(UnifiedAlert) /\ max_alerts \in Nat \ {0}
      /\ Len(alerts) \in Nat /\ n \in Nat /\ Len(alerts) <= max_alerts
      /\ DOMAIN stored = 1 .. n
      /\ a.key \in Keys /\ a.timestamp \in Nat
  BY AlertManagerAssumption, LenProperties DEF AlertInv, ManagerTypes, StoreBounded, UnifiedAlert
<1>2. alerts' = Append(kept, a) /\ stored' = Append(stored, a) BY DEF Store
<1>3. suppress_map' = [k \in DOMAIN suppress_map \union {a.key} |->
                         IF k = a.key THEN a.timestamp ELSE suppress_map[k]]
  BY DEF Store, Remember
<1>4. kept \in Seq(UnifiedAlert) /\ Len(kept) \in Nat /\ Len(kept) < max_alerts
  <2>1. CASE Len(alerts) >= max_alerts
    <3>1. alerts # << >> BY <1>1, <2>1
    <3> QED BY <1>1, <2>1, <3>1, HeadTailProperties
  <2>2. CASE ~(Len(alerts) >= max_alerts) BY <1>1, <2>2
  <2> QED BY <2>1, <2>2
<1> HIDE DEF kept
<1>5. /\ alerts' \in Seq(UnifiedAlert) /\ Len(alerts') = Len(kept) + 1
      /\ alerts'[Len(alerts')] = a
  BY <1>2, <1>4, AppendProperties
<1>6. /\ stored' \in Seq(UnifiedAlert) /\ Len(stored') = n + 1 /\ DOMAIN stored' = 1 .. n + 1
      /\ stored'[n + 1] = a /\ \A i \in 1 .. n : stored'[i] = stored[i]
  <2>1. stored' \in Seq(UnifiedAlert) /\ Len(stored') = n + 1 BY <1>1, <1>2, AppendProperties
  <2> QED BY <1>1, <1>2, <2>1, AppendProperties, LenProperties
<1> HIDE DEF n
<1>7. /\ DOMAIN suppress_map' = DOMAIN suppress_map \union {a.key}
      /\ suppress_map'[a.key] = a.timestamp
      /\ \A k \in DOMAIN suppress_map \ {a.key} : suppress_map'[k] = suppress_map[k]
  BY <1>3
<1>8. \A k \in DOMAIN suppress_map' : suppress_map'[k] \in Nat
  BY <1>1, <1>7 DEF AlertInv, ManagerTypes
<1>9. StoreBounded' BY <1>1, <1>4, <1>5 DEF StoreBounded
<1>10. MapKnowsStored'
  <2> SUFFICES ASSUME NEW k \in DOMAIN suppress_map'
               PROVE  \E i \in DOMAIN stored' : stored'[i].key = k
    BY DEF MapKnowsStored
  <2>1. CASE k = a.key
    <3>1. n + 1 \in DOMAIN stored' BY <1>1, <1>6
    <3> QED BY <1>6, <2>1, <3>1
  <2>2. CASE k # a.key
    <3>1. PICK i \in DOMAIN stored : stored[i].key = k
      BY <1>7, <2>2 DEF AlertInv, MapKnowsStored
    <3>2. i \in DOMAIN stored' /\ stored'[i] = stored[i] BY <1>1, <1>6, <3>1
    <3> QED BY <3>1, <3>2
  <2> QED BY <2>1, <2>2
<1>11. SameNewest'
  <2>1. alerts' # << >> /\ stored' # << >> BY <1>1, <1>4, <1>5, <1>6
  <2>2. Last(alerts') = a /\ Last(stored') = a BY <1>5, <1>6 DEF Last
  <2> QED BY <2>1, <2>2 DEF SameNewest
<1>12. MapIsLatest'
  <2> SUFFICES ASSUME NEW i \in DOMAIN stored',
                      \A m \in DOMAIN stored' : m > i => stored'[m].key # stored'[i].key
               PROVE  /\ stored'[i].key \in DOMAIN suppress_map'
                      /\ suppress_map'[stored'[i].key] = stored'[i].timestamp
    BY DEF MapIsLatest
  <2>1. CASE i = n + 1 BY <1>6, <1>7, <2>1
  <2>2. CASE i # n + 1
    <3>1. i \in 1 .. n /\ n + 1 \in DOMAIN stored' /\ n + 1 > i BY <1>1, <1>6, <2>2
    <3>2. stored[i].key # a.key BY <1>6, <3>1
    <3>3. \A m \in DOMAIN stored : m > i => stored[m].key # stored[i].key
      BY <1>1, <1>6, <3>1
    <3>4. /\ stored[i].key \in DOMAIN suppress_map
          /\ suppress_map[stored[i].key] = stored[i].timestamp
      BY <1>1, <3>1, <3>3 DEF AlertInv, MapIsLatest
    <3> QED BY <1>6, <1>7, <3>1, <3>2, <3>4
  <2> QED BY <2>1, <2>2
<1>13. RepeatsAreSpaced'
  <2> SUFFICES ASSUME NEW i \in DOMAIN stored', NEW j \in DOMAIN stored',
                      i < j, stored'[i].key = stored'[j].key,
                      \A m \in i + 1 .. j - 1 : stored'[m].key # stored'[i].key
               PROVE  /\ j > i + 1
                      /\ stored'[j - 1].timestamp - stored'[i].timestamp >= SUPPRESS_SEC
    BY DEF RepeatsAreSpaced
  <2>1. i \in 1 .. n /\ j \in 1 .. n + 1 /\ stored'[i] = stored[i] BY <1>1, <1>6
  <2>2. CASE j # n + 1
    <3>1. j \in 1 .. n /\ stored'[j] = stored[j] BY <1>1, <1>6, <2>1, <2>2
    <3>2. \A m \in i + 1 .. j - 1 : m \in 1 .. n /\ stored'[m] = stored[m]
      BY <1>1, <1>6, <2>1, <3>1
    <3>3. \A m \in i + 1 .. j - 1 : stored[m].key # stored[i].key BY <2>1, <3>2
    <3>4. j > i + 1 /\ stored[j - 1].timestamp - stored[i].timestamp >= SUPPRESS_SEC
      BY <1>1, <2>1, <3>1, <3>3 DEF AlertInv, RepeatsAreSpaced
    <3>5. j - 1 \in i + 1 .. j - 1 BY <2>1, <3>1, <3>4
    <3> QED BY <2>1, <3>2, <3>4, <3>5
  <2>3. CASE j = n + 1
    <3>1. stored[i].key = a.key BY <1>6, <2>1, <2>3
    <3>2. \A m \in DOMAIN stored : m > i => stored[m].key # stored[i].key
      <4> SUFFICES ASSUME NEW m \in 1 .. n, m > i PROVE stored[m].key # stored[i].key
        BY <1>1
      <4>1. m \in i + 1 .. j - 1 BY <1>1, <2>1, <2>3
      <4> QED BY <1>6, <2>1, <4>1
    <3>3. a.key \in DOMAIN suppress_map /\ suppress_map[a.key] = stored[i].timestamp
      BY <1>1, <2>1, <3>1, <3>2 DEF AlertInv, MapIsLatest
    <3>4. stored # << >> /\ alerts # << >> /\ Last(alerts) = stored[n]
      <4>1. stored # << >> BY <1>1, <2>1
      <4> QED BY <4>1 DEF AlertInv, SameNewest, Last, n
    <3>5. ~(stored[n].timestamp - stored[i].timestamp < SUPPRESS_SEC)
      BY <3>3, <3>4 DEF shouldSuppress
    <3>6. stored[n].timestamp \in Nat /\ stored[i].timestamp \in Nat
          /\ SUPPRESS_SEC \in Nat \ {0}
      <4>1. n \in 1 .. n /\ i \in 1 .. n BY <1>1, <2>1
      <4>2. stored[n] \in UnifiedAlert /\ stored[i] \in UnifiedAlert
        BY <1>1, <4>1, ElementOfSeq DEF n
      <4> QED BY <4>2, AlertManagerAssumption DEF UnifiedAlert
    <3>7. stored[n].timestamp - stored[i].timestamp >= SUPPRESS_SEC BY <3>5, <3>6
    <3>8. i # n BY <3>6, <3>7
    <3>9. j - 1 = n /\ n \in 1 .. n /\ stored'[n] = stored[n] BY <1>1, <1>6, <2>1, <2>3
    <3> QED BY <1>1, <2>1, <2>3, <3>7, <3>8, <3>9
  <2> QED BY <2>2, <2>3
<1> QED BY <1>5, <1>6, <1>7, <1>8, <1>9, <1>10, <1>11, <1>12, <1>13

LEMMA HandleAlertInv ==
  ASSUME AlertInv, NEW c \in Callers, HandleAlert(c)
  PROVE  AlertInv'
<1>1. PICK a \in calling[c] :
        /\ IF shouldSuppress(a.key)
             THEN UNCHANGED <<alerts, suppress_map, stored>>
             ELSE Store(a)
        /\ handled' = handled \union {a.key}
  BY DEF HandleAlert
<1>2. calling' = [calling EXCEPT ![c] = Idle] /\ UNCHANGED counted BY DEF HandleAlert
<1>3. a \in UnifiedAlert /\ a.key \in Keys BY DEF AlertInv, ManagerTypes, UnifiedAlert
<1>4. /\ calling' \in [Callers -> SUBSET UnifiedAlert]
      /\ OneAtATime' /\ CountsBounded'
      /\ handled' \subseteq Keys
  BY <1>1, <1>2, <1>3 DEF AlertInv, ManagerTypes, OneAtATime, CountsBounded, Idle
<1>5. CASE shouldSuppress(a.key)
  <2>1. UNCHANGED <<alerts, suppress_map, stored>> BY <1>1, <1>5
  <2>2. a.key \in DOMAIN suppress_map BY <1>5 DEF shouldSuppress
  <2>3. ManagerTypes' BY <1>2, <1>4, <2>1 DEF AlertInv, ManagerTypes
  <2>4. HandledIsKnown' BY <1>1, <2>1, <2>2 DEF AlertInv, HandledIsKnown
  <2>5. (StoreBounded /\ MapKnowsStored /\ SameNewest /\ MapIsLatest)'
    BY <2>1 DEF AlertInv, StoreBounded, MapKnowsStored, SameNewest, MapIsLatest
  <2>6. RepeatsAreSpaced' BY <2>1 DEF AlertInv, RepeatsAreSpaced
  <2> QED BY <1>4, <2>3, <2>4, <2>5, <2>6 DEF AlertInv
<1>6. CASE ~shouldSuppress(a.key)
  <2>1. Store(a) BY <1>1, <1>6
  <2>2. /\ alerts' \in Seq(UnifiedAlert) /\ stored' \in Seq(UnifiedAlert)
        /\ DOMAIN suppress_map' = DOMAIN suppress_map \union {a.key}
        /\ \A k \in DOMAIN suppress_map' : suppress_map'[k] \in Nat
        /\ (StoreBounded /\ MapKnowsStored /\ SameNewest /\ MapIsLatest /\ RepeatsAreSpaced)'
    BY <1>3, <1>6, <2>1, StoreInv
  <2>3. DOMAIN suppress_map' \subseteq Keys BY <1>3, <2>2 DEF AlertInv, ManagerTypes
  <2>4. ManagerTypes' BY <1>2, <1>4, <2>2, <2>3 DEF AlertInv, ManagerTypes
  <2>5. HandledIsKnown' BY <1>1, <2>2 DEF AlertInv, HandledIsKnown
  <2> QED BY <1>4, <2>2, <2>4, <2>5 DEF AlertInv
<1> QED BY <1>5, <1>6

LEMMA AlertInvNext == AlertInv /\ [Next]_vars => AlertInv'
<1> SUFFICES ASSUME AlertInv, [Next]_vars PROVE AlertInv'
  OBVIOUS
<1>1. CASE \E c \in Callers : RaiseAlert(c)
  BY <1>1, CountAlertInv, HandleAlertInv DEF RaiseAlert, addAlert
<1>2. CASE UNCHANGED managerVars
  BY <1>2 DEF managerVars, AlertInv, ManagerTypes, CountsBounded, OneAtATime, StoreBounded,
     MapKnowsStored, HandledIsKnown, SameNewest, MapIsLatest, RepeatsAreSpaced
<1>3. (\E c \in Callers : RaiseAlert(c)) \/ UNCHANGED managerVars
  BY DEF Next, TickReadsTotal, TickEmits, onFilterChanged, onClearClicked, vars
<1> QED BY <1>1, <1>2, <1>3

LEMMA AlertInvHolds == Spec => []AlertInv
<1>1. Init => AlertInv BY AlertInvInit DEF Init
<1> QED BY <1>1, AlertInvNext, PTL DEF Spec

-----------------------------------------------------------------------------
(*                                Theorems                                 *)

(* The manager's variables keep their types and bounds: one alert per      *)
(* caller, no more than max_alerts in the store.                           *)
THEOREM ManagerTypeCorrect == Spec => []ManagerTypeOK
<1>1. ASSUME OneAtATime PROVE \A c \in Callers : Cardinality(calling[c]) <= 1
  <2> SUFFICES ASSUME NEW c \in Callers PROVE Cardinality(calling[c]) <= 1
    OBVIOUS
  <2>1. CASE calling[c] = {} BY <2>1, FS_EmptySet
  <2>2. CASE \E a \in UnifiedAlert : calling[c] = {a}
    <3>1. PICK a \in UnifiedAlert : calling[c] = {a} BY <2>2
    <3>2. Cardinality({a}) = 1 BY FS_Singleton
    <3> QED BY <3>1, <3>2
  <2> QED BY <1>1, <2>1, <2>2 DEF OneAtATime, Idle
<1>2. AlertInv => ManagerTypeOK
  BY <1>1 DEF AlertInv, ManagerTypes, StoreBounded, ManagerTypeOK
<1> QED BY <1>2, AlertInvHolds, PTL

(* Deduplication loses no attack: for every key whose addAlert returned    *)
(* an alert has been stored, whoever else raised alerts in between.        *)
THEOREM EveryKeyIsStoredHolds == Spec => []EveryKeyIsStored
<1>1. AlertInv => EveryKeyIsStored
  BY DEF AlertInv, HandledIsKnown, MapKnowsStored, EveryKeyIsStored
<1> QED BY <1>1, AlertInvHolds, PTL

(* A key is stored again only when the alert stored just before, of some   *)
(* other key, is SUPPRESS_SEC younger than the key's own last one.         *)
THEOREM RepeatsAreSpacedHolds == Spec => []RepeatsAreSpaced
<1>1. AlertInv => RepeatsAreSpaced BY DEF AlertInv
<1> QED BY <1>1, AlertInvHolds, PTL

-----------------------------------------------------------------------------
(***************************************************************************)
(* The panel.  Matching takes one alert after the other; the rows it finds *)
(* in two batches are those it finds in one.                               *)
(***************************************************************************)

(* g gives the rows of the first n alerts, for n up to m.                  *)
RowsUpto(g, all, f, m) ==
  g = [n \in 0 .. m |->
         IF n = 0 THEN << >>
         ELSE IF matchesFilter(all[n], f) THEN Append(g[n - 1], all[n]) ELSE g[n - 1]]

RowsOf(g, all, f) == RowsUpto(g, all, f, Len(all))

LEMMA MatchingIsChosen ==
  ASSUME NEW all, NEW f
  PROVE  Matching(all, f) = (CHOOSE g : RowsOf(g, all, f))[Len(all)]
BY DEF Matching, RowsOf, RowsUpto

LEMMA AppendOfConcat ==
  ASSUME NEW S, NEW s \in Seq(S), NEW t \in Seq(S), NEW a \in S
  PROVE  s \o Append(t, a) = Append(s \o t, a)
<1>1. <<a>> \in Seq(S) /\ s \o t \in Seq(S) BY ConcatProperties
<1>2. Append(t, a) = t \o <<a>> /\ Append(s \o t, a) = (s \o t) \o <<a>>
  BY <1>1, AppendIsConcat
<1> QED BY <1>1, <1>2, ConcatAssociative

(* Such a function exists for every sequence, whatever its length.         *)
LEMMA RowsExist ==
  ASSUME NEW all \in Seq(UnifiedAlert), NEW f
  PROVE  \E g : RowsOf(g, all, f)
<1> DEFINE Reached == {m \in Nat : \E g : RowsUpto(g, all, f, m)}
<1>1. 0 \in Reached
  <2> DEFINE g == [n \in 0 .. 0 |-> << >>]
  <2>1. RowsUpto(g, all, f, 0) BY DEF RowsUpto
  <2> QED BY <2>1
<1>2. ASSUME NEW m \in Nat, m \in Reached PROVE m + 1 \in Reached
  <2>1. PICK g : RowsUpto(g, all, f, m) BY <1>2
  <2> DEFINE Step(n) == IF n = 0 THEN << >>
                        ELSE IF matchesFilter(all[n], f) THEN Append(g[n - 1], all[n]) ELSE g[n - 1]
             h == [n \in 0 .. m + 1 |-> Step(n)]
  <2>2. \A n \in 0 .. m : h[n] = g[n]
    <3> TAKE n \in 0 .. m
    <3>1. g[n] = Step(n) BY <2>1 DEF RowsUpto
    <3>2. n \in 0 .. m + 1 OBVIOUS
    <3>3. h[n] = Step(n) BY <3>2
    <3> QED BY <3>1, <3>3
  <2>3. \A n \in 0 .. m + 1 :
          Step(n) = IF n = 0 THEN << >>
                    ELSE IF matchesFilter(all[n], f) THEN Append(h[n - 1], all[n]) ELSE h[n - 1]
    <3> TAKE n \in 0 .. m + 1
    <3>1. n # 0 => n - 1 \in 0 .. m OBVIOUS
    <3> HIDE DEF h
    <3> QED BY <2>2, <3>1
  <2>4. RowsUpto(h, all, f, m + 1)
    <3> HIDE DEF Step
    <3> QED BY <2>3 DEF RowsUpto
  <2> HIDE DEF h
  <2> QED BY <2>4
<1>3. Nat \subseteq Reached
  <2> HIDE DEF Reached
  <2> QED BY <1>1, <1>2, NatsFromZero
<1>4. Len(all) \in Nat BY LenProperties
<1>5. PICK g : RowsUpto(g, all, f, Len(all)) BY <1>3, <1>4
<1> QED BY <1>5 DEF RowsOf

(* The rows of a sequence and those of all but its last alert agree.       *)
LEMMA RowsAgree ==
  ASSUME NEW s \in Seq(UnifiedAlert), NEW t \in Seq(UnifiedAlert), NEW f, NEW g, NEW h,
         RowsOf(g, s, f), RowsOf(h, t, f), Len(s) <= Len(t),
         \A i \in 1 .. Len(s) : s[i] = t[i]
  PROVE  g[Len(s)] = h[Len(s)]
<1> DEFINE Agree == {m \in Nat : m <= Len(s) => g[m] = h[m]}
<1>0. Len(s) \in Nat /\ Len(t) \in Nat BY LenProperties
<1>1. /\ \A n \in 0 .. Len(s) : g[n] = IF n = 0 THEN << >> ELSE IF matchesFilter(s[n], f)
                                       THEN Append(g[n - 1], s[n]) ELSE g[n - 1]
      /\ \A n \in 0 .. Len(t) : h[n] = IF n = 0 THEN << >> ELSE IF matchesFilter(t[n], f)
                                       THEN Append(h[n - 1], t[n]) ELSE h[n - 1]
  BY DEF RowsOf, RowsUpto
<1>2. 0 \in Agree
  <2>1. 0 \in 0 .. Len(s) /\ 0 \in 0 .. Len(t) BY <1>0
  <2> QED BY <1>1, <2>1
<1>3. ASSUME NEW m \in Nat, m \in Agree PROVE m + 1 \in Agree
  <2> SUFFICES ASSUME m + 1 <= Len(s) PROVE g[m + 1] = h[m + 1] OBVIOUS
  <2>1. /\ m + 1 \in 0 .. Len(s) /\ m + 1 \in 0 .. Len(t) /\ m + 1 \in 1 .. Len(s)
        /\ m + 1 # 0 /\ (m + 1) - 1 = m /\ m <= Len(s)
    BY <1>0
  <2>2. g[m] = h[m] BY <1>3, <2>1
  <2>3. s[m + 1] = t[m + 1] BY <2>1
  <2>4. g[m + 1] = IF matchesFilter(s[m + 1], f) THEN Append(g[m], s[m + 1]) ELSE g[m]
    BY <1>1, <2>1
  <2>5. h[m + 1] = IF matchesFilter(t[m + 1], f) THEN Append(h[m], t[m + 1]) ELSE h[m]
    BY <1>1, <2>1
  <2> QED BY <2>2, <2>3, <2>4, <2>5
<1>4. Nat \subseteq Agree
  <2> HIDE DEF Agree
  <2> QED BY <1>2, <1>3, NatsFromZero
<1> QED BY <1>0, <1>4

LEMMA MatchingNothing == ASSUME NEW f PROVE Matching(<< >>, f) = << >>
<1>1. << >> \in Seq(UnifiedAlert) /\ Len(<< >>) = 0 OBVIOUS
<1>2. RowsOf((CHOOSE g : RowsOf(g, << >>, f)), << >>, f) BY <1>1, RowsExist
<1>3. (CHOOSE g : RowsOf(g, << >>, f))[0] = << >> BY <1>1, <1>2 DEF RowsOf, RowsUpto
<1> QED BY <1>1, <1>3, MatchingIsChosen

LEMMA MatchingOneMore ==
  ASSUME NEW s \in Seq(UnifiedAlert), NEW a \in UnifiedAlert, NEW f
  PROVE  Matching(Append(s, a), f)
           = IF matchesFilter(a, f) THEN Append(Matching(s, f), a) ELSE Matching(s, f)
<1> DEFINE t == Append(s, a)
           g == CHOOSE x : RowsOf(x, s, f)
           h == CHOOSE x : RowsOf(x, t, f)
           n == Len(s)
<1>1. /\ t \in Seq(UnifiedAlert) /\ Len(t) = n + 1 /\ t[n + 1] = a /\ n \in Nat
      /\ \A i \in 1 .. n : s[i] = t[i]
  BY AppendProperties, LenProperties
<1>2. RowsOf(g, s, f) /\ RowsOf(h, t, f) BY <1>1, RowsExist
<1>3. Matching(s, f) = g[n] /\ Matching(t, f) = h[n + 1] BY <1>1, MatchingIsChosen
<1> HIDE DEF t, g, h, n
<1>4. n <= Len(t) BY <1>1
<1>5. g[n] = h[n] BY <1>1, <1>2, <1>4, RowsAgree DEF n
<1>6. n + 1 \in 0 .. Len(t) /\ n + 1 # 0 /\ (n + 1) - 1 = n BY <1>1
<1>7. h[n + 1] = IF matchesFilter(t[n + 1], f) THEN Append(h[n], t[n + 1]) ELSE h[n]
  BY <1>2, <1>6 DEF RowsOf, RowsUpto
<1> QED BY <1>1, <1>3, <1>5, <1>7 DEF t

(* The rows are alerts, and no more than there are alerts.                 *)
LEMMA MatchingType ==
  ASSUME NEW all \in Seq(UnifiedAlert), NEW f
  PROVE  Matching(all, f) \in Seq(UnifiedAlert) /\ Len(Matching(all, f)) <= Len(all)
<1> DEFINE Fits(s) == Matching(s, f) \in Seq(UnifiedAlert) /\ Len(Matching(s, f)) <= Len(s)
           Good == {n \in Nat : \A s \in Seq(UnifiedAlert) : Len(s) = n => Fits(s)}
<1>1. 0 \in Good
  <2> SUFFICES ASSUME NEW s \in Seq(UnifiedAlert), Len(s) = 0 PROVE Fits(s) OBVIOUS
  <2>1. s = << >> BY EmptySeq
  <2>2. Matching(s, f) = << >> BY <2>1, MatchingNothing
  <2>3. << >> \in Seq(UnifiedAlert) /\ Len(<< >>) <= 0 BY EmptySeq
  <2> QED BY <2>1, <2>2, <2>3
<1>2. ASSUME NEW n \in Nat, n \in Good PROVE n + 1 \in Good
  <2> SUFFICES ASSUME NEW s \in Seq(UnifiedAlert), Len(s) = n + 1 PROVE Fits(s) OBVIOUS
  <2>1. s # << >> BY EmptySeq
  <2>2. PICK t \in Seq(UnifiedAlert), a \in UnifiedAlert : s = Append(t, a)
    BY <2>1, SequenceEmptyOrAppend
  <2>3. Len(t) = n BY <2>2, AppendProperties, LenProperties
  <2> DEFINE rows == Matching(t, f)
  <2>4. rows \in Seq(UnifiedAlert) /\ Len(rows) <= n BY <1>2, <2>3
  <2>5. Matching(s, f) = IF matchesFilter(a, f) THEN Append(rows, a) ELSE rows
    BY <2>2, MatchingOneMore
  <2> HIDE DEF rows
  <2>6. Append(rows, a) \in Seq(UnifiedAlert) /\ Len(Append(rows, a)) = Len(rows) + 1
        /\ Len(rows) \in Nat
    BY <2>4, AppendProperties, LenProperties
  <2> QED BY <2>4, <2>5, <2>6
<1>3. Nat \subseteq Good
  <2> HIDE DEF Good
  <2> QED BY <1>1, <1>2, NatsFromZero
<1> QED BY <1>3, LenProperties

LEMMA MatchingJoined ==
  ASSUME NEW s \in Seq(UnifiedAlert), NEW new \in Seq(UnifiedAlert), NEW f
  PROVE  Matching(s \o new, f) = Matching(s, f) \o Matching(new, f)
<1> DEFINE Joined(t) == Matching(s \o t, f) = Matching(s, f) \o Matching(t, f)
           Good == {n \in Nat : \A t \in Seq(UnifiedAlert) : Len(t) = n => Joined(t)}
<1>0. Matching(s, f) \in Seq(UnifiedAlert) BY MatchingType
<1>1. 0 \in Good
  <2> SUFFICES ASSUME NEW t \in Seq(UnifiedAlert), Len(t) = 0 PROVE Joined(t) OBVIOUS
  <2>1. t = << >> BY EmptySeq
  <2>2. s \o t = s /\ Matching(s, f) \o << >> = Matching(s, f) BY <1>0, <2>1, ConcatEmptySeq
  <2> QED BY <2>1, <2>2, MatchingNothing
<1>2. ASSUME NEW n \in Nat, n \in Good PROVE n + 1 \in Good
  <2> SUFFICES ASSUME NEW t \in Seq(UnifiedAlert), Len(t) = n + 1 PROVE Joined(t) OBVIOUS
  <2>1. t # << >> BY EmptySeq
  <2>2. PICK u \in Seq(UnifiedAlert), a \in UnifiedAlert : t = Append(u, a)
    BY <2>1, SequenceEmptyOrAppend
  <2>3. Len(u) = n BY <2>2, AppendProperties, LenProperties
  <2>4. Joined(u) BY <1>2, <2>3
  <2>5. s \o t = Append(s \o u, a) /\ s \o u \in Seq(UnifiedAlert)
    BY <2>2, AppendOfConcat, ConcatProperties
  <2>6. Matching(s \o t, f) = IF matchesFilter(a, f) THEN Append(Matching(s \o u, f), a)
                              ELSE Matching(s \o u, f)
    <3> DEFINE su == s \o u
    <3>1. su \in Seq(UnifiedAlert) /\ s \o t = Append(su, a) BY <2>5
    <3> HIDE DEF su
    <3>2. Matching(Append(su, a), f) = IF matchesFilter(a, f) THEN Append(Matching(su, f), a)
                                       ELSE Matching(su, f)
      BY <3>1, MatchingOneMore
    <3> QED BY <3>1, <3>2 DEF su
  <2>7. Matching(t, f) = IF matchesFilter(a, f) THEN Append(Matching(u, f), a) ELSE Matching(u, f)
    BY <2>2, MatchingOneMore
  <2>8. Matching(u, f) \in Seq(UnifiedAlert) BY MatchingType
  <2>9. Matching(s, f) \o Append(Matching(u, f), a) = Append(Matching(s, f) \o Matching(u, f), a)
    BY <1>0, <2>8, AppendOfConcat
  <2> QED BY <2>4, <2>6, <2>7, <2>9
<1>3. Nat \subseteq Good
  <2> HIDE DEF Good
  <2> QED BY <1>1, <1>2, NatsFromZero
<1> QED BY <1>3, LenProperties

-----------------------------------------------------------------------------
(***************************************************************************)
(* The table.  Ends is what IsSuffix says, element by element: removing    *)
(* rows from the top and adding the same rows below leaves a suffix.       *)
(***************************************************************************)

Ends(s, t) == /\ Len(s) <= Len(t)
              /\ \A i \in 1 .. Len(s) : s[i] = t[Len(t) - Len(s) + i]

LEMMA SuffixEnds ==
  ASSUME NEW s \in Seq(UnifiedAlert), NEW t \in Seq(UnifiedAlert)
  PROVE  IsSuffix(s, t) <=> Ends(s, t)
<1> DEFINE k == Len(s)
           n == Len(t)
           rs == Reverse(s)
           rt == Reverse(t)
<1>1. k \in Nat /\ n \in Nat /\ DOMAIN s = 1 .. k /\ DOMAIN t = 1 .. n BY LenProperties
<1>2. /\ rs = [i \in 1 .. k |-> s[(k - i) + 1]] /\ rt = [i \in 1 .. n |-> t[(n - i) + 1]]
  BY DEF Reverse
<1>3. rs \in Seq(UnifiedAlert) /\ Len(rs) = k
  <2>1. \A i \in 1 .. k : s[(k - i) + 1] \in UnifiedAlert
    <3> TAKE i \in 1 .. k
    <3>1. (k - i) + 1 \in 1 .. k BY <1>1
    <3> QED BY <3>1, ElementOfSeq
  <2> HIDE DEF rs, k
  <2>2. rs \in [1 .. k -> UnifiedAlert] BY <1>2, <2>1
  <2> QED BY <1>1, <2>2, SeqDef
<1>4. rt \in Seq(UnifiedAlert) /\ Len(rt) = n
  <2>1. \A i \in 1 .. n : t[(n - i) + 1] \in UnifiedAlert
    <3> TAKE i \in 1 .. n
    <3>1. (n - i) + 1 \in 1 .. n BY <1>1
    <3> QED BY <3>1, ElementOfSeq
  <2> HIDE DEF rt, n
  <2>2. rt \in [1 .. n -> UnifiedAlert] BY <1>2, <2>1
  <2> QED BY <1>1, <2>2, SeqDef
<1>5. IsSuffix(s, t) <=> k <= n /\ SubSeq(rs, 1, k) = SubSeq(rt, 1, k)
  <2> HIDE DEF rs, rt, k, n
  <2>1. IsSuffix(s, t) <=> IsPrefix(rs, rt) BY DEF IsSuffix, rs, rt
  <2> QED BY <1>3, <1>4, <2>1 DEF IsPrefix
<1> HIDE DEF rs, rt, k, n
<1>6. k <= n => (SubSeq(rs, 1, k) = SubSeq(rt, 1, k) <=> \A i \in 1 .. k : rs[i] = rt[i])
  <2> SUFFICES ASSUME k <= n
               PROVE  SubSeq(rs, 1, k) = SubSeq(rt, 1, k) <=> \A i \in 1 .. k : rs[i] = rt[i]
    OBVIOUS
  <2>1. \A i \in 1 .. k : i \in 1 .. n BY <1>1
  <2>2. SubSeq(rs, 1, k) = [i \in 1 .. k |-> rs[i]] BY <1>1, <1>3
  <2>3. SubSeq(rt, 1, k) = [i \in 1 .. k |-> rt[i]] BY <1>1, <1>4
  <2> QED BY <2>2, <2>3
<1>7. k <= n => ((\A i \in 1 .. k : rs[i] = rt[i]) <=> \A i \in 1 .. k : s[i] = t[n - k + i])
  <2> SUFFICES ASSUME k <= n
               PROVE  (\A i \in 1 .. k : rs[i] = rt[i]) <=> \A i \in 1 .. k : s[i] = t[n - k + i]
    OBVIOUS
  <2>1. \A i \in 1 .. k : i \in 1 .. n /\ (k - i) + 1 \in 1 .. k /\ (k - ((k - i) + 1)) + 1 = i
                          /\ (n - ((k - i) + 1)) + 1 = n - k + i
                          /\ n - k + ((k - i) + 1) = (n - i) + 1
    BY <1>1
  <2>2. \A i \in 1 .. k : rs[i] = s[(k - i) + 1] /\ rt[i] = t[(n - i) + 1] BY <1>2, <2>1
  <2>3. ASSUME \A i \in 1 .. k : rs[i] = rt[i], NEW i \in 1 .. k PROVE s[i] = t[n - k + i]
    <3>1. rs[(k - i) + 1] = rt[(k - i) + 1] BY <2>1, <2>3
    <3>2. rs[(k - i) + 1] = s[i] BY <2>1, <2>2
    <3>3. rt[(k - i) + 1] = t[n - k + i] BY <2>1, <2>2
    <3> QED BY <3>1, <3>2, <3>3
  <2>4. ASSUME \A i \in 1 .. k : s[i] = t[n - k + i], NEW i \in 1 .. k PROVE rs[i] = rt[i]
    <3>1. s[(k - i) + 1] = t[n - k + ((k - i) + 1)] BY <2>1, <2>4
    <3>2. s[(k - i) + 1] = t[(n - i) + 1] BY <2>1, <3>1
    <3> QED BY <2>2, <3>2
  <2> QED BY <2>3, <2>4
<1> QED BY <1>5, <1>6, <1>7 DEF Ends, k, n

LEMMA EndsGrow ==
  ASSUME NEW s \in Seq(UnifiedAlert), NEW t \in Seq(UnifiedAlert), NEW new \in Seq(UnifiedAlert),
         Ends(s, t)
  PROVE  Ends(s \o new, t \o new)
<1> DEFINE x == s \o new
           y == t \o new
<1>1. Len(s) \in Nat /\ Len(t) \in Nat /\ Len(new) \in Nat /\ Len(s) <= Len(t)
  BY LenProperties DEF Ends
<1>2. /\ Len(x) = Len(s) + Len(new) /\ Len(y) = Len(t) + Len(new)
      /\ \A i \in 1 .. Len(s) + Len(new) : x[i] = IF i <= Len(s) THEN s[i] ELSE new[i - Len(s)]
      /\ \A i \in 1 .. Len(t) + Len(new) : y[i] = IF i <= Len(t) THEN t[i] ELSE new[i - Len(t)]
  BY ConcatProperties
<1> HIDE DEF x, y
<1>3. ASSUME NEW i \in 1 .. Len(x) PROVE x[i] = y[Len(y) - Len(x) + i]
  <2> DEFINE j == Len(y) - Len(x) + i
  <2>1. j = Len(t) - Len(s) + i /\ j \in 1 .. Len(t) + Len(new) /\ i \in 1 .. Len(s) + Len(new)
    BY <1>1, <1>2
  <2> HIDE DEF j
  <2>2. CASE i <= Len(s)
    <3>1. s[i] = t[j] BY <1>1, <2>1, <2>2 DEF Ends
    <3>2. j <= Len(t) BY <1>1, <2>1, <2>2
    <3> QED BY <1>2, <2>1, <2>2, <3>1, <3>2 DEF j
  <2>3. CASE i > Len(s)
    <3>1. ~(i <= Len(s)) /\ ~(j <= Len(t)) /\ j - Len(t) = i - Len(s) BY <1>1, <2>1, <2>3
    <3> QED BY <1>2, <2>1, <3>1 DEF j
  <2> QED BY <1>1, <2>1, <2>2, <2>3
<1>4. Len(x) <= Len(y) BY <1>1, <1>2
<1> QED BY <1>3, <1>4 DEF Ends, x, y

(* removeRow(0) leaves the newest rows, as many as the table may have.     *)
LEMMA TrimEnds ==
  ASSUME NEW s \in Seq(UnifiedAlert), NEW t \in Seq(UnifiedAlert), Ends(s, t)
  PROVE  /\ Trim(s) \in Seq(UnifiedAlert) /\ Ends(Trim(s), t)
         /\ Len(Trim(s)) < MAX_ROWS => Trim(s) = s /\ Len(s) < MAX_ROWS
<1>0. MAX_ROWS \in Nat \ {0} /\ Len(s) \in Nat /\ Len(t) \in Nat
  BY AlertPathAssumption, LenProperties
<1>1. CASE Len(s) <= MAX_ROWS BY <1>1 DEF Trim
<1>2. CASE ~(Len(s) <= MAX_ROWS)
  <2> DEFINE first == Len(s) - MAX_ROWS + 1
             x == SubSeq(s, first, Len(s))
  <2>1. first \in 1 .. Len(s) /\ Len(s) - first + 1 = MAX_ROWS BY <1>0, <1>2
  <2>2. \A i \in first .. Len(s) : s[i] \in UnifiedAlert
    <3> TAKE i \in first .. Len(s)
    <3>1. i \in 1 .. Len(s) BY <2>1
    <3> QED BY <3>1, ElementOfSeq
  <2>3. Trim(s) = x BY <1>2 DEF Trim
  <2>4. first \in Int /\ Len(s) \in Int /\ first <= Len(s) BY <1>0, <2>1
  <2> HIDE DEF first
  <2>5. /\ x \in Seq(UnifiedAlert) /\ Len(x) = Len(s) - first + 1
        /\ \A i \in 1 .. Len(s) - first + 1 : x[i] = s[first + i - 1]
    BY <2>2, <2>4, SubSeqProperties
  <2> HIDE DEF x
  <2>6. Len(x) = MAX_ROWS /\ \A i \in 1 .. MAX_ROWS : x[i] = s[Len(s) - MAX_ROWS + i]
    <3>1. \A i \in 1 .. MAX_ROWS : first + i - 1 = Len(s) - MAX_ROWS + i BY <1>0 DEF first
    <3> QED BY <2>1, <2>5, <3>1
  <2>7. Len(x) <= Len(t) BY <1>0, <1>2, <2>6 DEF Ends
  <2>8. ASSUME NEW i \in 1 .. Len(x) PROVE x[i] = t[Len(t) - Len(x) + i]
    <3> DEFINE j == Len(s) - MAX_ROWS + i
    <3>1. j \in 1 .. Len(s) /\ Len(t) - Len(s) + j = Len(t) - MAX_ROWS + i
      BY <1>0, <1>2, <2>6
    <3> HIDE DEF j
    <3>2. s[j] = t[Len(t) - Len(s) + j] BY <3>1 DEF Ends
    <3>3. x[i] = s[j] BY <2>6 DEF j
    <3> QED BY <2>6, <3>1, <3>2, <3>3
  <2>9. Ends(x, t) BY <2>7, <2>8 DEF Ends
  <2>10. ~(Len(x) < MAX_ROWS) BY <1>0, <2>6
  <2> QED BY <2>3, <2>5, <2>9, <2>10
<1> QED BY <1>1, <1>2

LEMMA EndsItself == ASSUME NEW s \in Seq(UnifiedAlert) PROVE Ends(s, s)
<1>1. Len(s) \in Nat BY LenProperties
<1> QED BY <1>1 DEF Ends

(* A suffix of full length is the whole.                                   *)
LEMMA EndsWhole ==
  ASSUME NEW s \in Seq(UnifiedAlert), NEW t \in Seq(UnifiedAlert), Ends(s, t), Len(s) = Len(t)
  PROVE  s = t
<1>1. Len(s) \in Nat BY LenProperties
<1>2. \A i \in 1 .. Len(s) : s[i] = t[i]
  <2> TAKE i \in 1 .. Len(s)
  <2>1. Len(t) - Len(s) + i = i BY <1>1
  <2> QED BY <2>1 DEF Ends
<1> QED BY <1>2, SeqEqual

-----------------------------------------------------------------------------
(*                       The bridge and the panel                          *)

(* What a tick has read is more than it saw last, and not more than all.   *)
TickBounded == tick = Idle \/ \E n \in 1 .. MaxCalls : /\ tick = {n} /\ n >= last_alert_seq
                                                      /\ n <= totalAlerts
TableEnds == LET matching == Matching(all_alerts, filter)
             IN  /\ Ends(table, matching)
                 /\ Len(table) < MAX_ROWS => table = matching

PanelInv ==
  /\ TickBounded /\ last_alert_seq \in Nat /\ last_alert_seq <= totalAlerts
  /\ all_alerts \in Seq(UnifiedAlert) /\ table \in Seq(UnifiedAlert) /\ filter \in Filters
  /\ TableEnds

LEMMA PanelInvInit == Init => PanelInv
<1> SUFFICES ASSUME Init PROVE PanelInv OBVIOUS
<1>1. << >> \in Seq(UnifiedAlert) BY EmptySeq
<1>2. totalAlerts = 0 BY DEF Init, ManagerInit, totalAlerts
<1>3. TableEnds BY <1>1, MatchingNothing, EndsItself DEF Init, TableEnds
<1> QED BY <1>1, <1>2, <1>3 DEF Init, PanelInv, TickBounded, Filters

LEMMA GetRecentType ==
  ASSUME AlertInv, NEW n \in Nat
  PROVE  getRecent(n) \in Seq(UnifiedAlert)
<1>1. alerts \in Seq(UnifiedAlert) /\ Len(alerts) \in Nat
  BY LenProperties DEF AlertInv, ManagerTypes
<1>2. CASE n >= Len(alerts) BY <1>1, <1>2 DEF getRecent
<1>3. CASE ~(n >= Len(alerts))
  <2> DEFINE first == Len(alerts) - n + 1
  <2>1. first \in Int /\ first >= 1 BY <1>1, <1>3
  <2> HIDE DEF first
  <2>2. \A i \in first .. Len(alerts) : alerts[i] \in UnifiedAlert
    <3> TAKE i \in first .. Len(alerts)
    <3>1. i \in 1 .. Len(alerts) BY <1>1, <2>1
    <3> QED BY <1>1, <3>1, ElementOfSeq
  <2>3. SubSeq(alerts, first, Len(alerts)) \in Seq(UnifiedAlert)
    BY <1>1, <2>1, <2>2, SubSeqProperties
  <2> QED BY <1>3, <2>3 DEF getRecent, first
<1> QED BY <1>2, <1>3

LEMMA NewAlertsShown ==
  ASSUME PanelInv, NEW new \in Seq(UnifiedAlert), onNewAlerts(new)
  PROVE  /\ all_alerts' \in Seq(UnifiedAlert) /\ table' \in Seq(UnifiedAlert)
         /\ filter' = filter /\ TableEnds'
<1> DEFINE matching == Matching(all_alerts, filter)
           fresh    == Matching(new, filter)
           rows     == table \o fresh
           after    == matching \o fresh
<1>1. /\ all_alerts \in Seq(UnifiedAlert) /\ table \in Seq(UnifiedAlert)
      /\ Ends(table, matching)
      /\ Len(table) < MAX_ROWS => table = matching
  BY DEF PanelInv, TableEnds
<1>2. matching \in Seq(UnifiedAlert) /\ fresh \in Seq(UnifiedAlert) BY <1>1, MatchingType
<1>3. all_alerts' = all_alerts \o new /\ table' = Trim(rows) /\ filter' = filter
  BY DEF onNewAlerts
<1>4. Matching(all_alerts', filter') = after BY <1>1, <1>3, MatchingJoined
<1> HIDE DEF matching, fresh
<1>5. rows \in Seq(UnifiedAlert) /\ after \in Seq(UnifiedAlert) /\ Ends(rows, after)
  BY <1>1, <1>2, EndsGrow, ConcatProperties
<1>6. Len(rows) = Len(table) + Len(fresh) /\ Len(table) \in Nat /\ Len(fresh) \in Nat
      /\ MAX_ROWS \in Nat
  BY <1>1, <1>2, ConcatProperties, LenProperties, AlertPathAssumption
<1>7. Len(rows) < MAX_ROWS => rows = after
  <2>1. Len(rows) < MAX_ROWS => Len(table) < MAX_ROWS BY <1>6
  <2>2. table = matching => rows = after OBVIOUS
  <2> QED BY <1>1, <2>1, <2>2
<1> HIDE DEF rows, after
<1>8. /\ Trim(rows) \in Seq(UnifiedAlert) /\ Ends(Trim(rows), after)
      /\ Len(Trim(rows)) < MAX_ROWS => Trim(rows) = after
  BY <1>5, <1>7, TrimEnds
<1>9. TableEnds' BY <1>3, <1>4, <1>8 DEF TableEnds
<1>10. all_alerts' \in Seq(UnifiedAlert) BY <1>1, <1>3, ConcatProperties
<1> QED BY <1>3, <1>8, <1>9, <1>10

LEMMA PanelInvNext == AlertInv /\ PanelInv /\ [Next]_vars => PanelInv'
<1> SUFFICES ASSUME AlertInv, PanelInv, [Next]_vars PROVE PanelInv' OBVIOUS
<1>0. totalAlerts \in Nat /\ totalAlerts <= MaxCalls /\ MaxCalls \in Nat
  BY AlertManagerAssumption DEF AlertInv, ManagerTypes, totalAlerts
<1>1. ASSUME UNCHANGED <<bridgeVars, panelVars>>, totalAlerts' >= totalAlerts,
             totalAlerts' \in Nat
      PROVE  PanelInv'
  <2>1. TableEnds' BY <1>1 DEF PanelInv, TableEnds, panelVars
  <2>2. TickBounded' BY <1>0, <1>1 DEF PanelInv, TickBounded, bridgeVars
  <2> QED BY <1>0, <1>1, <2>1, <2>2 DEF PanelInv, panelVars, bridgeVars
<1>2. ASSUME NEW c \in Callers, RaiseAlert(c) PROVE PanelInv'
  <2>1. UNCHANGED <<bridgeVars, panelVars>> BY <1>2 DEF RaiseAlert
  <2>2. CASE HandleAlert(c)
    <3>1. totalAlerts' = totalAlerts BY <2>2 DEF HandleAlert, totalAlerts
    <3> QED BY <1>0, <1>1, <2>1, <3>1
  <2>3. CASE CountAlert(c)
    <3>1. PICK k \in Keys : counted' = [counted EXCEPT !["total"] = @ + 1, ![ThreatOf[k]] = @ + 1]
      BY <2>3 DEF CountAlert
    <3>2. ThreatOf[k] # "total" BY AlertManagerAssumption DEF Threats
    <3>3. totalAlerts' = totalAlerts + 1
      BY <3>1, <3>2 DEF totalAlerts, AlertInv, ManagerTypes
    <3> QED BY <1>0, <1>1, <2>1, <3>3
  <2> QED BY <1>2, <2>2, <2>3 DEF RaiseAlert, addAlert
<1>3. CASE TickReadsTotal
  <2>1. UNCHANGED <<managerVars, last_alert_seq, panelVars>> /\ tick' = {totalAlerts}
        /\ totalAlerts > last_alert_seq
    BY <1>3 DEF TickReadsTotal
  <2>2. totalAlerts' = totalAlerts BY <2>1 DEF managerVars, totalAlerts
  <2>3. TickBounded'
    <3>1. totalAlerts \in 1 .. MaxCalls BY <1>0, <2>1 DEF PanelInv
    <3>2. totalAlerts >= last_alert_seq /\ totalAlerts <= totalAlerts BY <1>0, <2>1 DEF PanelInv
    <3> QED BY <2>1, <2>2, <3>1, <3>2 DEF TickBounded
  <2>4. TableEnds' BY <2>1 DEF PanelInv, TableEnds, panelVars
  <2> QED BY <2>1, <2>2, <2>3, <2>4 DEF PanelInv, panelVars
<1>4. CASE TickEmits
  <2>1. PICK n \in tick : /\ onNewAlerts(getRecent(Min({n - last_alert_seq, MaxBatch})))
                          /\ last_alert_seq' = n /\ tick' = Idle /\ UNCHANGED managerVars
    BY <1>4 DEF TickEmits
  <2>2. n \in 1 .. MaxCalls /\ n >= last_alert_seq /\ n <= totalAlerts
    BY <2>1 DEF PanelInv, TickBounded, Idle
  <2> DEFINE want == Min({n - last_alert_seq, MaxBatch})
  <2>3. want \in Nat
    <3>1. n - last_alert_seq \in Nat /\ MaxBatch \in Nat BY <1>0, <2>2, AlertPathAssumption DEF PanelInv
    <3> QED BY <3>1, MinOfTwo
  <2> HIDE DEF want
  <2>4. onNewAlerts(getRecent(want)) BY <2>1 DEF want
  <2>5. /\ all_alerts' \in Seq(UnifiedAlert) /\ table' \in Seq(UnifiedAlert)
        /\ filter' = filter /\ TableEnds'
    BY <2>3, <2>4, GetRecentType, NewAlertsShown
  <2>6. totalAlerts' = totalAlerts BY <2>1 DEF managerVars, totalAlerts
  <2>7. TickBounded' BY <2>1 DEF TickBounded
  <2> QED BY <1>0, <2>1, <2>2, <2>5, <2>6, <2>7 DEF PanelInv
<1>5. ASSUME NEW f \in Filters, onFilterChanged(f) PROVE PanelInv'
  <2>1. /\ filter' = f /\ table' = Matching(all_alerts, f) /\ all_alerts' = all_alerts
        /\ UNCHANGED <<managerVars, bridgeVars>>
    BY <1>5 DEF onFilterChanged
  <2>2. table' \in Seq(UnifiedAlert) BY <2>1, MatchingType DEF PanelInv
  <2>3. TableEnds' BY <2>1, <2>2, EndsItself DEF TableEnds
  <2>4. totalAlerts' = totalAlerts BY <2>1 DEF managerVars, totalAlerts
  <2>5. TickBounded' BY <2>1, <2>4 DEF PanelInv, TickBounded, bridgeVars
  <2> QED BY <2>1, <2>2, <2>3, <2>4, <2>5 DEF PanelInv, bridgeVars
<1>6. CASE onClearClicked
  <2>1. /\ filter' = filter /\ table' = << >> /\ all_alerts' = << >>
        /\ UNCHANGED <<managerVars, bridgeVars>>
    BY <1>6 DEF onClearClicked
  <2>2. << >> \in Seq(UnifiedAlert) BY EmptySeq
  <2>3. TableEnds' BY <2>1, <2>2, MatchingNothing, EndsItself DEF TableEnds
  <2>4. totalAlerts' = totalAlerts BY <2>1 DEF managerVars, totalAlerts
  <2>5. TickBounded' BY <2>1, <2>4 DEF PanelInv, TickBounded, bridgeVars
  <2> QED BY <2>1, <2>2, <2>3, <2>4, <2>5 DEF PanelInv, bridgeVars
<1>7. CASE UNCHANGED vars
  <2>1. totalAlerts' = totalAlerts BY <1>7 DEF vars, managerVars, totalAlerts
  <2> QED BY <1>0, <1>1, <1>7, <2>1 DEF vars
<1> QED BY <1>2, <1>3, <1>4, <1>5, <1>6, <1>7 DEF Next

LEMMA PanelInvHolds == Spec => []PanelInv
BY PanelInvInit, PanelInvNext, AlertInvHolds, PTL DEF Spec

(* Manager, bridge and panel keep their types: a tick between its reads    *)
(* holds one count, and no count that was seen exceeds the manager's.      *)
THEOREM TypeCorrect == Spec => []TypeOK
<1>1. PanelInv /\ ManagerTypeOK => TypeOK
  <2> SUFFICES ASSUME PanelInv, ManagerTypeOK PROVE TypeOK OBVIOUS
  <2>1. tick \subseteq 1 .. MaxCalls /\ Cardinality(tick) <= 1
    <3>1. CASE tick = Idle
      <4>1. Cardinality({}) = 0 BY FS_EmptySet
      <4> QED BY <3>1, <4>1 DEF Idle
    <3>2. CASE \E n \in 1 .. MaxCalls : tick = {n}
      <4>1. PICK n \in 1 .. MaxCalls : tick = {n} BY <3>2
      <4>2. Cardinality({n}) = 1 BY FS_Singleton
      <4>3. Cardinality(tick) <= 1 BY <4>1, <4>2
      <4> QED BY <4>1, <4>3
    <3> QED BY <3>1, <3>2 DEF PanelInv, TickBounded
  <2>2. last_alert_seq \in 0 .. totalAlerts
    BY DEF PanelInv, ManagerTypeOK, totalAlerts
  <2> QED BY <2>1, <2>2 DEF TypeOK, PanelInv
<1> QED BY <1>1, PanelInvHolds, ManagerTypeCorrect, PTL

(* The table shows the newest matching alerts, each once and in order,     *)
(* through batches, filter changes and clears.                             *)
THEOREM TableIsSuffixHolds == Spec => []TableIsSuffix
<1>1. PanelInv => TableIsSuffix
  <2> SUFFICES ASSUME PanelInv PROVE TableIsSuffix OBVIOUS
  <2>1. Matching(all_alerts, filter) \in Seq(UnifiedAlert) /\ table \in Seq(UnifiedAlert)
    BY MatchingType DEF PanelInv
  <2> QED BY <2>1, SuffixEnds DEF PanelInv, TableEnds, TableIsSuffix
<1> QED BY <1>1, PanelInvHolds, PTL

(* A double click opens the alert of its row as long as all matching ones  *)
(* fit into the table, however many rows that has.                         *)
THEOREM RowsOpenTheirAlertsHolds == Spec => []RowsOpenTheirAlerts
<1>1. PanelInv => RowsOpenTheirAlerts
  <2> DEFINE matching == Matching(all_alerts, filter)
  <2> SUFFICES ASSUME PanelInv, Len(matching) <= MAX_ROWS, NEW row \in DOMAIN table
               PROVE  onRowClicked(row) = {table[row]}
    BY DEF RowsOpenTheirAlerts
  <2>1. /\ all_alerts \in Seq(UnifiedAlert) /\ table \in Seq(UnifiedAlert)
        /\ matching \in Seq(UnifiedAlert) /\ Len(matching) <= Len(all_alerts)
        /\ Ends(table, matching)
        /\ Len(table) < MAX_ROWS => table = matching
    BY MatchingType DEF PanelInv, TableEnds
  <2>2. onRowClicked(row)
          = {matching[r] : r \in {row} \cap DOMAIN matching \cap DOMAIN all_alerts}
    BY DEF onRowClicked
  <2> HIDE DEF matching
  <2>3. /\ DOMAIN table = 1 .. Len(table) /\ DOMAIN matching = 1 .. Len(matching)
        /\ DOMAIN all_alerts = 1 .. Len(all_alerts)
        /\ Len(table) \in Nat /\ Len(matching) \in Nat /\ Len(all_alerts) \in Nat
        /\ Len(table) <= Len(matching)
    BY <2>1, LenProperties DEF Ends
  <2>4. row \in DOMAIN matching /\ row \in DOMAIN all_alerts /\ row \in Nat BY <2>1, <2>3
  <2>5. onRowClicked(row) = {matching[row]} BY <2>2, <2>4
  <2>6. table = matching
    <3>1. CASE Len(table) < MAX_ROWS BY <2>1, <3>1
    <3>2. CASE ~(Len(table) < MAX_ROWS)
      <4>1. MAX_ROWS \in Nat BY AlertPathAssumption
      <4>2. /\ Len(table) \in Nat /\ Len(matching) \in Nat /\ Len(table) <= Len(matching)
            /\ Len(matching) <= MAX_ROWS /\ MAX_ROWS <= Len(table)
        BY <2>3, <3>2, <4>1
      <4>3. Len(table) = Len(matching) BY <4>1, <4>2
      <4> QED BY <2>1, <4>3, EndsWhole
    <3> QED BY <3>1, <3>2
  <2> QED BY <2>5, <2>6
<1> QED BY <1>1, PanelInvHolds, PTL
=============================================================================
