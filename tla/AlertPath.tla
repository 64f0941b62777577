----------------------------- MODULE AlertPath -----------------------------
(***************************************************************************)
(* The alerts on their way to the user: AlertManager, the alerts' part of  *)
(* UiBridge::onTimer (ui/qt/ui_bridge.cpp) and ui/qt/alert_panel.cpp.      *)
(* Bridge and panel live on the Qt thread: the newAlerts signal is a plain *)
(* call, and the panel's slots come between ticks but not inside one.  The *)
(* callers of addAlert come anywhere, also between the two reads of a tick.*)
(***************************************************************************)
EXTENDS AlertManager

CONSTANTS MaxBatch,   \* the 20 alerts a tick asks for at most
          MAX_ROWS

ASSUME AlertPathAssumption == MaxBatch \in Nat \ {0} /\ MAX_ROWS \in Nat \ {0}

Filters == {"ALL", "L1", "L2"} \union Threats

VARIABLES tick,           \* total_now, while a tick is between its two reads
          last_alert_seq, \* last_alert_seq_
          all_alerts,     \* all_alerts_
          table,          \* the rows of table_, top to bottom
          filter          \* filter_combo_->currentIndex()

bridgeVars == <<tick, last_alert_seq>>
panelVars  == <<all_alerts, table, filter>>
vars       == <<managerVars, bridgeVars, panelVars>>

TypeOK == /\ ManagerTypeOK
          /\ tick \subseteq 1 .. MaxCalls /\ Cardinality(tick) <= 1
          /\ last_alert_seq \in 0 .. totalAlerts
          /\ all_alerts \in Seq(UnifiedAlert)
          /\ table \in Seq(UnifiedAlert)
          /\ filter \in Filters

Init == /\ ManagerInit
        /\ tick = Idle /\ last_alert_seq = 0
        /\ all_alerts = << >> /\ table = << >> /\ filter = "ALL"

RaiseAlert(c) == addAlert(c) /\ UNCHANGED <<bridgeVars, panelVars>>

-----------------------------------------------------------------------------
(*                                The panel                                *)

matchesFilter(a, f) == f \in {"ALL", a.source, ThreatOf[a.key]}

(* The alerts that match the filter, taken one after the other.            *)
Matching(all, f) ==
  LET rows[n \in 0 .. Len(all)] ==
        IF n = 0 THEN << >>
        ELSE IF matchesFilter(all[n], f) THEN Append(rows[n - 1], all[n]) ELSE rows[n - 1]
  IN  rows[Len(all)]

(* Fault: rows are removed from the end of the table.                      *)
TrimNewest(rows) == IF Len(rows) <= MAX_ROWS THEN rows ELSE SubSeq(rows, 1, MAX_ROWS)

(* removeRow(0) until MAX_ROWS rows are left.                              *)
Trim(rows) == IF Len(rows) <= MAX_ROWS THEN rows
              ELSE SubSeq(rows, Len(rows) - MAX_ROWS + 1, Len(rows))

onNewAlerts(new) ==
  /\ all_alerts' = all_alerts \o new
  /\ table' = Trim(table \o Matching(new, filter))
  /\ UNCHANGED filter

(* The table is rebuilt from everything received, not trimmed until the    *)
(* next alerts come.                                                       *)
onFilterChanged(f) ==
  /\ tick = Idle
  /\ filter' = f
  /\ table' = Matching(all_alerts, f)
  /\ UNCHANGED <<managerVars, bridgeVars, all_alerts>>

onClearClicked ==
  /\ tick = Idle
  /\ all_alerts' = << >> /\ table' = << >>
  /\ UNCHANGED <<managerVars, bridgeVars, filter>>

(* Fault: the row is looked up among all alerts.                           *)
onRowClickedUnfiltered(row) == {all_alerts[r] : r \in {row} \cap DOMAIN all_alerts}

(* The alert that a double click on a row shows in a dialog, if any: the   *)
(* matching alerts are counted from the first one received.                *)
onRowClicked(row) ==
  LET visible == Matching(all_alerts, filter)
  IN  {visible[r] : r \in {row} \cap DOMAIN visible \cap DOMAIN all_alerts}

-----------------------------------------------------------------------------
(*                          UiBridge::onTimer, part 3                      *)

(* totalAlerts() is read without the manager's mutex ...                   *)
TickReadsTotal ==
  /\ tick = Idle
  /\ totalAlerts > last_alert_seq
  /\ tick' = {totalAlerts}
  /\ UNCHANGED <<managerVars, last_alert_seq, panelVars>>

(* ... and getRecent is asked for as many alerts as were counted since.    *)
TickEmits ==
  \E total_now \in tick :
    /\ LET want == Min({total_now - last_alert_seq, MaxBatch})
       IN  onNewAlerts(getRecent(want))
    /\ last_alert_seq' = total_now
    /\ tick' = Idle
    /\ UNCHANGED managerVars

-----------------------------------------------------------------------------
Next == \/ \E c \in Callers : RaiseAlert(c)
        \/ TickReadsTotal \/ TickEmits
        \/ \E f \in Filters \ {filter} : onFilterChanged(f)
        \/ onClearClicked

Spec == Init /\ [][Next]_vars

-----------------------------------------------------------------------------
(*                                Properties                               *)

(* Whatever the order of batches, filter changes and clears, the table     *)
(* shows the newest of the received alerts that match the filter: every    *)
(* one after the top row is there, once, in the order received.            *)
TableIsSuffix ==
  LET matching == Matching(all_alerts, filter)
  IN  /\ IsSuffix(table, matching)
      /\ Len(table) < MAX_ROWS => table = matching

(* As long as no more alerts match the filter than the table may have      *)
(* rows, a double click opens the alert of its row, through every filter   *)
(* change, clear and batch: the rows are counted as they were filled.      *)
RowsOpenTheirAlerts ==
  Len(Matching(all_alerts, filter)) <= MAX_ROWS =>
    \A row \in DOMAIN table : onRowClicked(row) = {table[row]}

(* alert_panel.cpp:226 says that onRowClicked finds the alert that belongs *)
(* to the row shown, taking it from the end of the list.                   *)
ClickOpensItsRow == \A row \in DOMAIN table : onRowClicked(row) = {table[row]}

(* "take only the NEW part": no alert reaches the panel twice.             *)
OnlyNewAlerts ==
  \A i, j \in DOMAIN all_alerts : i # j => all_alerts[i].no # all_alerts[j].no
=============================================================================
