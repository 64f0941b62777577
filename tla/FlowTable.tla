----------------------------- MODULE FlowTable -----------------------------
(***************************************************************************)
(* layer1/flow_table.cpp: the table of live flows shared by all workers.   *)
(* Every operation holds the table's mutex from its first to its last      *)
(* line, so each is one atomic step.  A FlowState is represented by the    *)
(* presence of its key: what the rules read and write in it is left to     *)
(* the verdict they reach (Pipeline!Analyze).  last_seen is abstracted to  *)
(* one bit, "older than the idle timeout", kept as the set `stale'.        *)
(***************************************************************************)
EXTENDS Integers, FiniteSets

CONSTANTS Flows,     \* the flow keys (5-tuples) that occur
          MaxFlows   \* max_flows_

ASSUME FlowTableAssumption == /\ Flows # {}
                              /\ IsFiniteSet(Flows)
                              /\ MaxFlows \in Nat

VARIABLES table,     \* the keys in table_
          stale      \* those whose last_seen is older than idle_timeout_sec

FlowTableTypeOK == table \subseteq Flows /\ stale \subseteq table

FlowTableInit == table = {} /\ stale = {}

-----------------------------------------------------------------------------
(* getOrCreate: an existing flow is touched, a new one is created unless   *)
(* the table is full, and then the caller gets a null pointer.             *)

IsFull == Cardinality(table) >= MaxFlows

(* Fault: a look-up leaves last_seen as it was.                            *)
TouchWithoutRenewal(f) == f \in table /\ UNCHANGED <<table, stale>>

Touch(f) == /\ f \in table
            /\ stale' = stale \ {f}
            /\ UNCHANGED table

Create(f) == /\ f \notin table
             /\ ~IsFull
             /\ table' = table \union {f}
             /\ UNCHANGED stale

(* cleanup: every flow idle for longer than the timeout is erased.         *)
Cleanup == /\ table' = table \ stale
           /\ stale' = {}

(* The clock: a flow nobody has looked up for idle_timeout_sec seconds.    *)
GrowStale(f) == /\ f \in table \ stale
                /\ stale' = stale \union {f}
                /\ UNCHANGED table
=============================================================================
