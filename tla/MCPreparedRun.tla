---------------------------- MODULE MCPreparedRun ----------------------------
(* The settings of the model-checking run of PreparedRun. *)
EXTENDS PreparedRun

\* Everything may go wrong, or a failed create is settled before the recovery
\* looks for it; and a caller may name its submissions itself.
ThreeSettings ==
  { [pinned |-> FALSE, faults |-> FaultKinds],
    [pinned |-> FALSE, faults |-> FaultKinds \ {"late", "lookup"}],
    [pinned |-> TRUE, faults |-> FaultKinds] }
=============================================================================
