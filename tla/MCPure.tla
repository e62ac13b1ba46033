-------------------------------- MODULE MCPure --------------------------------
(***************************************************************************)
(* The enumerations of Drift and of Generator one beside the other: a      *)
(* behaviour observes samples or generates a dataset, and leaves the other *)
(* module at its start.  The two share nothing.                            *)
(***************************************************************************)
EXTENDS Drift, Generator

PureInit == DriftInit /\ GenInit

ObserveSamples == GenInit /\ DriftNext /\ UNCHANGED genVars
GenerateData == DriftInit /\ GenNext /\ UNCHANGED driftVars

PureNext == ObserveSamples \/ GenerateData

PureSpec == PureInit /\ [][PureNext]_<<driftVars, genVars>>

=============================================================================
