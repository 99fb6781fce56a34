--------------------------- MODULE MCQuotePipeline ---------------------------
(***************************************************************************)
(* Instances of QuotePipeline for TLC.  The names a configuration gives to *)
(* the faults it allows.                                                   *)
(***************************************************************************)
EXTENDS QuotePipeline

ReorderOnly     == {"reorder"}
LinkLossOnly    == {"linkloss"}
PullOnly        == {"pull"}
EveryFault      == FaultNames

SequencedOnly   == {"sequenced"}
EveryKind       == KindNames
===============================================================================
