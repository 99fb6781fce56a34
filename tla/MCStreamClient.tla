---------------------------- MODULE MCStreamClient ----------------------------
(***************************************************************************)
(* The instance of StreamClient for TLC: every fault.                      *)
(***************************************************************************)
EXTENDS StreamClient

AllFaults == FaultNames
===============================================================================
