------------------------------ MODULE MCMainLoop ------------------------------
(***************************************************************************)
(* Instances of MainLoop for TLC: delays of a few rounds in place of 2 to  *)
(* 60 seconds, and the faults a configuration allows.                      *)
(***************************************************************************)
EXTENDS MainLoop

CONSTANTS c1, c2

TwoCredentials == {c1, c2}
ShortWifiPolicy  == Policy(1, 3, 2)
ShortQuotePolicy == Policy(1, 2, 2)
OneRound         == Policy(1, 1, 1)
RecoveredFaults == {"ap", "driver", "slowjoin", "stream", "call", "flash"}
===============================================================================
