------------------------------ MODULE MCSdFiles ------------------------------
(***************************************************************************)
(* Instances of SdFiles for TLC: a folder d with a file f in it, and a     *)
(* file a in the root.                                                     *)
(***************************************************************************)
EXTENDS SdFiles, TLC

CONSTANTS a, d, f

ParentOf == (a :> Root) @@ (d :> Root) @@ (f :> d)

Symmetry == Permutations(TempNames)
===============================================================================
