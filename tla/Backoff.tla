-------------------------------- MODULE Backoff --------------------------------
(***************************************************************************)
(* BackoffPolicy: the delay before the next attempt of something that      *)
(* failed.  A policy keeps current_ms_, the last delay it gave, 0 after a  *)
(* reset; its product is computed in 64 bits and does not overflow.        *)
(***************************************************************************)
EXTENDS Naturals

Least(a, b) == IF a < b THEN a ELSE b
Greatest(a, b) == IF a > b THEN a ELSE b

Policy(base, max, factor) ==
  [base |-> base, max |-> Greatest(base, max), factor |-> Greatest(factor, 1)]

\* Mutant: the delay is multiplied without the limit.
NextDelayGrows(policy, current) ==
  IF current = 0 THEN policy.base ELSE current * policy.factor

NextDelay(policy, current) ==
  IF current = 0 THEN policy.base ELSE Least(current * policy.factor, policy.max)
===============================================================================
