----------------------------- MODULE QuoteTicker -----------------------------
(***************************************************************************)
(* What the quote table promises, without queues, merging or sequences:    *)
(* each row follows the exchange through the quotes it really had,         *)
(* skipping some, never going back, and is marked live only once it shows  *)
(* one.  A quote comes whole from no source: a pull brings PullFields and  *)
(* erases the rest, a push brings PushFields.  So a field that only pushes *)
(* bring may be missing, and one that only pulls bring may lag behind.     *)
(* QuotePipeline implements it as long as the connection is kept and       *)
(* delivers in order.                                                      *)
(***************************************************************************)
EXTENDS Naturals, Sequences

CONSTANTS Symbols, PullFields, PushFields, None

VARIABLES
  log,    \* the quotes each symbol has had
  moment, \* which of them the row of the symbol shows; 0: none yet
  row,    \* the fields of the row
  live    \* the row is not marked stale

vars == <<log, moment, row, live>>

QuoteFields == PullFields \cup PushFields

Nothing == [f \in QuoteFields |-> None]

\* What the row holds when it shows the n-th quote of l.
Shows(value, l, n) ==
  IF n = 0 THEN value = Nothing
  ELSE /\ \A f \in PushFields : value[f] = l[n][f] \/ (f \notin PullFields /\ value[f] = None)
       /\ \A f \in QuoteFields \ PushFields :
            value[f] # None => \E m \in 1..n : value[f] = l[m][f]

Init ==
  /\ log = [s \in Symbols |-> <<[f \in QuoteFields |-> 1]>>]
  /\ moment = [s \in Symbols |-> 0]
  /\ row = [s \in Symbols |-> Nothing]
  /\ live = [s \in Symbols |-> FALSE]

\* The next quote of s differs from the last one in the fields F.
Change(s, F) ==
  LET n == Len(log[s]) + 1
  IN  log' = [log EXCEPT ![s] =
                Append(@, [f \in QuoteFields |-> IF f \in F THEN n ELSE @[n - 1][f]])]

\* What only pulls bring is neither lost nor taken back.
Lags(s) ==
  \A f \in QuoteFields \ PushFields :
    row[s][f] # None => row'[s][f] # None /\ row[s][f] <= row'[s][f]

\* Rows catch up, in part or in full, and are marked live or stale.
Follow ==
  /\ \A s \in Symbols :
       /\ moment'[s] \in moment[s]..Len(log[s])
       /\ Shows(row'[s], log[s], moment'[s])
       /\ Lags(s)
       /\ live'[s] => moment'[s] > 0
  /\ UNCHANGED log

Next ==
  \/ Follow
  \/ /\ \E s \in Symbols, F \in SUBSET QuoteFields : F \cap PushFields # {} /\ Change(s, F)
     /\ UNCHANGED <<moment, row, live>>

Spec == Init /\ [][Next]_vars
===============================================================================
