------------------------------ MODULE QuoteStore ------------------------------
(***************************************************************************)
(* The quote data of the terminal: components/quotes/quote_store.{hpp,cpp} *)
(*                                                                         *)
(* A store maps a symbol to the last snapshot known of it.  A snapshot and *)
(* a delta carry one optional value per field (last_price, previous_close, *)
(* open, high, low, volume, turnover, trade_status, session; an empty      *)
(* string is absent): Fields is that set.  The store does the same to each *)
(* of them; which of them a pull and which a push brings is up to the      *)
(* decoders (QuotePipeline).  A value is a natural number, of which only   *)
(* the identity matters to the code.  A std::map keyed by symbol is a      *)
(* function on Symbols that is None where the map has no entry.            *)
(*                                                                         *)
(* Every operator below is a pure function: the state machines that own a  *)
(* store are in the modules that extend this one.                          *)
(***************************************************************************)
EXTENDS Naturals

CONSTANTS Symbols,   \* the securities the exchange quotes
          Fields,    \* the optional fields of a quote
          None       \* std::nullopt

Optional(S) == S \cup {None}

QuoteDelta == [value:          [Fields -> Optional(Nat)],
               timestamp_ms:   Optional(Nat),
               received_at_ms: Optional(Nat),
               sequence:       Optional(Nat)]

QuoteSnapshot == [value:          [Fields -> Optional(Nat)],
                  timestamp_ms:   Nat,
                  received_at_ms: Nat,
                  sequence:       Nat,
                  stale:          BOOLEAN]

ASSUME NoneAssumption == None \notin Nat \cup QuoteDelta \cup QuoteSnapshot

EmptyMap == [s \in Symbols |-> None]
Keys(map) == {s \in Symbols : map[s] # None}

\* A value-initialised QuoteSnapshot, what snapshots_[key] creates.
DefaultSnapshot == [value          |-> [f \in Fields |-> None],
                    timestamp_ms   |-> 0,
                    received_at_ms |-> 0,
                    sequence       |-> 0,
                    stale          |-> FALSE]

-------------------------------------------------------------------------------
(* Deltas *)

\* "if (update.x) merged.x = update.x"
Overlay(base, update) == IF update = None THEN base ELSE update

UpdateIsOlder(base, update) ==
  \/ /\ base.sequence # None
     /\ update.sequence # None
     /\ update.sequence < base.sequence
  \/ /\ base.sequence = None
     /\ update.sequence = None
     /\ base.timestamp_ms # None
     /\ update.timestamp_ms # None
     /\ update.timestamp_ms < base.timestamp_ms

\* Mutant: the older delta wins where both carry a field.
MergeDeltaBaseWins(base, update) ==
  IF UpdateIsOlder(base, update)
  THEN base
  ELSE [value          |-> [f \in Fields |-> Overlay(update.value[f], base.value[f])],
        timestamp_ms   |-> Overlay(base.timestamp_ms, update.timestamp_ms),
        received_at_ms |-> Overlay(base.received_at_ms, update.received_at_ms),
        sequence       |-> Overlay(base.sequence, update.sequence)]

MergeDelta(base, update) ==
  IF UpdateIsOlder(base, update)
  THEN base
  ELSE [value          |-> [f \in Fields |-> Overlay(base.value[f], update.value[f])],
        timestamp_ms   |-> Overlay(base.timestamp_ms, update.timestamp_ms),
        received_at_ms |-> Overlay(base.received_at_ms, update.received_at_ms),
        sequence       |-> Overlay(base.sequence, update.sequence)]

-------------------------------------------------------------------------------
(* The store *)

\* The entry apply_delta and apply_snapshot see for s: operator[] of the map.
Entry(store, s) == IF store[s] = None THEN DefaultSnapshot ELSE store[s]

\* apply_delta returns false without touching the fields.
Rejects(entry, delta) ==
  \/ /\ delta.sequence # None
     /\ entry.sequence # 0
     /\ delta.sequence <= entry.sequence
  \/ /\ delta.sequence = None
     /\ delta.timestamp_ms # None
     /\ delta.timestamp_ms < entry.timestamp_ms

\* Mutant: a field the delta does not carry is cleared.
PatchClears(entry, delta) ==
  [value          |-> delta.value,
   timestamp_ms   |-> Overlay(entry.timestamp_ms, delta.timestamp_ms),
   received_at_ms |-> Overlay(entry.received_at_ms, delta.received_at_ms),
   sequence       |-> Overlay(entry.sequence, delta.sequence),
   stale          |-> FALSE]

\* Mutant: the timestamp is taken without looking whether there is one.
PatchTakesAbsentTime(entry, delta) ==
  [value          |-> [f \in Fields |-> Overlay(entry.value[f], delta.value[f])],
   timestamp_ms   |-> delta.timestamp_ms,
   received_at_ms |-> Overlay(entry.received_at_ms, delta.received_at_ms),
   sequence       |-> Overlay(entry.sequence, delta.sequence),
   stale          |-> FALSE]

Patch(entry, delta) ==
  [value          |-> [f \in Fields |-> Overlay(entry.value[f], delta.value[f])],
   timestamp_ms   |-> Overlay(entry.timestamp_ms, delta.timestamp_ms),
   received_at_ms |-> Overlay(entry.received_at_ms, delta.received_at_ms),
   sequence       |-> Overlay(entry.sequence, delta.sequence),
   stale          |-> FALSE]

ApplyDelta(entry, delta) == IF Rejects(entry, delta) THEN entry ELSE Patch(entry, delta)

\* Mutant: the snapshot's zero sequence replaces the watermark.
ApplySnapshotForgets(entry, snapshot) == [snapshot EXCEPT !.stale = FALSE]

\* Mutant: a pull does not touch a row that pushes have updated.
ApplySnapshotYields(entry, snapshot) ==
  IF entry.sequence # 0 THEN entry
  ELSE [snapshot EXCEPT !.stale = FALSE]

\* A pulled snapshot replaces the entry, with the fields it does not carry; a
\* snapshot without a sequence (the QuotePull decoder never sets one) keeps the
\* watermark of the pushes.
ApplySnapshot(entry, snapshot) ==
  [snapshot EXCEPT !.sequence = IF @ # 0 THEN @ ELSE entry.sequence,
                   !.stale    = FALSE]

\* apply_delta over a batch with one delta per symbol (so in any order), and
\* apply_snapshot over the rows of one QuotePull response.
ApplyDeltas(store, deltas) ==
  [s \in Symbols |->
     IF deltas[s] = None THEN store[s] ELSE ApplyDelta(Entry(store, s), deltas[s])]

ApplySnapshots(store, rows) ==
  [s \in Symbols |->
     IF rows[s] = None THEN store[s] ELSE ApplySnapshot(Entry(store, s), rows[s])]

\* set_watchlist adds a stale entry for each new symbol and removes none.
SetWatchlist(store, order) ==
  [s \in Symbols |->
     IF s \in order /\ store[s] = None THEN [DefaultSnapshot EXCEPT !.stale = TRUE]
     ELSE store[s]]

\* received_at_ms <= 0 || now_ms - received_at_ms > stale_after_ms
IsTooOld(entry, now, staleAfter) ==
  entry.received_at_ms = 0 \/ now > entry.received_at_ms + staleAfter

MarkStale(store, symbols) ==
  [s \in Symbols |->
     IF s \in symbols \cap Keys(store) THEN [store[s] EXCEPT !.stale = TRUE] ELSE store[s]]

MarkStaleOlderThan(store, now, staleAfter) ==
  MarkStale(store, {s \in Keys(store) : IsTooOld(store[s], now, staleAfter)})

MarkAllStale(store) == MarkStale(store, Symbols)

\* The symbols of the rows ordered_snapshots returns: those of order_, or
\* every entry when order_ is empty.
OrderedSnapshots(store, order) ==
  IF order = {} THEN Keys(store) ELSE order \cap Keys(store)

===============================================================================
