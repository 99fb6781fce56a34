------------------------- MODULE QuotePipelineProofs -------------------------
(***************************************************************************)
(* Proofs about the quote pipeline, for every set of symbols and fields,   *)
(* every kind of push and every combination of faults.                     *)
(***************************************************************************)
EXTENDS QuotePipeline, SequenceTheorems, FiniteSetTheorems, TLAPS

Store == [Symbols -> Optional(QuoteSnapshot)]
Batch == [Symbols -> Optional(QuoteDelta)]

-------------------------------------------------------------------------------
(* What the operators of the store return *)

LEMMA OverlayType ==
  ASSUME NEW S, NEW base \in Optional(S), NEW update \in Optional(S)
  PROVE  /\ Overlay(base, update) \in Optional(S)
         /\ base \in S => Overlay(base, update) \in S
BY DEF Overlay, Optional

LEMMA MergeDeltaType ==
  ASSUME NEW base \in QuoteDelta, NEW update \in QuoteDelta
  PROVE  MergeDelta(base, update) \in QuoteDelta
<1>1. \A f \in Fields : Overlay(base.value[f], update.value[f]) \in Optional(Nat)
  BY OverlayType DEF QuoteDelta
<1>2. /\ Overlay(base.timestamp_ms, update.timestamp_ms) \in Optional(Nat)
      /\ Overlay(base.received_at_ms, update.received_at_ms) \in Optional(Nat)
      /\ Overlay(base.sequence, update.sequence) \in Optional(Nat)
  BY OverlayType DEF QuoteDelta
<1>3. QED
  BY <1>1, <1>2 DEF MergeDelta, QuoteDelta

LEMMA DefaultSnapshotType == DefaultSnapshot \in QuoteSnapshot
BY DEF DefaultSnapshot, QuoteSnapshot, Optional

LEMMA EntryType ==
  ASSUME NEW store \in Store, NEW s \in Symbols
  PROVE  Entry(store, s) \in QuoteSnapshot
BY DefaultSnapshotType DEF Entry, Store, Optional

LEMMA ApplyDeltaType ==
  ASSUME NEW entry \in QuoteSnapshot, NEW delta \in QuoteDelta
  PROVE  /\ ApplyDelta(entry, delta) \in QuoteSnapshot
         /\ entry.sequence <= ApplyDelta(entry, delta).sequence
         /\ Rejects(entry, delta) => ApplyDelta(entry, delta) = entry
<1>1. \A f \in Fields : Overlay(entry.value[f], delta.value[f]) \in Optional(Nat)
  BY OverlayType DEF QuoteDelta, QuoteSnapshot
<1>2. /\ Overlay(entry.timestamp_ms, delta.timestamp_ms) \in Nat
      /\ Overlay(entry.received_at_ms, delta.received_at_ms) \in Nat
      /\ Overlay(entry.sequence, delta.sequence) \in Nat
  BY DEF QuoteDelta, QuoteSnapshot, Overlay, Optional
<1>3. Patch(entry, delta) \in QuoteSnapshot
  BY <1>1, <1>2 DEF Patch, QuoteSnapshot
<1>4. ~Rejects(entry, delta) => entry.sequence <= Patch(entry, delta).sequence
  BY DEF Rejects, Patch, Overlay, QuoteDelta, QuoteSnapshot, Optional
<1>5. entry.sequence <= entry.sequence
  BY DEF QuoteSnapshot
<1>6. QED
  BY <1>3, <1>4, <1>5 DEF ApplyDelta

LEMMA ApplySnapshotType ==
  ASSUME NEW entry \in QuoteSnapshot, NEW snapshot \in QuoteSnapshot
  PROVE  /\ ApplySnapshot(entry, snapshot) \in QuoteSnapshot
         /\ snapshot.sequence = 0 => ApplySnapshot(entry, snapshot).sequence = entry.sequence
BY DEF ApplySnapshot, QuoteSnapshot

LEMMA MarkStaleType ==
  ASSUME NEW store \in Store, NEW symbols
  PROVE  /\ MarkStale(store, symbols) \in Store
         /\ \A s \in Symbols : store[s] = None => MarkStale(store, symbols)[s] = None
         /\ \A s \in Keys(store) :
              /\ MarkStale(store, symbols)[s] \in QuoteSnapshot
              /\ MarkStale(store, symbols)[s].value = store[s].value
              /\ MarkStale(store, symbols)[s].timestamp_ms = store[s].timestamp_ms
              /\ MarkStale(store, symbols)[s].sequence = store[s].sequence
              /\ store[s].stale => MarkStale(store, symbols)[s].stale
              /\ s \in symbols => MarkStale(store, symbols)[s].stale
<1>1. \A e \in QuoteSnapshot : /\ [e EXCEPT !.stale = TRUE] \in QuoteSnapshot
                               /\ [e EXCEPT !.stale = TRUE].value = e.value
                               /\ [e EXCEPT !.stale = TRUE].timestamp_ms = e.timestamp_ms
                               /\ [e EXCEPT !.stale = TRUE].sequence = e.sequence
                               /\ [e EXCEPT !.stale = TRUE].stale
  BY DEF QuoteSnapshot
<1>2. \A s \in Keys(store) : store[s] \in QuoteSnapshot
  BY DEF Keys, Store, Optional
<1>3. QED
  BY <1>1, <1>2 DEF MarkStale, Store, Optional, Keys

LEMMA SetWatchlistType ==
  ASSUME NEW store \in Store, NEW order
  PROVE  /\ SetWatchlist(store, order) \in Store
         /\ \A s \in Keys(store) : SetWatchlist(store, order)[s] = store[s]
         /\ \A s \in Symbols : SetWatchlist(store, order)[s] # None /\ store[s] = None
                                 => SetWatchlist(store, order)[s].stale
<1>1. /\ [DefaultSnapshot EXCEPT !.stale = TRUE] \in QuoteSnapshot
      /\ [DefaultSnapshot EXCEPT !.stale = TRUE].stale
  BY DefaultSnapshotType DEF QuoteSnapshot
<1>2. QED
  BY <1>1 DEF SetWatchlist, Store, Optional, Keys

LEMMA ApplyDeltasType ==
  ASSUME NEW store \in Store, NEW deltas \in Batch
  PROVE  /\ ApplyDeltas(store, deltas) \in Store
         /\ \A s \in Symbols :
              /\ deltas[s] = None => ApplyDeltas(store, deltas)[s] = store[s]
              /\ deltas[s] # None =>
                   ApplyDeltas(store, deltas)[s] = ApplyDelta(Entry(store, s), deltas[s])
<1>1. \A s \in Symbols : deltas[s] # None => ApplyDelta(Entry(store, s), deltas[s]) \in QuoteSnapshot
  BY EntryType, ApplyDeltaType DEF Batch, Optional
<1>2. QED
  BY <1>1 DEF ApplyDeltas, Store, Optional

LEMMA ApplySnapshotsType ==
  ASSUME NEW store \in Store, NEW rows \in Store
  PROVE  /\ ApplySnapshots(store, rows) \in Store
         /\ \A s \in Symbols :
              /\ rows[s] = None => ApplySnapshots(store, rows)[s] = store[s]
              /\ rows[s] # None =>
                   ApplySnapshots(store, rows)[s] = ApplySnapshot(Entry(store, s), rows[s])
<1>1. \A s \in Symbols : rows[s] # None => ApplySnapshot(Entry(store, s), rows[s]) \in QuoteSnapshot
  BY EntryType, ApplySnapshotType DEF Store, Optional
<1>2. QED
  BY <1>1 DEF ApplySnapshots, Store, Optional

LEMMA EmptyMapType == EmptyMap \in Store /\ EmptyMap \in Batch
BY DEF EmptyMap, Store, Batch, Optional

LEMMA RemoveAtType ==
  ASSUME NEW S, NEW seq \in Seq(S), NEW i \in 1..Len(seq)
  PROVE  /\ RemoveAt(seq, i) \in Seq(S)
         /\ \A j \in 1..Len(RemoveAt(seq, i)) : \E k \in 1..Len(seq) : RemoveAt(seq, i)[j] = seq[k]
<1> DEFINE before == SubSeq(seq, 1, i - 1)
           after  == SubSeq(seq, i + 1, Len(seq))
<1>1. /\ before \in Seq(S)
      /\ Len(before) = i - 1
      /\ \A j \in 1..(i - 1) : before[j] = seq[j]
  BY SubSeqProperties
<1>2. /\ after \in Seq(S)
      /\ Len(after) = Len(seq) - i
      /\ \A j \in 1..(Len(seq) - i) : after[j] = seq[i + j]
  <2>1. CASE i < Len(seq)
    BY <2>1, SubSeqProperties
  <2>2. CASE i = Len(seq)
    BY <2>2, SubSeqProperties
  <2>3. QED
    BY <2>1, <2>2
<1>3. RemoveAt(seq, i) = before \o after
  BY DEF RemoveAt
<1> HIDE DEF before, after
<1>4. /\ before \o after \in Seq(S)
      /\ Len(before \o after) = Len(before) + Len(after)
      /\ \A j \in 1..(Len(before) + Len(after)) :
           (before \o after)[j] = IF j <= Len(before) THEN before[j] ELSE after[j - Len(before)]
  BY <1>1, <1>2, ConcatProperties
<1>5. ASSUME NEW j \in 1..Len(RemoveAt(seq, i))
      PROVE  \E k \in 1..Len(seq) : RemoveAt(seq, i)[j] = seq[k]
  <2>1. CASE j <= i - 1
    BY <2>1, <1>1, <1>2, <1>3, <1>4
  <2>2. CASE j > i - 1
    <3>1. /\ j - (i - 1) \in 1..(Len(seq) - i)
          /\ i + (j - (i - 1)) \in 1..Len(seq)
      BY <2>2, <1>1, <1>2, <1>3, <1>4
    <3>2. RemoveAt(seq, i)[j] = after[j - (i - 1)]
      BY <2>2, <1>1, <1>2, <1>3, <1>4
    <3>3. QED
      BY <3>1, <3>2, <1>2
  <2>3. QED
    BY <2>1, <2>2
<1>6. QED
  BY <1>3, <1>4, <1>5

-------------------------------------------------------------------------------
(* Type correctness *)

LEMMA RedrawType ==
  ASSUME NEW store \in Store
  PROVE  Redraw(store) \in Store
BY SetWatchlistType DEF Redraw

LEMMA MarkAllStaleType ==
  ASSUME NEW store \in Store
  PROVE  MarkAllStale(store) \in Store
BY MarkStaleType DEF MarkAllStale

\* The messages the exchange sends are well typed.
LEMMA PushType ==
  ASSUME NEW s \in Symbols, NEW n \in Nat, NEW value \in [Fields -> Optional(Nat)], NEW kind
  PROVE  Push(s, n, value, kind) \in Message
BY DEF Push, Only, Message, QuoteDelta, Optional

LEMMA CurrentQuoteType ==
  ASSUME TypeOK, NEW s \in Symbols
  PROVE  CurrentQuote(s) \in Quote /\ Len(log[s]) \in Nat
<1>1. log[s] \in Seq(Quote) /\ log[s] # <<>>
  BY DEF TypeOK
<1>2. Len(log[s]) \in Nat /\ Len(log[s]) # 0
  BY <1>1, EmptySeq, LenProperties
<1>3. QED
  BY <1>1, <1>2, ElementOfSeq DEF CurrentQuote, Last

LEMMA PulledRowType ==
  ASSUME TypeOK, NEW s \in Symbols
  PROVE  PulledRow(s) \in QuoteSnapshot /\ PulledRow(s).sequence = 0
BY CurrentQuoteType DEF PulledRow, Only, QuoteSnapshot, Quote, Optional

LEMMA InitType == Init => TypeOK
<1> SUFFICES ASSUME Init PROVE TypeOK
  OBVIOUS
<1>1. log \in [Symbols -> Seq(Quote) \ {<<>>}]
  BY DEF Init, Quote
<1>2. subscribed \in [Symbols -> {"no", "owed", "yes"}]
  BY DEF Init, Unsubscribed
<1>3. snapshots \in Store /\ pending \in Batch /\ reply \in Store
  BY EmptyMapType, SetWatchlistType DEF Init
<1>4. wire \in Seq(Message)
  BY DEF Init
<1>5. QED
  BY <1>1, <1>2, <1>3, <1>4 DEF Init, TypeOK, Store, Batch, MainStates

\* The exchange keeps the types.
LEMMA ExchangeType == TypeOK /\ Exchange => TypeOK'
<1> SUFFICES ASSUME TypeOK, Exchange PROVE TypeOK'
  OBVIOUS
<1>1. ASSUME NEW s \in Symbols, NEW F \in (SUBSET Fields) \ {{}}, Publish(s, F)
      PROVE  TypeOK'
  <2> DEFINE n == Len(log[s]) + 1
             quote == [f \in Fields |-> IF f \in F THEN n ELSE CurrentQuote(s)[f]]
             value == [f \in Fields |-> IF f \in F THEN n ELSE None]
  <2>1. CurrentQuote(s) \in Quote /\ n \in Nat
    BY CurrentQuoteType
  <2>2. quote \in Quote /\ value \in [Fields -> Optional(Nat)]
    BY <2>1 DEF Quote, Optional
  <2>3. log[s] \in Seq(Quote)
    BY DEF TypeOK
  <2> HIDE DEF quote, value, n
  <2>4. Append(log[s], quote) \in Seq(Quote) \ {<<>>}
    BY <2>2, <2>3, AppendProperties
  <2>5. log' = [log EXCEPT ![s] = Append(log[s], quote)]
    BY <1>1 DEF Publish, CurrentQuote, quote, n
  <2>6. log' \in [Symbols -> Seq(Quote) \ {<<>>}]
    BY <2>4, <2>5 DEF TypeOK
  <2>7. wire' \in Seq(Message)
    <3>1. CASE \E kind \in Kinds : wire' = Append(wire, Push(s, n, value, kind))
      <4>1. PICK kind \in Kinds : wire' = Append(wire, Push(s, n, value, kind))
        BY <3>1
      <4>2. Push(s, n, value, kind) \in Message
        BY <2>1, <2>2, PushType
      <4>3. QED
        BY <4>1, <4>2, AppendProperties DEF TypeOK
    <3>2. CASE wire' = wire
      BY <3>2 DEF TypeOK
    <3>3. QED
      BY <1>1, <3>1, <3>2 DEF Publish, n, value
  <2>8. QED
    BY <1>1, <2>6, <2>7 DEF Publish, TypeOK, queueVars, streamVars
<1>2. ASSUME NEW s \in Symbols, FirstPush(s)
      PROVE  TypeOK'
  <2>1. PICK kind \in Kinds : wire' = Append(wire, Push(s, Len(log[s]), CurrentQuote(s), kind))
    BY <1>2 DEF FirstPush
  <2>2. Push(s, Len(log[s]), CurrentQuote(s), kind) \in Message
    BY CurrentQuoteType, PushType DEF Quote, Optional
  <2>3. wire' \in Seq(Message)
    BY <2>1, <2>2, AppendProperties DEF TypeOK
  <2>4. subscribed' \in [Symbols -> {"no", "owed", "yes"}]
    BY <1>2 DEF FirstPush, TypeOK
  <2>5. QED
    BY <1>2, <2>3, <2>4 DEF FirstPush, TypeOK, queueVars, streamVars
<1>3. ASSUME NEW rows \in (SUBSET watchlist) \ {{}}, AnswerPull(rows)
      PROVE  TypeOK'
  <2> DEFINE answer == [type |-> "reply",
                        rows |-> [s \in Symbols |-> IF s \in rows THEN PulledRow(s) ELSE None]]
  <2>1. answer \in Message
    BY PulledRowType DEF Message, Optional
  <2>2. wire' = Append(wire, answer)
    BY <1>3 DEF AnswerPull
  <2> HIDE DEF answer
  <2>3. wire' \in Seq(Message)
    BY <2>1, <2>2, AppendProperties DEF TypeOK
  <2>4. QED
    BY <1>3, <2>3 DEF AnswerPull, TypeOK, exchangeVars, queueVars, streamVars, MainStates
<1>4. CASE LoseLink
  <2>1. wire' \in Seq(Message)
    BY <1>4 DEF LoseLink
  <2>2. subscribed' \in [Symbols -> {"no", "owed", "yes"}]
    BY <1>4 DEF LoseLink, Unsubscribed
  <2>3. failures' \in Nat
    BY <1>4 DEF LoseLink, Fault, TypeOK
  <2>4. linked' \in BOOLEAN
    BY <1>4 DEF LoseLink
  <2>5. main' \in MainStates
    BY <1>4 DEF LoseLink, TypeOK, MainStates
  <2>6. QED
    BY <1>4, <2>1, <2>2, <2>3, <2>4, <2>5 DEF LoseLink, TypeOK, queueVars, streamVars
<1>5. QED
  BY <1>1, <1>2, <1>3, <1>4 DEF Exchange

\* The message at an index of the wire, and the wire without it.
LEMMA ArrivingType ==
  ASSUME TypeOK, NEW i \in Arriving
  PROVE  /\ i \in 1..Len(wire)
         /\ wire[i] \in Message
         /\ RemoveAt(wire, i) \in Seq(Message)
<1>1. i \in 1..Len(wire)
  BY DEF Arriving
<1>2. QED
  BY <1>1, ElementOfSeq, RemoveAtType DEF TypeOK

\* The WebSocket task keeps the types.
LEMMA WebSocketTaskType == TypeOK /\ WebSocketTask => TypeOK'
<1> SUFFICES ASSUME TypeOK, NEW i \in Arriving,
                    ReceivePush(i) \/ ReceiveReply(i) \/ DropLateReply(i)
             PROVE  TypeOK'
  BY DEF WebSocketTask
<1>1. /\ wire[i] \in Message
      /\ RemoveAt(wire, i) \in Seq(Message)
  BY ArrivingType
<1>2. CASE ReceivePush(i)
  <2> DEFINE s == wire[i].symbol
             delta == [wire[i].delta EXCEPT !.received_at_ms = now]
  <2>1. wire[i].symbol \in Symbols /\ wire[i].delta \in QuoteDelta
    BY <1>1, <1>2 DEF ReceivePush, Message
  <2>2. delta \in QuoteDelta
    BY <2>1 DEF QuoteDelta, Optional, TypeOK
  <2>3. QueueQuoteDelta(s, delta)
    BY <1>2 DEF ReceivePush
  <2>4. s \in Symbols
    BY <2>1
  <2> HIDE DEF s, delta
  <2>5. /\ pending' \in [Symbols -> Optional(QuoteDelta)]
        /\ dropped' \in Nat
        /\ failures' \in Nat
        /\ overflowed' \subseteq Symbols
    <3>1. CASE pending[s] # None /\ pending' = [pending EXCEPT ![s] = MergeDelta(@, delta)]
               /\ UNCHANGED <<dropped, overflowed, failures>>
      <4>1. pending[s] \in QuoteDelta
        BY <3>1, <2>4 DEF TypeOK, Optional
      <4>2. MergeDelta(pending[s], delta) \in QuoteDelta
        BY <4>1, <2>2, MergeDeltaType
      <4>3. QED
        BY <3>1, <4>2, <2>4 DEF TypeOK, Optional
    <3>2. CASE pending' = [pending EXCEPT ![s] = delta]
               /\ UNCHANGED <<dropped, overflowed, failures>>
      BY <3>2, <2>2, <2>4 DEF TypeOK, Optional
    <3>3. CASE /\ dropped' = dropped + 1
               /\ overflowed' = overflowed \cup {s}
               /\ UNCHANGED <<pending, failures>>
      BY <3>3, <2>4 DEF TypeOK
    <3>4. CASE Fault("timeout") /\ UNCHANGED queueVars
      BY <3>4 DEF TypeOK, Fault, queueVars
    <3>5. QED
      BY <2>3, <3>1, <3>2, <3>3, <3>4 DEF QueueQuoteDelta
  <2>6. QED
    BY <1>1, <1>2, <2>5 DEF ReceivePush, TypeOK, exchangeVars, streamVars
<1>3. CASE ReceiveReply(i)
  <2>1. reply' \in [Symbols -> Optional(QuoteSnapshot)]
    BY <1>1, <1>3 DEF ReceiveReply, Message
  <2>2. QED
    BY <1>1, <1>3, <2>1
    DEF ReceiveReply, TypeOK, MainStates, exchangeVars, queueVars, streamVars
<1>4. CASE DropLateReply(i)
  BY <1>1, <1>4 DEF DropLateReply, TypeOK, exchangeVars, queueVars, streamVars
<1>5. QED
  BY <1>2, <1>3, <1>4

\* The rows the main task applies carry the time of their arrival.
StampedRows ==
  [s \in Symbols |-> IF reply[s] = None THEN None ELSE [reply[s] EXCEPT !.received_at_ms = now]]

LEMMA StampedRowsType ==
  ASSUME TypeOK
  PROVE  /\ StampedRows \in Store
         /\ \A s \in Symbols :
              /\ reply[s] = None <=> StampedRows[s] = None
              /\ reply[s] # None => StampedRows[s].sequence = reply[s].sequence
<1>1. ASSUME NEW s \in Symbols, reply[s] # None
      PROVE  /\ [reply[s] EXCEPT !.received_at_ms = now] \in QuoteSnapshot
             /\ [reply[s] EXCEPT !.received_at_ms = now].sequence = reply[s].sequence
  <2>1. reply[s] \in QuoteSnapshot
    BY <1>1 DEF TypeOK, Optional
  <2>2. QED
    BY <2>1 DEF QuoteSnapshot, TypeOK
<1>2. QED
  BY <1>1, NoneAssumption DEF StampedRows, Store, Optional

\* What each operation of the main task makes of the store, and its type.
LEMMA DrainedStoreType ==
  ASSUME TypeOK, ProcessQuoteDeltas
  PROVE  /\ snapshots' \in Store
         /\ \E base \in Store :
              /\ base = IF dropped > 0 THEN MarkAllStale(snapshots) ELSE snapshots
              /\ ApplyDeltas(base, pending) \in Store
              /\ snapshots' = Redraw(ApplyDeltas(base, pending))
<1> DEFINE base == IF dropped > 0 THEN MarkAllStale(snapshots) ELSE snapshots
<1>1. base \in Store
  BY MarkAllStaleType DEF TypeOK, Store
<1>2. ApplyDeltas(base, pending) \in Store
  BY <1>1, ApplyDeltasType DEF TypeOK, Batch
<1>3. snapshots' = Redraw(ApplyDeltas(base, pending))
  BY DEF ProcessQuoteDeltas
<1> HIDE DEF base
<1>4. snapshots' \in Store
  BY <1>2, <1>3, RedrawType
<1>5. QED
  BY <1>1, <1>2, <1>3, <1>4 DEF base

LEMMA PulledStoreType ==
  ASSUME TypeOK, ApplyPull
  PROVE  /\ ApplySnapshots(snapshots, StampedRows) \in Store
         /\ snapshots' = Redraw(ApplySnapshots(snapshots, StampedRows))
         /\ snapshots' \in Store
<1>1. ApplySnapshots(snapshots, StampedRows) \in Store
  BY StampedRowsType, ApplySnapshotsType DEF TypeOK, Store
<1>2. snapshots' = Redraw(ApplySnapshots(snapshots, StampedRows))
  BY DEF ApplyPull, StampedRows
<1>3. QED
  BY <1>1, <1>2, RedrawType

\* The main task keeps the types.
LEMMA MainType == TypeOK /\ Main => TypeOK'
<1> SUFFICES ASSUME TypeOK, Main PROVE TypeOK'
  OBVIOUS
<1>0. /\ snapshots \in Store
      /\ Unsubscribed \in [Symbols -> {"no", "owed", "yes"}]
      /\ EmptyMap \in [Symbols -> Optional(QuoteDelta)]
      /\ EmptyMap \in [Symbols -> Optional(QuoteSnapshot)]
  BY EmptyMapType DEF TypeOK, Unsubscribed, Store, Batch
<1>1. CASE ProcessQuoteDeltas
  <2>1. snapshots' \in Store
    BY <1>1, DrainedStoreType
  <2>2. /\ pending' \in [Symbols -> Optional(QuoteDelta)]
        /\ dropped' \in Nat
        /\ overflowed' \subseteq Symbols
    BY <1>0, <1>1 DEF ProcessQuoteDeltas, TypeOK
  <2>3. QED
    BY <1>1, <2>1, <2>2 DEF ProcessQuoteDeltas, TypeOK, Store, exchangeVars, streamVars
<1>2. CASE StartRefresh \/ SkipPull \/ SendPull
  <2>1. main' \in MainStates /\ linked' \in BOOLEAN
    BY <1>2 DEF StartRefresh, SkipPull, SendPull, TypeOK, MainStates
  <2>2. QED
    BY <1>2, <2>1
    DEF StartRefresh, SkipPull, SendPull, TypeOK, exchangeVars, queueVars, streamVars
<1>3. CASE PullFails
  <2>1. snapshots' \in Store
    BY <1>0, <1>3, MarkAllStaleType, RedrawType DEF PullFails
  <2>2. wire' \in Seq(Message)
    <3>1. \A m \in Message : m.type = "reply" => [m EXCEPT !.type = "late"] \in Message
      BY DEF Message
    <3>2. /\ wire' = [i \in 1..Len(wire) |->
                       IF wire[i].type = "reply" THEN [wire[i] EXCEPT !.type = "late"] ELSE wire[i]]
          /\ Len(wire) \in Nat
          /\ \A i \in 1..Len(wire) : wire[i] \in Message
      BY <1>3, LenProperties, ElementOfSeq DEF PullFails, TypeOK
    <3>3. wire' \in [1..Len(wire) -> Message]
      BY <3>1, <3>2
    <3>4. QED
      BY <3>2, <3>3, SeqDef
  <2>3. failures' \in Nat
    BY <1>3 DEF PullFails, Fault, TypeOK
  <2>4. main' \in MainStates
    BY <1>3 DEF PullFails, MainStates
  <2>5. QED
    BY <1>0, <1>3, <2>1, <2>2, <2>3, <2>4
    DEF PullFails, TypeOK, Store, exchangeVars, queueVars, streamVars
<1>4. CASE ApplyPull
  <2>1. snapshots' \in Store
    BY <1>4, PulledStoreType
  <2>2. main' \in MainStates /\ overflowed' \subseteq Symbols
    BY <1>4 DEF ApplyPull, TypeOK, MainStates
  <2>3. QED
    BY <1>0, <1>4, <2>1, <2>2 DEF ApplyPull, TypeOK, Store, exchangeVars, streamVars
<1>5. CASE EnsureQuoteStream
  <2>1. main' \in MainStates
    BY <1>5 DEF EnsureQuoteStream, MainStates
  <2>2. CASE UNCHANGED <<subscribed, wire, linked, streamVars, failures>>
    BY <1>5, <2>1, <2>2 DEF EnsureQuoteStream, TypeOK, queueVars, streamVars
  <2>3. CASE Subscribe
    <3>1. /\ subscribed' \in [Symbols -> {"no", "owed", "yes"}]
          /\ streamKey' \subseteq Symbols
      BY <2>3 DEF Subscribe, TypeOK
    <3>2. linked' \in BOOLEAN /\ online' \in BOOLEAN
      BY <2>3 DEF Subscribe
    <3>3. QED
      BY <1>5, <2>1, <2>3, <3>1, <3>2 DEF EnsureQuoteStream, Subscribe, TypeOK, queueVars
  <2>4. CASE SubscribeFails
    <3>1. linked' \in BOOLEAN /\ online' \in BOOLEAN
      BY <2>4 DEF SubscribeFails, TypeOK
    <3>2. wire' \in Seq(Message) /\ streamKey' \subseteq Symbols
      BY <2>4 DEF SubscribeFails
    <3>3. failures' \in Nat
      BY <2>4 DEF SubscribeFails, Fault, TypeOK
    <3>4. QED
      BY <1>0, <1>5, <2>1, <2>4, <3>1, <3>2, <3>3
      DEF EnsureQuoteStream, SubscribeFails, TypeOK, queueVars
  <2>5. QED
    BY <1>5, <2>2, <2>3, <2>4 DEF EnsureQuoteStream
<1>6. CASE HandleQuoteStreamState
  <2>1. snapshots' \in Store
    BY <1>0, <1>6, MarkAllStaleType, RedrawType DEF HandleQuoteStreamState
  <2>2. online' \in BOOLEAN /\ streamKey' \subseteq Symbols
    BY <1>6 DEF HandleQuoteStreamState, TypeOK
  <2>3. QED
    BY <1>6, <2>1, <2>2 DEF HandleQuoteStreamState, TypeOK, Store, exchangeVars, queueVars
<1>7. CASE SweepStale
  <2>1. snapshots' \in Store
    BY <1>0, <1>7, MarkStaleType DEF SweepStale, MarkStaleOlderThan
  <2>2. QED
    BY <1>7, <2>1 DEF SweepStale, TypeOK, Store, exchangeVars, queueVars, streamVars
<1>8. ASSUME NEW s \in Symbols, HandleAddSymbol(s)
      PROVE  TypeOK'
  <2>1. snapshots' \in Store
    BY <1>0, <1>8, SetWatchlistType DEF HandleAddSymbol
  <2>2. watchlist' \subseteq Symbols /\ main' \in MainStates
    BY <1>8 DEF HandleAddSymbol, TypeOK, MainStates
  <2>3. QED
    BY <1>8, <2>1, <2>2 DEF HandleAddSymbol, TypeOK, Store, exchangeVars, queueVars, streamVars
<1>9. ASSUME NEW s \in Symbols, HandleRemoveSymbol(s)
      PROVE  TypeOK'
  <2>1. snapshots' \in Store
    BY <1>9, EmptyMapType, SetWatchlistType DEF HandleRemoveSymbol
  <2>2. watchlist' \subseteq Symbols /\ main' \in MainStates
    BY <1>9 DEF HandleRemoveSymbol, TypeOK, MainStates
  <2>3. wire' \in Seq(Message) /\ streamKey' \subseteq Symbols
    BY <1>9 DEF HandleRemoveSymbol
  <2>4. failures' \in Nat
    BY <1>9 DEF HandleRemoveSymbol, Fault, TypeOK
  <2>5. QED
    BY <1>0, <1>9, <2>1, <2>2, <2>3, <2>4 DEF HandleRemoveSymbol, TypeOK, Store, queueVars
<1>10. QED
  BY <1>1, <1>2, <1>3, <1>4, <1>5, <1>6, <1>7, <1>8, <1>9 DEF Main

LEMMA StepType == TypeOK /\ [Next]_vars => TypeOK'
<1> SUFFICES ASSUME TypeOK, [Next]_vars PROVE TypeOK'
  OBVIOUS
<1>1. CASE Tick
  BY <1>1 DEF Tick, TypeOK, exchangeVars, queueVars, streamVars
<1>2. CASE UNCHANGED vars
  BY <1>2 DEF vars, TypeOK, exchangeVars, queueVars, streamVars
<1>3. QED
  BY <1>1, <1>2, ExchangeType, WebSocketTaskType, MainType DEF Next

\* Every variable of the pipeline keeps its type, whatever the interleaving of
\* the tasks, the faults and the bounds.
THEOREM TypeCorrect == Spec => []TypeOK
BY InitType, StepType, PTL DEF Spec

-------------------------------------------------------------------------------
(* The watermark *)

\* Rows of a pull carry no sequence, on the wire and once received.
PullsHaveNoSequence ==
  /\ \A i \in 1..Len(wire) :
       wire[i].type # "push" =>
         \A s \in Symbols : wire[i].rows[s] # None => wire[i].rows[s].sequence = 0
  /\ \A s \in Symbols : reply[s] # None => reply[s].sequence = 0

\* No entry disappears and no watermark goes back.
NotBack(old, new) ==
  \A s \in Keys(old) : s \in Keys(new) /\ old[s].sequence <= new[s].sequence

LEMMA NotBackTransitive ==
  ASSUME NEW one \in Store, NEW two \in Store, NEW three \in Store,
         NotBack(one, two), NotBack(two, three)
  PROVE  NotBack(one, three)
<1> SUFFICES ASSUME NEW s \in Keys(one)
             PROVE  s \in Keys(three) /\ one[s].sequence <= three[s].sequence
  BY DEF NotBack
<1>1. /\ s \in Keys(two) /\ one[s].sequence <= two[s].sequence
      /\ s \in Keys(three) /\ two[s].sequence <= three[s].sequence
  BY DEF NotBack
<1>2. one[s] \in QuoteSnapshot /\ two[s] \in QuoteSnapshot /\ three[s] \in QuoteSnapshot
  BY <1>1 DEF Keys, Store, Optional
<1>3. one[s].sequence \in Nat /\ two[s].sequence \in Nat /\ three[s].sequence \in Nat
  BY <1>2 DEF QuoteSnapshot
<1>4. QED
  BY <1>1, <1>3

LEMMA EntrySequence ==
  ASSUME NEW store \in Store, NEW s \in Keys(store)
  PROVE  /\ store[s] \in QuoteSnapshot
         /\ store[s] # None
         /\ Entry(store, s) = store[s]
         /\ store[s].sequence \in Nat
         /\ store[s].sequence <= store[s].sequence
<1>1. store[s] \in QuoteSnapshot /\ store[s] # None
  BY DEF Keys, Store, Optional
<1>2. store[s].sequence \in Nat
  BY <1>1 DEF QuoteSnapshot
<1>3. QED
  BY <1>1, <1>2 DEF Entry

LEMMA RedrawNotBack ==
  ASSUME NEW store \in Store
  PROVE  NotBack(store, Redraw(store))
BY SetWatchlistType, EntrySequence DEF NotBack, Redraw, Keys

LEMMA MarkStaleNotBack ==
  ASSUME NEW store \in Store, NEW symbols
  PROVE  NotBack(store, MarkStale(store, symbols))
<1> SUFFICES ASSUME NEW s \in Keys(store)
             PROVE  /\ s \in Keys(MarkStale(store, symbols))
                    /\ store[s].sequence <= MarkStale(store, symbols)[s].sequence
  BY DEF NotBack
<1>1. /\ MarkStale(store, symbols)[s] \in QuoteSnapshot
      /\ MarkStale(store, symbols)[s].sequence = store[s].sequence
  BY MarkStaleType
<1>2. QED
  BY <1>1, EntrySequence, NoneAssumption DEF Keys

LEMMA ApplyDeltasNotBack ==
  ASSUME NEW store \in Store, NEW deltas \in Batch
  PROVE  NotBack(store, ApplyDeltas(store, deltas))
<1> SUFFICES ASSUME NEW s \in Keys(store)
             PROVE  /\ s \in Keys(ApplyDeltas(store, deltas))
                    /\ store[s].sequence <= ApplyDeltas(store, deltas)[s].sequence
  BY DEF NotBack
<1>1. CASE deltas[s] = None
  BY <1>1, ApplyDeltasType, EntrySequence DEF Keys
<1>2. CASE deltas[s] # None
  <2>1. deltas[s] \in QuoteDelta /\ s \in Symbols
    BY <1>2 DEF Batch, Optional, Keys
  <2>2. ApplyDeltas(store, deltas)[s] = ApplyDelta(store[s], deltas[s])
    BY <1>2, <2>1, ApplyDeltasType, EntrySequence
  <2>3. /\ ApplyDelta(store[s], deltas[s]) \in QuoteSnapshot
        /\ store[s].sequence <= ApplyDelta(store[s], deltas[s]).sequence
    BY <2>1, ApplyDeltaType, EntrySequence
  <2>4. QED
    BY <2>1, <2>2, <2>3, NoneAssumption DEF Keys
<1>3. QED
  BY <1>1, <1>2

LEMMA ApplySnapshotsNotBack ==
  ASSUME NEW store \in Store, NEW rows \in Store,
         \A s \in Symbols : rows[s] # None => rows[s].sequence = 0
  PROVE  NotBack(store, ApplySnapshots(store, rows))
<1> SUFFICES ASSUME NEW s \in Keys(store)
             PROVE  /\ s \in Keys(ApplySnapshots(store, rows))
                    /\ store[s].sequence <= ApplySnapshots(store, rows)[s].sequence
  BY DEF NotBack
<1>1. CASE rows[s] = None
  BY <1>1, ApplySnapshotsType, EntrySequence DEF Keys
<1>2. CASE rows[s] # None
  <2>1. rows[s] \in QuoteSnapshot /\ s \in Symbols
    BY <1>2 DEF Store, Optional, Keys
  <2>2. ApplySnapshots(store, rows)[s] = ApplySnapshot(store[s], rows[s])
    BY <1>2, <2>1, ApplySnapshotsType, EntrySequence
  <2>3. /\ ApplySnapshot(store[s], rows[s]) \in QuoteSnapshot
        /\ ApplySnapshot(store[s], rows[s]).sequence = store[s].sequence
    BY <1>2, <2>1, ApplySnapshotType, EntrySequence
  <2>4. QED
    BY <2>1, <2>2, <2>3, EntrySequence, NoneAssumption DEF Keys
<1>3. QED
  BY <1>1, <1>2

\* Every step, but for the removal of a symbol, leaves the watermarks.
LEMMA StepNotBack ==
  ASSUME TypeOK, PullsHaveNoSequence, [Next]_vars, watchlist \subseteq watchlist'
  PROVE  NotBack(snapshots, snapshots')
<1>0. snapshots \in Store
  BY DEF TypeOK, Store
<1>1. CASE snapshots' = snapshots
  BY <1>0, <1>1, EntrySequence DEF NotBack
<1>2. CASE ProcessQuoteDeltas
  <2>1. PICK base \in Store :
          /\ base = IF dropped > 0 THEN MarkAllStale(snapshots) ELSE snapshots
          /\ ApplyDeltas(base, pending) \in Store
          /\ snapshots' = Redraw(ApplyDeltas(base, pending))
    BY <1>2, DrainedStoreType
  <2>2. NotBack(snapshots, base)
    BY <1>0, <2>1, MarkStaleNotBack, EntrySequence DEF MarkAllStale, NotBack
  <2>3. NotBack(base, ApplyDeltas(base, pending))
    BY <2>1, ApplyDeltasNotBack DEF TypeOK, Batch
  <2>4. NotBack(ApplyDeltas(base, pending), snapshots')
    BY <2>1, RedrawNotBack
  <2>5. NotBack(snapshots, ApplyDeltas(base, pending))
    BY <1>0, <2>1, <2>2, <2>3, NotBackTransitive
  <2>6. QED
    BY <1>0, <1>2, <2>1, <2>4, <2>5, DrainedStoreType, NotBackTransitive
<1>3. CASE ApplyPull
  <2>0. \A s \in Symbols : StampedRows[s] # None => StampedRows[s].sequence = 0
    <3>1. \A s \in Symbols : reply[s] # None => reply[s].sequence = 0
      BY DEF PullsHaveNoSequence
    <3>2. \A s \in Symbols : StampedRows[s] # None => reply[s] # None
      BY StampedRowsType
    <3>3. \A s \in Symbols : reply[s] # None => StampedRows[s].sequence = reply[s].sequence
      BY StampedRowsType
    <3>4. QED
      BY <3>1, <3>2, <3>3
  <2>1. NotBack(snapshots, ApplySnapshots(snapshots, StampedRows))
    BY <1>0, <2>0, StampedRowsType, ApplySnapshotsNotBack
  <2>2. NotBack(ApplySnapshots(snapshots, StampedRows), snapshots')
    BY <1>3, PulledStoreType, RedrawNotBack
  <2>3. QED
    BY <1>0, <1>3, <2>1, <2>2, PulledStoreType, NotBackTransitive
<1>4. CASE snapshots' = Redraw(MarkAllStale(snapshots))
  <2>1. MarkAllStale(snapshots) \in Store /\ NotBack(snapshots, MarkAllStale(snapshots))
    BY <1>0, MarkAllStaleType, MarkStaleNotBack DEF MarkAllStale
  <2>2. Redraw(MarkAllStale(snapshots)) \in Store
    BY <2>1, RedrawType
  <2>3. QED
    BY <1>0, <1>4, <2>1, <2>2, RedrawNotBack, NotBackTransitive
<1>5. CASE SweepStale
  BY <1>0, <1>5, MarkStaleNotBack DEF SweepStale, MarkStaleOlderThan
<1>6. ASSUME NEW s \in Symbols, HandleAddSymbol(s)
      PROVE  NotBack(snapshots, snapshots')
  BY <1>0, <1>6, SetWatchlistType, EntrySequence DEF HandleAddSymbol, NotBack, Keys
<1>7. ASSUME NEW s \in Symbols, HandleRemoveSymbol(s)
      PROVE  FALSE
  BY <1>7 DEF HandleRemoveSymbol
<1>8. CASE Exchange
  BY <1>1, <1>8 DEF Exchange, Publish, FirstPush, AnswerPull, LoseLink
<1>9. CASE WebSocketTask
  BY <1>1, <1>9 DEF WebSocketTask, ReceivePush, ReceiveReply, DropLateReply
<1>10. CASE EnsureQuoteStream \/ StartRefresh \/ SkipPull \/ SendPull
  BY <1>1, <1>10 DEF EnsureQuoteStream, StartRefresh, SkipPull, SendPull
<1>11. CASE PullFails
  BY <1>4, <1>11 DEF PullFails
<1>12. CASE HandleQuoteStreamState
  BY <1>1, <1>4, <1>12 DEF HandleQuoteStreamState
<1>13. CASE Tick \/ UNCHANGED vars
  BY <1>1, <1>13 DEF Tick, vars
<1>14. QED
  BY <1>2, <1>3, <1>5, <1>6, <1>7, <1>8, <1>9, <1>10, <1>11, <1>12, <1>13 DEF Next, Main

LEMMA PullsInit == Init => PullsHaveNoSequence
BY DEF Init, PullsHaveNoSequence, EmptyMap

LEMMA PullsStep ==
  ASSUME TypeOK, PullsHaveNoSequence, [Next]_vars
  PROVE  PullsHaveNoSequence'
<1> DEFINE Bare(m) == m.type # "push" =>
                        \A s \in Symbols : m.rows[s] # None => m.rows[s].sequence = 0
           BareReply == \A s \in Symbols : reply[s] # None => reply[s].sequence = 0
<1>1. (\A i \in 1..Len(wire) : Bare(wire[i])) /\ BareReply
  BY DEF PullsHaveNoSequence
<1>2. wire \in Seq(Message) /\ Len(wire) \in Nat /\ \A i \in 1..Len(wire) : wire[i] \in Message
  BY LenProperties, ElementOfSeq DEF TypeOK
<1>3. SUFFICES (\A i \in 1..Len(wire') : Bare(wire'[i])) /\ BareReply'
  BY DEF PullsHaveNoSequence
<1>4. ASSUME NEW m \in Message, Bare(m), wire' = Append(wire, m)
      PROVE  \A i \in 1..Len(wire') : Bare(wire'[i])
  <2> HIDE DEF Bare
  <2> QED
    BY <1>1, <1>2, <1>4, AppendProperties
<1>5. ASSUME NEW i \in Arriving, wire' = RemoveAt(wire, i)
      PROVE  \A j \in 1..Len(wire') : Bare(wire'[j])
  <2>1. \A j \in 1..Len(wire') : \E k \in 1..Len(wire) : wire'[j] = wire[k]
    BY <1>2, <1>5, ArrivingType, RemoveAtType
  <2> HIDE DEF Bare
  <2> QED
    BY <1>1, <2>1
<1>6. CASE UNCHANGED <<wire, reply>>
  BY <1>1, <1>6
<1>7. CASE wire' = <<>> /\ UNCHANGED reply
  BY <1>1, <1>7
<1>8. ASSUME NEW s \in Symbols, NEW F \in (SUBSET Fields) \ {{}}, Publish(s, F)
      PROVE  (\A i \in 1..Len(wire') : Bare(wire'[i])) /\ BareReply'
  <2>1. CASE wire' = wire
    BY <1>6, <1>8, <2>1 DEF Publish
  <2>2. CASE \E kind \in Kinds :
               wire' = Append(wire, Push(s, Len(log[s]) + 1,
                         [f \in Fields |-> IF f \in F THEN Len(log[s]) + 1 ELSE None], kind))
    <3>1. /\ Len(log[s]) + 1 \in Nat
          /\ [f \in Fields |-> IF f \in F THEN Len(log[s]) + 1 ELSE None]
               \in [Fields -> Optional(Nat)]
      BY CurrentQuoteType DEF Optional
    <3>2. PICK m \in Message : m.type = "push" /\ wire' = Append(wire, m)
      BY <2>2, <3>1, PushType DEF Push
    <3>3. QED
      BY <1>1, <1>4, <1>8, <3>2 DEF Publish
  <2>3. QED
    BY <1>8, <2>1, <2>2 DEF Publish
<1>9. ASSUME NEW s \in Symbols, FirstPush(s)
      PROVE  (\A i \in 1..Len(wire') : Bare(wire'[i])) /\ BareReply'
  <2>1. CurrentQuote(s) \in [Fields -> Optional(Nat)] /\ Len(log[s]) \in Nat
    BY CurrentQuoteType DEF Quote, Optional
  <2>2. PICK m \in Message : m.type = "push" /\ wire' = Append(wire, m)
    BY <1>9, <2>1, PushType DEF FirstPush, Push
  <2>3. QED
    BY <1>1, <1>4, <1>9, <2>2 DEF FirstPush
<1>10. ASSUME NEW rows \in (SUBSET watchlist) \ {{}}, AnswerPull(rows)
       PROVE  (\A i \in 1..Len(wire') : Bare(wire'[i])) /\ BareReply'
  <2> DEFINE answer == [type |-> "reply",
                        rows |-> [s \in Symbols |-> IF s \in rows THEN PulledRow(s) ELSE None]]
  <2>1. answer \in Message /\ Bare(answer)
    BY PulledRowType DEF Message, Optional
  <2>2. wire' = Append(wire, answer) /\ UNCHANGED reply
    BY <1>10 DEF AnswerPull
  <2> HIDE DEF answer
  <2>3. QED
    BY <1>1, <1>4, <2>1, <2>2
<1>11. CASE WebSocketTask
  <2> SUFFICES ASSUME NEW i \in Arriving,
                      ReceivePush(i) \/ ReceiveReply(i) \/ DropLateReply(i)
               PROVE  (\A j \in 1..Len(wire') : Bare(wire'[j])) /\ BareReply'
    BY <1>11 DEF WebSocketTask
  <2>1. \A j \in 1..Len(wire') : Bare(wire'[j])
    BY <1>5 DEF ReceivePush, ReceiveReply, DropLateReply
  <2>2. Bare(wire[i])
    BY <1>1, ArrivingType
  <2>3. BareReply'
    BY <1>1, <2>2 DEF ReceivePush, ReceiveReply, DropLateReply
  <2>4. QED
    BY <2>1, <2>3
<1>12. CASE PullFails
  <2>1. wire' = [i \in 1..Len(wire) |->
                  IF wire[i].type = "reply" THEN [wire[i] EXCEPT !.type = "late"] ELSE wire[i]]
    BY <1>12 DEF PullFails
  <2>2. Len(wire') = Len(wire)
    BY <1>2, <2>1
  <2>3. \A m \in Message : Bare(m) /\ m.type = "reply" => Bare([m EXCEPT !.type = "late"])
    BY DEF Message
  <2>4. BareReply'
    BY <1>12 DEF PullFails, EmptyMap
  <2> HIDE DEF Bare
  <2>5. \A i \in 1..Len(wire') : Bare(wire'[i])
    BY <1>1, <1>2, <2>1, <2>2, <2>3
  <2>6. QED
    BY <2>4, <2>5
<1>13. CASE ApplyPull
  BY <1>1, <1>13 DEF ApplyPull, EmptyMap
<1>14. CASE LoseLink
  BY <1>7, <1>14 DEF LoseLink
<1>15. CASE EnsureQuoteStream
  BY <1>6, <1>7, <1>15 DEF EnsureQuoteStream, Subscribe, SubscribeFails
<1>16. CASE \E s \in Symbols : HandleAddSymbol(s) \/ HandleRemoveSymbol(s)
  BY <1>6, <1>7, <1>16 DEF HandleAddSymbol, HandleRemoveSymbol
<1>17. CASE ProcessQuoteDeltas \/ StartRefresh \/ SkipPull \/ SendPull
            \/ HandleQuoteStreamState \/ SweepStale \/ Tick
  BY <1>6, <1>17 DEF ProcessQuoteDeltas, StartRefresh, SkipPull, SendPull,
                     HandleQuoteStreamState, SweepStale, Tick
<1>18. CASE UNCHANGED vars
  BY <1>6, <1>18 DEF vars
<1>19. QED
  BY <1>8, <1>9, <1>10, <1>11, <1>12, <1>13, <1>14, <1>15, <1>16, <1>17, <1>18
  DEF Next, Exchange, Main

\* A sparse push, a merged push, a snapshot (which has no sequence) or staleness
\* never lowers the watermark of a row: apply_snapshot keeps it, and apply_delta
\* rejects what is older.
THEOREM WatermarkNeverGoesBack == Spec => WatermarkMonotone
<1>1. Init => TypeOK /\ PullsHaveNoSequence
  BY InitType, PullsInit
<1>2. TypeOK /\ PullsHaveNoSequence /\ [Next]_vars => TypeOK' /\ PullsHaveNoSequence'
  BY StepType, PullsStep
<1>3. TypeOK /\ PullsHaveNoSequence /\ [Next]_vars
        => [watchlist \subseteq watchlist' =>
              \A s \in Keys(snapshots) :
                /\ s \in Keys(snapshots')
                /\ snapshots[s].sequence <= snapshots'[s].sequence]_vars
  BY StepNotBack DEF NotBack, Keys
<1>4. QED
  BY <1>1, <1>2, <1>3, PTL DEF Spec, WatermarkMonotone

-------------------------------------------------------------------------------
(* Dropped pushes *)

\* The row of s is live in a store.
LiveIn(store, s) == store[s] # None /\ ~store[s].stale

\* Marking stale and redrawing make no row live.
LEMMA NoNewLiveRow ==
  ASSUME NEW store \in Store, NEW symbols, NEW s \in Symbols
  PROVE  /\ LiveIn(MarkStale(store, symbols), s) => LiveIn(store, s) /\ s \notin symbols
         /\ LiveIn(Redraw(store), s) => LiveIn(store, s)
<1>1. CASE store[s] = None
  BY <1>1, MarkStaleType, SetWatchlistType DEF LiveIn, Redraw
<1>2. CASE store[s] # None
  <2>1. s \in Keys(store)
    BY <1>2 DEF Keys
  <2>2. /\ Redraw(store)[s] = store[s]
        /\ store[s].stale => MarkStale(store, symbols)[s].stale
        /\ s \in symbols => MarkStale(store, symbols)[s].stale
    BY <2>1, SetWatchlistType, MarkStaleType DEF Redraw
  <2>3. QED
    BY <1>2, <2>2 DEF LiveIn
<1>3. QED
  BY <1>1, <1>2

\* Marking an entry stale does not change which deltas it rejects.
LEMMA RejectsWhenStale ==
  ASSUME NEW store \in Store, NEW symbols, NEW s \in Symbols, NEW delta
  PROVE  Rejects(Entry(MarkStale(store, symbols), s), delta) <=> Rejects(Entry(store, s), delta)
<1>1. CASE s \in Keys(store)
  <2>1. /\ MarkStale(store, symbols)[s] \in QuoteSnapshot
        /\ MarkStale(store, symbols)[s].timestamp_ms = store[s].timestamp_ms
        /\ MarkStale(store, symbols)[s].sequence = store[s].sequence
    BY <1>1, MarkStaleType
  <2>2. /\ Entry(MarkStale(store, symbols), s) = MarkStale(store, symbols)[s]
        /\ Entry(store, s) = store[s]
    BY <1>1, <2>1, NoneAssumption DEF Entry, Keys
  <2>3. QED
    BY <2>1, <2>2 DEF Rejects
<1>2. CASE s \notin Keys(store)
  BY <1>2, MarkStaleType DEF Keys, Entry
<1>3. QED
  BY <1>1, <1>2

\* A delta that a row takes leaves it live only if the row was, or took it.
LEMMA DrainedRow ==
  ASSUME TypeOK, ProcessQuoteDeltas, OverflowMarksStale, NEW s \in overflowed'
  PROVE  ~LiveIn(snapshots', s)
<1> DEFINE base == IF dropped > 0 THEN MarkAllStale(snapshots) ELSE snapshots
<1>0. snapshots \in Store /\ pending \in Batch
  BY DEF TypeOK, Store, Batch
<1>1. s \in overflowed /\ s \in Symbols
  BY DEF ProcessQuoteDeltas, TypeOK
<1>2. /\ base \in Store
      /\ ApplyDeltas(base, pending) \in Store
      /\ snapshots' = Redraw(ApplyDeltas(base, pending))
  BY <1>0, MarkAllStaleType, ApplyDeltasType DEF ProcessQuoteDeltas
<1>3. ~LiveIn(base, s)
  <2>1. CASE dropped > 0
    BY <1>0, <1>1, <2>1, NoNewLiveRow DEF MarkAllStale
  <2>2. CASE ~(dropped > 0)
    BY <1>1, <2>2 DEF OverflowMarksStale, LiveIn, Live, TypeOK
  <2>3. QED
    BY <2>1, <2>2
<1>4. ~LiveIn(ApplyDeltas(base, pending), s)
  <2>1. CASE pending[s] = None
    BY <1>0, <1>1, <1>2, <1>3, <2>1, ApplyDeltasType DEF LiveIn
  <2>2. CASE pending[s] # None
    <3>1. pending[s] \in QuoteDelta
      BY <1>0, <1>1, <2>2 DEF Batch, Optional
    <3>2. Rejects(Entry(snapshots, s), pending[s])
      BY <1>1, <2>2 DEF ProcessQuoteDeltas, Keys
    <3>3. Rejects(Entry(base, s), pending[s])
      BY <1>0, <1>1, <3>2, RejectsWhenStale DEF MarkAllStale
    <3>4. ApplyDeltas(base, pending)[s] = Entry(base, s)
      BY <1>0, <1>1, <1>2, <2>2, <3>1, <3>3, ApplyDeltasType, ApplyDeltaType, EntryType
    <3>5. base[s] # None
      BY <3>1, <3>3 DEF Entry, Rejects, DefaultSnapshot, QuoteDelta, Optional
    <3>6. QED
      BY <1>3, <3>4, <3>5 DEF Entry, LiveIn
  <2>3. QED
    BY <2>1, <2>2
<1> HIDE DEF base
<1>5. QED
  BY <1>1, <1>2, <1>4, NoNewLiveRow

LEMMA OverflowStep ==
  ASSUME TypeOK, OverflowMarksStale, [Next]_vars
  PROVE  OverflowMarksStale'
<1> SUFFICES ASSUME dropped' = 0, NEW s \in overflowed'
             PROVE  ~LiveIn(snapshots', s)
  BY DEF OverflowMarksStale, LiveIn, Live
<1>0. snapshots \in Store
  BY DEF TypeOK, Store
<1>1. CASE ProcessQuoteDeltas
  BY <1>1, DrainedRow
<1>2. ASSUME dropped' = dropped, overflowed' = overflowed
      PROVE  s \in Symbols /\ ~LiveIn(snapshots, s)
  BY <1>2 DEF OverflowMarksStale, LiveIn, Live, TypeOK
<1>3. CASE UNCHANGED <<dropped, overflowed, snapshots>>
  BY <1>2, <1>3
<1>4. ASSUME NEW store \in Store, store = MarkAllStale(snapshots), snapshots' = Redraw(store),
             UNCHANGED <<dropped, overflowed>>
      PROVE  ~LiveIn(snapshots', s)
  BY <1>0, <1>2, <1>4, NoNewLiveRow DEF MarkAllStale
<1>5. CASE ApplyPull
  <2> DEFINE pulled == ApplySnapshots(snapshots, StampedRows)
  <2>1. s \in overflowed /\ s \in Symbols /\ StampedRows[s] = None /\ dropped = 0
    BY <1>5, StampedRowsType DEF ApplyPull, Keys, TypeOK
  <2>2. pulled \in Store /\ pulled[s] = snapshots[s] /\ snapshots' = Redraw(pulled)
    BY <1>0, <1>5, <2>1, PulledStoreType, StampedRowsType, ApplySnapshotsType
  <2> HIDE DEF pulled
  <2>3. ~LiveIn(pulled, s)
    BY <2>1, <2>2 DEF OverflowMarksStale, LiveIn, Live
  <2>4. QED
    BY <2>1, <2>2, <2>3, NoNewLiveRow
<1>6. CASE PullFails
  BY <1>0, <1>4, <1>6, MarkAllStaleType DEF PullFails, queueVars
<1>7. CASE HandleQuoteStreamState
  BY <1>0, <1>3, <1>4, <1>7, MarkAllStaleType DEF HandleQuoteStreamState, queueVars
<1>8. CASE SweepStale
  BY <1>0, <1>2, <1>8, NoNewLiveRow DEF SweepStale, MarkStaleOlderThan, queueVars
<1>9. ASSUME NEW t \in Symbols, HandleAddSymbol(t)
      PROVE  ~LiveIn(snapshots', s)
  <2>1. /\ s \in Symbols /\ ~LiveIn(snapshots, s)
        /\ snapshots' = SetWatchlist(snapshots, watchlist')
    BY <1>2, <1>9 DEF HandleAddSymbol, queueVars
  <2>2. CASE snapshots[s] = None
    BY <1>0, <2>1, <2>2, SetWatchlistType DEF LiveIn
  <2>3. CASE snapshots[s] # None
    BY <1>0, <2>1, <2>3, SetWatchlistType DEF LiveIn, Keys
  <2>4. QED
    BY <2>2, <2>3
<1>10. ASSUME NEW t \in Symbols, HandleRemoveSymbol(t)
       PROVE  ~LiveIn(snapshots', s)
  <2>1. s \in Symbols /\ snapshots' = SetWatchlist(EmptyMap, watchlist')
    BY <1>2, <1>10 DEF HandleRemoveSymbol, queueVars
  <2>2. QED
    BY <2>1, EmptyMapType, SetWatchlistType DEF LiveIn, EmptyMap
<1>11. CASE WebSocketTask
  <2>1. PICK i \in Arriving : ReceivePush(i) \/ ReceiveReply(i) \/ DropLateReply(i)
    BY <1>11 DEF WebSocketTask
  <2>2. CASE ReceiveReply(i) \/ DropLateReply(i)
    BY <1>3, <2>2 DEF ReceiveReply, DropLateReply, queueVars
  <2>3. CASE ReceivePush(i)
    <3>1. dropped' = dropped \/ dropped' = dropped + 1
      BY <2>3 DEF ReceivePush, QueueQuoteDelta, queueVars
    <3>2. CASE dropped' = dropped + 1
      BY <3>2 DEF TypeOK
    <3>3. CASE dropped' = dropped
      <4>1. dropped' # dropped + 1
        BY <3>3 DEF TypeOK
      <4>2. UNCHANGED <<dropped, overflowed, snapshots>>
        BY <2>3, <4>1 DEF ReceivePush, QueueQuoteDelta, queueVars
      <4>3. QED
        BY <1>3, <4>2
    <3>4. QED
      BY <3>1, <3>2, <3>3
  <2>4. QED
    BY <2>1, <2>2, <2>3
<1>12. CASE Exchange
  BY <1>3, <1>12 DEF Exchange, Publish, FirstPush, AnswerPull, LoseLink, queueVars
<1>13. CASE StartRefresh \/ SkipPull \/ SendPull \/ EnsureQuoteStream \/ Tick
  BY <1>3, <1>13 DEF StartRefresh, SkipPull, SendPull, EnsureQuoteStream, Tick, queueVars
<1>14. CASE UNCHANGED vars
  BY <1>3, <1>14 DEF vars, queueVars
<1>15. QED
  BY <1>1, <1>5, <1>6, <1>7, <1>8, <1>9, <1>10, <1>11, <1>12, <1>13, <1>14 DEF Next, Main

\* A row whose push was dropped because the pending map was full is not shown as
\* live from the next drain until it has been updated again.
THEOREM OverflowNeverLooksLive == Spec => []OverflowMarksStale
<1>1. Init => TypeOK /\ OverflowMarksStale
  BY InitType DEF Init, OverflowMarksStale
<1>2. TypeOK /\ OverflowMarksStale /\ [Next]_vars => TypeOK' /\ OverflowMarksStale'
  BY StepType, OverflowStep
<1>3. QED
  BY <1>1, <1>2, PTL DEF Spec


-------------------------------------------------------------------------------
(***************************************************************************)
(* The quote pipeline shows only quotes the exchange had, one after the    *)
(* other, as long as the connection is kept, delivers in order and carries *)
(* sequences, and the user adds nothing to a list that is subscribed: the  *)
(* pipeline then implements QuoteTicker, for every number of symbols,      *)
(* fields, changes and messages in transit, and however pulls fail.        *)
(*                                                                         *)
(* The first part is about one symbol and has no variables: the log l of   *)
(* its quotes, its row, what is pending for it, and the wire w.            *)
(***************************************************************************)

\* The quote at moment m of the log; nothing is shown before the first.
Was(l, m) == IF m = 0 THEN [f \in Fields |-> None] ELSE l[m]

\* The delta d brings what its symbol had at the moment d.sequence.
Carries(l, d) ==
  /\ d.sequence \in 1..Len(l) /\ d.timestamp_ms = d.sequence
  /\ \A f \in Fields :
       d.value[f] = None \/ (f \in PushFields /\ d.value[f] = l[d.sequence][f])

\* The pushed fields that d leaves out are the same at the moment m as at that of d.
Spans(l, d, m) ==
  \A f \in PushFields : d.value[f] = None => Was(l, m)[f] = l[d.sequence][f]

\* The value of a row that shows the moment m: what only pushes bring may be
\* missing, what only pulls bring may be older.
ShowsAt(l, value, m) ==
  \A f \in Fields :
    \/ f \in PushFields /\ value[f] = Was(l, m)[f]
    \/ f \notin PullFields /\ value[f] = None
    \/ f \notin PushFields /\ (value[f] = None \/ \E k \in 1..m : value[f] = l[k][f])

\* No field of a row is lost, but for those that an applied pull leaves out, and
\* those that only pulls bring do not go back.
KeepsFields(old, new, pull) ==
  \A f \in Fields : old[f] # None =>
    \/ new[f] # None /\ (f \notin PushFields => old[f] <= new[f])
    \/ pull /\ f \notin PullFields /\ new[f] = None

\* A field of the log holds the number of its last change, so none goes back.
Numbered(l) ==
  \A n \in 1..Len(l) :
    /\ \A f \in Fields : l[n][f] \in 1..n
    /\ \A m \in 1..n : \A f \in Fields : l[m][f] <= l[n][f]

LogType == Seq(Quote)

LEMMA WasType ==
  ASSUME NEW l \in LogType, NEW m \in 0..Len(l)
  PROVE  Was(l, m) \in [Fields -> Optional(Nat)] /\ (m # 0 => Was(l, m) = l[m] /\ l[m] \in Quote)
<1>1. CASE m = 0
  BY <1>1 DEF Was, Optional
<1>2. CASE m # 0
  <2>1. Len(l) \in Nat
    BY DEF LogType
  <2>2. m \in 1..Len(l)
    BY <1>2, <2>1
  <2>3. l[m] \in Quote
    BY <2>2 DEF LogType
  <2> QED
    BY <1>2, <2>3 DEF Was, Quote, Optional
<1> QED
  BY <1>1, <1>2

\* A push of all that is pushed spans every moment.
LEMMA SpansWhole ==
  ASSUME NEW l \in LogType, NEW n \in 1..Len(l), NEW d,
         d.sequence = n, d.timestamp_ms = n, d.value = Only(PushFields, l[n])
  PROVE  Carries(l, d) /\ \A m : Spans(l, d, m)
<1>1. l[n] \in [Fields -> Nat]
  BY DEF LogType, Quote
<1>2. \A f \in Fields : l[n][f] # None
  BY <1>1, NoneAssumption
<1>3. \A f \in Fields : d.value[f] = IF f \in PushFields THEN l[n][f] ELSE None
  BY DEF Only
<1> QED
  BY <1>2, <1>3, PipelineAssumption DEF Carries, Spans

\* A push of what changed spans the last moment before it.
LEMMA SpansSparse ==
  ASSUME NEW l \in LogType, NEW n \in 2..Len(l), NEW F, NEW d,
         d.sequence = n, d.timestamp_ms = n,
         d.value = Only(PushFields, [f \in Fields |-> IF f \in F THEN n ELSE None]),
         \A f \in Fields : l[n][f] = IF f \in F THEN n ELSE l[n - 1][f]
  PROVE  Carries(l, d) /\ Spans(l, d, n - 1) /\ Spans(l, d, n)
<1>1. Len(l) \in Nat /\ n \in 1..Len(l) /\ n - 1 # 0 /\ n # 0
  BY DEF LogType
<1>6. \A f \in Fields : d.value[f] = IF f \in PushFields /\ f \in F THEN n ELSE None
  BY DEF Only
<1>7. n # None
  BY <1>1, NoneAssumption
<1>8. PushFields \subseteq Fields
  BY PipelineAssumption
<1>2. \A f \in PushFields : f \in Fields /\ (d.value[f] = None => f \notin F)
  BY <1>6, <1>7, <1>8
<1>3. Was(l, n - 1) = l[n - 1] /\ Was(l, n) = l[n]
  BY <1>1 DEF Was
<1>4. Carries(l, d)
  BY <1>1, <1>6 DEF Carries
<1>5. Spans(l, d, n - 1) /\ Spans(l, d, n)
  BY <1>2, <1>3 DEF Spans
<1> QED
  BY <1>4, <1>5

\* The exchange's next quote changes nothing about what there was.
LEMMA LogGrows ==
  ASSUME NEW l \in LogType, NEW q \in Quote
  PROVE  LET l2 == Append(l, q)
         IN  /\ l2 \in LogType /\ Len(l2) = Len(l) + 1 /\ l2[Len(l) + 1] = q
             /\ \A m \in 0..Len(l) : Was(l2, m) = Was(l, m)
             /\ \A n \in 1..Len(l) : l2[n] = l[n]
             /\ \A d : Carries(l, d) => Carries(l2, d)
             /\ \A d : Carries(l, d) => \A m \in 0..Len(l) : Spans(l, d, m) => Spans(l2, d, m)
<1> DEFINE l2 == Append(l, q)
<1>1. l2 \in LogType /\ Len(l2) = Len(l) + 1 /\ l2[Len(l) + 1] = q /\ Len(l) \in Nat
      /\ \A n \in 1..Len(l) : l2[n] = l[n]
  BY DEF LogType
<1> HIDE DEF l2
<1>2. \A m \in 0..Len(l) : m # 0 => m \in 1..Len(l)
  BY <1>1
<1>3. \A m \in 0..Len(l) : Was(l2, m) = Was(l, m)
  BY <1>1, <1>2 DEF Was
<1>4. \A d : Carries(l, d) => Carries(l2, d) /\ l2[d.sequence] = l[d.sequence]
  BY <1>1 DEF Carries
<1>5. \A d : Carries(l, d) => \A m \in 0..Len(l) : Spans(l, d, m) => Spans(l2, d, m)
  BY <1>3, <1>4 DEF Spans
<1> QED
  BY <1>1, <1>3, <1>4, <1>5 DEF l2

\* merge_delta of two pushes that follow each other spans what the two span.
LEMMA SpansMerge ==
  ASSUME NEW l \in LogType, NEW d \in QuoteDelta, NEW e \in QuoteDelta, NEW r \in Nat,
         Carries(l, d), Carries(l, e), d.sequence < e.sequence, r <= d.sequence,
         \A m \in r..d.sequence : Spans(l, d, m),
         \A m \in d.sequence..e.sequence : Spans(l, e, m)
  PROVE  LET g == MergeDelta(d, e)
         IN  /\ Carries(l, g) /\ g.sequence = e.sequence
             /\ \A m \in r..e.sequence : Spans(l, g, m)
<1> DEFINE g == MergeDelta(d, e)
<1>1. /\ d.sequence \in Nat /\ e.sequence \in Nat /\ d.sequence # None /\ e.sequence # None
      /\ e.timestamp_ms = e.sequence /\ d.sequence # 0
      /\ d.sequence \in 1..Len(l)
  BY NoneAssumption DEF Carries
<1>2. ~UpdateIsOlder(d, e)
  BY <1>1 DEF UpdateIsOlder
<1>3. /\ g.sequence = e.sequence /\ g.timestamp_ms = e.sequence
      /\ \A f \in Fields : g.value[f] = IF e.value[f] = None THEN d.value[f] ELSE e.value[f]
  BY <1>1, <1>2 DEF MergeDelta, Overlay
<1> HIDE DEF g
<1>4. Spans(l, e, d.sequence)
  BY <1>1
<1>8. PushFields \subseteq Fields
  BY PipelineAssumption
<1>5. \A f \in PushFields : e.value[f] = None => l[d.sequence][f] = l[e.sequence][f]
  BY <1>1, <1>4 DEF Spans, Was
<1>6. Carries(l, g)
  BY <1>3, <1>5 DEF Carries
<1>7. ASSUME NEW m \in r..e.sequence PROVE Spans(l, g, m)
  <2>1. CASE m <= d.sequence
    <3>1. Spans(l, d, m)
      BY <1>1, <1>7, <2>1
    <3> QED
      BY <1>3, <1>5, <1>8, <3>1 DEF Spans
  <2>2. CASE m > d.sequence
    <3>1. Spans(l, e, m)
      BY <1>1, <1>7, <2>2
    <3> QED
      BY <1>3, <1>8, <3>1 DEF Spans
  <2> QED
    BY <1>1, <1>7, <2>1, <2>2
<1> QED
  BY <1>3, <1>6, <1>7 DEF g

\* A delta that spans the moment a row shows takes the row to its own moment.
LEMMA SpansPatch ==
  ASSUME NEW l \in LogType, NEW row \in QuoteSnapshot, NEW d \in QuoteDelta, Carries(l, d),
         row.timestamp_ms \in 0..Len(l), ShowsAt(l, row.value, row.timestamp_ms),
         Spans(l, d, row.timestamp_ms), row.sequence < d.sequence,
         row.timestamp_ms <= d.sequence, NEW pull
  PROVE  /\ ApplyDelta(row, d) = Patch(row, d)
         /\ ShowsAt(l, Patch(row, d).value, d.sequence)
         /\ KeepsFields(row.value, Patch(row, d).value, pull)
         /\ Patch(row, d).timestamp_ms = d.sequence /\ Patch(row, d).sequence = d.sequence
         /\ ~Patch(row, d).stale
<1>1. /\ d.sequence \in 1..Len(l) /\ d.sequence # None /\ d.timestamp_ms = d.sequence
      /\ row.sequence \in Nat /\ d.sequence # 0
  BY NoneAssumption DEF Carries, QuoteSnapshot
<1>2. ~Rejects(row, d)
  BY <1>1 DEF Rejects
<1> DEFINE new == Patch(row, d)
<1>3. /\ ApplyDelta(row, d) = new /\ new.timestamp_ms = d.sequence
      /\ new.sequence = d.sequence /\ ~new.stale
      /\ \A f \in Fields : new.value[f] = IF d.value[f] = None THEN row.value[f] ELSE d.value[f]
  BY <1>1, <1>2 DEF ApplyDelta, Patch, Overlay
<1>4. \A f \in Fields : d.value[f] = None \/ (f \in PushFields /\ d.value[f] = l[d.sequence][f])
  BY DEF Carries
<1>5. /\ Was(l, d.sequence) = l[d.sequence]
      /\ \A k \in 1..row.timestamp_ms : k \in 1..d.sequence
  BY <1>1 DEF Was
<1>6. \A f \in Fields : row.value[f] # None => row.value[f] \in Nat
  BY DEF QuoteSnapshot, Optional
<1> HIDE DEF new
<1>7. ASSUME NEW f \in Fields
      PROVE  \/ f \in PushFields /\ new.value[f] = Was(l, d.sequence)[f]
             \/ f \notin PullFields /\ new.value[f] = None
             \/ /\ f \notin PushFields
                /\ new.value[f] = None \/ \E k \in 1..d.sequence : new.value[f] = l[k][f]
  <2>1. CASE d.value[f] # None
    BY <1>3, <1>4, <1>5, <2>1
  <2>2. CASE d.value[f] = None
    <3>1. new.value[f] = row.value[f]
      BY <1>3, <2>2
    <3>2. f \in PushFields => Was(l, row.timestamp_ms)[f] = l[d.sequence][f]
      BY <2>2 DEF Spans
    <3> QED
      BY <1>5, <3>1, <3>2 DEF ShowsAt
  <2> QED
    BY <2>1, <2>2
<1>8. ShowsAt(l, new.value, d.sequence)
  BY <1>7 DEF ShowsAt
<1>9. KeepsFields(row.value, new.value, pull)
  BY <1>3, <1>4, <1>6 DEF KeepsFields
<1> QED
  BY <1>3, <1>8, <1>9 DEF new

-------------------------------------------------------------------------------
(* The messages in transit for one symbol *)

IsPush(w, s, i) == w[i].type = "push" /\ w[i].symbol = s
Seqn(w, i)      == w[i].delta.sequence

\* The moment of the last push that left the wire, 0 if none has.
HeardOf(row, pend) == IF pend = None THEN row.sequence ELSE pend.sequence

\* The row shows a moment of the log, no older than that of its last push.
RowInStep(l, row) ==
  /\ row.timestamp_ms \in 0..Len(l)
  /\ ShowsAt(l, row.value, row.timestamp_ms)
  /\ row.sequence <= row.timestamp_ms

\* What is pending takes the row on from whatever it may show until then.
PendingInStep(l, row, pend) ==
  IF pend = None
  THEN row.sequence = 0 \/ row.sequence = row.timestamp_ms
  ELSE /\ Carries(l, pend)
       /\ row.timestamp_ms <= pend.sequence /\ row.sequence < pend.sequence
       /\ \A m \in row.timestamp_ms..pend.sequence : Spans(l, pend, m)

\* The moment m is one the row may show when the i-th message comes to it.
Reached(h, w, s, i, m) ==
  /\ h <= m
  /\ \A j \in 1..(i - 1) : IsPush(w, s, j) => Seqn(w, j) <= m

\* The pushes come in order, after the moment r of the row and the moment h that
\* was heard, and each spans what lies between it and the one before.
PushAt(l, r, h, w, s, i, d) ==
  /\ Carries(l, d)
  /\ h < d.sequence /\ r <= d.sequence
  /\ \A j \in 1..(i - 1) : IsPush(w, s, j) => Seqn(w, j) < d.sequence
  /\ \A m \in 0..d.sequence : Reached(h, w, s, i, m) => Spans(l, d, m)

WireInStep(l, r, h, w, s) ==
  \A i \in 1..Len(w) : IsPush(w, s, i) => PushAt(l, r, h, w, s, i, w[i].delta)

\* A subscriber has been sent every change; who is none has heard nothing.
NothingMissing(l, h, w, s, yes) ==
  IF yes
  THEN h = Len(l) \/ \E i \in 1..Len(w) : IsPush(w, s, i) /\ Seqn(w, i) = Len(l)
  ELSE h = 0 /\ \A i \in 1..Len(w) : ~IsPush(w, s, i)

\* A row of an answer at the place i of the wire, or of the answer received if i
\* is 0: the pushes before it have told what it tells, those after it tell more.
AnswerAt(l, r, h, w, s, i, row) ==
  /\ row.timestamp_ms \in 1..Len(l) /\ row.value = Only(PullFields, l[row.timestamp_ms])
  /\ row.sequence = 0 /\ r <= row.timestamp_ms
  /\ \A j \in (i + 1)..Len(w) : IsPush(w, s, j) => row.timestamp_ms <= Seqn(w, j)
  /\ \/ h = 0 /\ \A j \in 1..(i - 1) : ~IsPush(w, s, j)
     \/ row.timestamp_ms <= h
     \/ \E j \in 1..(i - 1) : IsPush(w, s, j) /\ row.timestamp_ms <= Seqn(w, j)

Answers(w, s, i) == w[i].type = "reply" /\ w[i].rows[s] # None

AnswersInStep(l, r, h, w, s) ==
  \A i \in 1..Len(w) : Answers(w, s, i) => AnswerAt(l, r, h, w, s, i, w[i].rows[s])

MessagesInStep(l, r, h, w, s, yes) ==
  /\ WireInStep(l, r, h, w, s)
  /\ NothingMissing(l, h, w, s, yes)
  /\ AnswersInStep(l, r, h, w, s)

\* Messages that are no business of s, and those that become late, change nothing.
LEMMA SameMessages ==
  ASSUME NEW l, NEW r, NEW h, NEW s, NEW yes, NEW w \in Seq(Message), NEW w2 \in Seq(Message),
         Len(w2) = Len(w),
         \A i \in 1..Len(w) : w2[i] = w[i] \/ (w[i].type = "reply" /\ w2[i].type = "late"),
         MessagesInStep(l, r, h, w, s, yes)
  PROVE  /\ MessagesInStep(l, r, h, w2, s, yes)
         /\ \A i \in 0..Len(w) : \A row :
              AnswerAt(l, r, h, w, s, i, row) => AnswerAt(l, r, h, w2, s, i, row)
<1>1. \A i \in 1..Len(w) :
        /\ IsPush(w2, s, i) <=> IsPush(w, s, i)
        /\ IsPush(w, s, i) => Seqn(w2, i) = Seqn(w, i) /\ w2[i] = w[i]
        /\ Answers(w2, s, i) => Answers(w, s, i) /\ w2[i] = w[i]
  BY DEF IsPush, Seqn, Answers
<1>2. Len(w) \in Nat /\ \A i \in 0..Len(w) : \A j \in 1..(i - 1) : j \in 1..Len(w)
  OBVIOUS
<1>3. WireInStep(l, r, h, w2, s)
  <2> SUFFICES ASSUME NEW i \in 1..Len(w), IsPush(w2, s, i) PROVE PushAt(l, r, h, w2, s, i, w2[i].delta)
    BY DEF WireInStep
  <2>1. PushAt(l, r, h, w, s, i, w[i].delta)
    BY <1>1 DEF MessagesInStep, WireInStep
  <2>2. \A m : Reached(h, w2, s, i, m) => Reached(h, w, s, i, m)
    BY <1>1, <1>2 DEF Reached
  <2>3. \A j \in 1..(i - 1) : IsPush(w2, s, j) => IsPush(w, s, j) /\ Seqn(w2, j) = Seqn(w, j)
    BY <1>1, <1>2
  <2> QED
    BY <1>1, <2>1, <2>2, <2>3 DEF PushAt
<1>4. NothingMissing(l, h, w2, s, yes)
  BY <1>1 DEF MessagesInStep, NothingMissing
<1>5. ASSUME NEW i \in 0..Len(w), NEW row, AnswerAt(l, r, h, w, s, i, row)
      PROVE  AnswerAt(l, r, h, w2, s, i, row)
  <2>1. \A j \in (i + 1)..Len(w) : j \in 1..Len(w)
    OBVIOUS
  <2>2. \A j \in (i + 1)..Len(w2) : IsPush(w2, s, j) => row.timestamp_ms <= Seqn(w2, j)
    BY <1>1, <1>5, <2>1 DEF AnswerAt
  <2>3. \A j \in 1..(i - 1) : /\ IsPush(w2, s, j) <=> IsPush(w, s, j)
                             /\ IsPush(w, s, j) => Seqn(w2, j) = Seqn(w, j)
    BY <1>1, <1>2
  <2>4. \/ h = 0 /\ \A j \in 1..(i - 1) : ~IsPush(w2, s, j)
        \/ row.timestamp_ms <= h
        \/ \E j \in 1..(i - 1) : IsPush(w2, s, j) /\ row.timestamp_ms <= Seqn(w2, j)
    BY <1>5, <2>3 DEF AnswerAt, IsPush
  <2> QED
    BY <1>5, <2>2, <2>4 DEF AnswerAt
<1>6. AnswersInStep(l, r, h, w2, s)
  BY <1>1, <1>5 DEF MessagesInStep, AnswersInStep
<1> QED
  BY <1>3, <1>4, <1>5, <1>6 DEF MessagesInStep

\* The same row, delta and messages are in step with a longer log.
LEMMA LogGrowsInStep ==
  ASSUME NEW l \in LogType, NEW q \in Quote, NEW r \in Nat, NEW h \in Nat, NEW s,
         NEW w \in Seq(Message)
  PROVE  LET l2 == Append(l, q)
         IN  /\ \A row : RowInStep(l, row) => RowInStep(l2, row)
             /\ \A row, pend : RowInStep(l, row) /\ PendingInStep(l, row, pend)
                                 => PendingInStep(l2, row, pend)
             /\ WireInStep(l, r, h, w, s) => WireInStep(l2, r, h, w, s)
             /\ AnswersInStep(l, r, h, w, s) => AnswersInStep(l2, r, h, w, s)
             /\ \A i, row : AnswerAt(l, r, h, w, s, i, row) => AnswerAt(l2, r, h, w, s, i, row)
<1> DEFINE l2 == Append(l, q)
<1>0. Len(l) \in Nat
  BY DEF LogType
<1>1. /\ Len(l2) = Len(l) + 1
      /\ \A m \in 0..Len(l) : Was(l2, m) = Was(l, m)
      /\ \A n \in 1..Len(l) : l2[n] = l[n]
      /\ \A d : Carries(l, d) => Carries(l2, d)
      /\ \A d : Carries(l, d) => \A m \in 0..Len(l) : Spans(l, d, m) => Spans(l2, d, m)
  BY LogGrows
<1> HIDE DEF l2
<1>2. ASSUME NEW row, RowInStep(l, row) PROVE RowInStep(l2, row)
  <2>1. \A k \in 1..row.timestamp_ms : l2[k] = l[k]
    BY <1>0, <1>1, <1>2 DEF RowInStep
  <2>2. ShowsAt(l2, row.value, row.timestamp_ms)
    BY <1>1, <1>2, <2>1 DEF RowInStep, ShowsAt
  <2> QED
    BY <1>0, <1>1, <1>2, <2>2 DEF RowInStep
<1>3. ASSUME NEW row, NEW pend, RowInStep(l, row), PendingInStep(l, row, pend)
      PROVE  PendingInStep(l2, row, pend)
  <2>1. CASE pend = None
    BY <1>3, <2>1 DEF PendingInStep
  <2>2. CASE pend # None
    <3>1. /\ Carries(l, pend) /\ row.timestamp_ms <= pend.sequence
          /\ row.sequence < pend.sequence
          /\ \A m \in row.timestamp_ms..pend.sequence : Spans(l, pend, m)
      BY <1>3, <2>2 DEF PendingInStep
    <3>2. \A m \in row.timestamp_ms..pend.sequence : m \in 0..Len(l)
      BY <1>0, <1>3, <3>1 DEF RowInStep, Carries
    <3> QED
      BY <1>1, <2>2, <3>1, <3>2 DEF PendingInStep
  <2> QED
    BY <2>1, <2>2
<1>4. ASSUME WireInStep(l, r, h, w, s), NEW i \in 1..Len(w), IsPush(w, s, i)
      PROVE  PushAt(l2, r, h, w, s, i, w[i].delta)
  <2>1. PushAt(l, r, h, w, s, i, w[i].delta)
    BY <1>4 DEF WireInStep
  <2>2. \A m \in 0..w[i].delta.sequence : m \in 0..Len(l)
    BY <1>0, <2>1 DEF PushAt, Carries
  <2> QED
    BY <1>1, <2>1, <2>2 DEF PushAt
<1>5. ASSUME NEW i, NEW row, AnswerAt(l, r, h, w, s, i, row)
      PROVE  AnswerAt(l2, r, h, w, s, i, row)
  <2>1. row.timestamp_ms \in 1..Len(l2) /\ row.value = Only(PullFields, l2[row.timestamp_ms])
    BY <1>0, <1>1, <1>5 DEF AnswerAt
  <2> QED
    BY <1>5, <2>1 DEF AnswerAt
<1> QED
  BY <1>2, <1>3, <1>4, <1>5 DEF WireInStep, AnswersInStep, l2

\* A message is sent: one that is no push of s, or the push of its last change.
LEMMA SentInStep ==
  ASSUME NEW l, NEW r, NEW h, NEW s, NEW w \in Seq(Message), NEW m \in Message,
         WireInStep(l, r, h, w, s), AnswersInStep(l, r, h, w, s),
         m.type = "push" /\ m.symbol = s =>
           m.delta.sequence = Len(l) /\ PushAt(l, r, h, w, s, Len(w) + 1, m.delta),
         m.type = "reply" /\ m.rows[s] # None => AnswerAt(l, r, h, w, s, Len(w) + 1, m.rows[s])
  PROVE  LET w2 == Append(w, m)
         IN  /\ WireInStep(l, r, h, w2, s) /\ AnswersInStep(l, r, h, w2, s)
             /\ \A i \in 0..Len(w) : \A row :
                  AnswerAt(l, r, h, w, s, i, row) => AnswerAt(l, r, h, w2, s, i, row)
<1> DEFINE w2 == Append(w, m)
<1>1. /\ Len(w) \in Nat /\ Len(w2) = Len(w) + 1 /\ w2[Len(w) + 1] = m
      /\ \A i \in 1..Len(w) : w2[i] = w[i]
  OBVIOUS
<1> HIDE DEF w2
<1>2. \A i \in 1..Len(w) : /\ IsPush(w2, s, i) <=> IsPush(w, s, i)
                           /\ Seqn(w2, i) = Seqn(w, i)
                           /\ Answers(w2, s, i) <=> Answers(w, s, i)
  BY <1>1 DEF IsPush, Seqn, Answers
<1>3. \A i \in 0..(Len(w) + 1) : \A j \in 1..(i - 1) : j \in 1..Len(w)
  BY <1>1
<1>4. ASSUME NEW i \in 1..(Len(w) + 1), NEW d, PushAt(l, r, h, w, s, i, d)
      PROVE  PushAt(l, r, h, w2, s, i, d)
  <2>1. \A j \in 1..(i - 1) : /\ IsPush(w2, s, j) <=> IsPush(w, s, j)
                              /\ Seqn(w2, j) = Seqn(w, j)
    BY <1>2, <1>3
  <2>2. \A k : Reached(h, w2, s, i, k) => Reached(h, w, s, i, k)
    BY <2>1 DEF Reached, IsPush
  <2>3. \A j \in 1..(i - 1) : IsPush(w2, s, j) => Seqn(w2, j) < d.sequence
    BY <1>4, <2>1 DEF PushAt, IsPush
  <2> QED
    BY <1>4, <2>2, <2>3 DEF PushAt
<1>5. ASSUME NEW i \in 0..(Len(w) + 1), NEW row, AnswerAt(l, r, h, w, s, i, row)
      PROVE  AnswerAt(l, r, h, w2, s, i, row)
  <2>1. \A j \in 1..(i - 1) : /\ IsPush(w2, s, j) <=> IsPush(w, s, j)
                              /\ Seqn(w2, j) = Seqn(w, j)
    BY <1>2, <1>3
  <2>2. \/ h = 0 /\ \A j \in 1..(i - 1) : ~IsPush(w2, s, j)
        \/ row.timestamp_ms <= h
        \/ \E j \in 1..(i - 1) : IsPush(w2, s, j) /\ row.timestamp_ms <= Seqn(w2, j)
    BY <1>5, <2>1 DEF AnswerAt, IsPush
  <2>3. ASSUME NEW j \in (i + 1)..Len(w2), IsPush(w2, s, j)
        PROVE  row.timestamp_ms <= Seqn(w2, j)
    <3>1. CASE j \in 1..Len(w)
      BY <1>1, <1>2, <1>5, <2>3, <3>1 DEF AnswerAt, IsPush
    <3>2. CASE j = Len(w) + 1
      <4>1. Seqn(w2, j) = Len(l)
        BY <1>1, <2>3, <3>2 DEF IsPush, Seqn
      <4> QED
        BY <1>5, <4>1 DEF AnswerAt
    <3> QED
      BY <1>1, <3>1, <3>2
  <2> QED
    BY <1>5, <2>2, <2>3 DEF AnswerAt
<1>6. ASSUME NEW i \in 1..Len(w2), IsPush(w2, s, i) PROVE PushAt(l, r, h, w2, s, i, w2[i].delta)
  <2>1. CASE i \in 1..Len(w)
    <3>1. PushAt(l, r, h, w, s, i, w[i].delta)
      BY <1>2, <1>6, <2>1 DEF WireInStep, IsPush
    <3> QED
      BY <1>1, <1>4, <2>1, <3>1
  <2>2. CASE i = Len(w) + 1
    BY <1>1, <1>4, <1>6, <2>2 DEF IsPush
  <2> QED
    BY <1>1, <2>1, <2>2
<1>7. ASSUME NEW i \in 1..Len(w2), Answers(w2, s, i)
      PROVE  AnswerAt(l, r, h, w2, s, i, w2[i].rows[s])
  <2>1. CASE i \in 1..Len(w)
    <3>1. AnswerAt(l, r, h, w, s, i, w[i].rows[s])
      BY <1>2, <1>7, <2>1 DEF AnswersInStep, Answers
    <3> QED
      BY <1>1, <1>5, <2>1, <3>1
  <2>2. CASE i = Len(w) + 1
    BY <1>1, <1>5, <1>7, <2>2 DEF Answers
  <2> QED
    BY <1>1, <2>1, <2>2
<1> QED
  BY <1>1, <1>5, <1>6, <1>7 DEF WireInStep, AnswersInStep, w2

\* The oldest message is received: a push of s is what s has heard since.
LEMMA ReceivedInStep ==
  ASSUME NEW l \in LogType, NEW r \in Nat, NEW h \in Nat, NEW s, NEW yes,
         NEW w \in Seq(Message), NEW w2 \in Seq(Message), NEW h2,
         Len(w) = Len(w2) + 1, \A i \in 1..Len(w2) : w2[i] = w[i + 1],
         h2 = IF IsPush(w, s, 1) THEN Seqn(w, 1) ELSE h,
         MessagesInStep(l, r, h, w, s, yes)
  PROVE  /\ MessagesInStep(l, r, h2, w2, s, yes)
         /\ \A row : AnswerAt(l, r, h, w, s, 0, row) => AnswerAt(l, r, h2, w2, s, 0, row)
         /\ \A i \in 1..Len(w) : \A row :
              ~IsPush(w, s, i) /\ AnswerAt(l, r, h, w, s, i, row)
                => AnswerAt(l, r, h2, w2, s, i - 1, row)
<1>1. Len(l) \in Nat /\ Len(w) \in Nat /\ Len(w2) \in Nat /\ 1 \in 1..Len(w)
  BY DEF LogType
<1>2. \A i \in 1..Len(w2) : /\ i + 1 \in 1..Len(w)
                            /\ IsPush(w2, s, i) <=> IsPush(w, s, i + 1)
                            /\ Seqn(w2, i) = Seqn(w, i + 1)
                            /\ Answers(w2, s, i) <=> Answers(w, s, i + 1)
  BY <1>1 DEF IsPush, Seqn, Answers
<1>3. ASSUME NEW i \in 1..Len(w), IsPush(w, s, i)
      PROVE  /\ Seqn(w, i) \in 1..Len(l) /\ h < Seqn(w, i)
             /\ i # 1 => h2 < Seqn(w, i) /\ h2 <= Len(l)
             /\ PushAt(l, r, h, w, s, i, w[i].delta)
  <2>1. PushAt(l, r, h, w, s, i, w[i].delta)
    BY <1>3 DEF MessagesInStep, WireInStep
  <2>2. Seqn(w, i) \in 1..Len(l) /\ h < Seqn(w, i)
    BY <2>1 DEF PushAt, Carries, Seqn
  <2>3. ASSUME i # 1 PROVE h2 < Seqn(w, i)
    <3>1. 1 \in 1..(i - 1)
      BY <2>3
    <3> QED
      BY <2>1, <2>2, <3>1 DEF PushAt, Seqn
  <2>4. ASSUME i # 1 PROVE h2 <= Len(l)
    <3>1. CASE IsPush(w, s, 1)
      <4>1. PushAt(l, r, h, w, s, 1, w[1].delta)
        BY <1>1, <3>1 DEF MessagesInStep, WireInStep
      <4> QED
        BY <1>1, <3>1, <4>1 DEF PushAt, Carries, Seqn
    <3>2. CASE ~IsPush(w, s, 1)
      BY <1>1, <2>2, <3>2
    <3> QED
      BY <3>1, <3>2
  <2> QED
    BY <2>1, <2>2, <2>3, <2>4
<1>4. h2 \in Nat /\ h <= h2
  BY <1>1, <1>3
<1>5. ASSUME NEW i \in 1..Len(w2), IsPush(w2, s, i) PROVE PushAt(l, r, h2, w2, s, i, w2[i].delta)
  <2>1. /\ i + 1 \in 1..Len(w) /\ i + 1 # 1 /\ IsPush(w, s, i + 1)
        /\ PushAt(l, r, h, w, s, i + 1, w[i + 1].delta)
    BY <1>2, <1>3, <1>5 DEF IsPush
  <2>2. h2 < w[i + 1].delta.sequence
    BY <1>3, <2>1 DEF Seqn
  <2>3. ASSUME NEW j \in 1..(i - 1), IsPush(w2, s, j)
        PROVE  Seqn(w2, j) < w[i + 1].delta.sequence
    <3>1. j \in 1..Len(w2) /\ j + 1 \in 1..((i + 1) - 1)
      BY <1>1
    <3>2. IsPush(w, s, j + 1) /\ Seqn(w2, j) = Seqn(w, j + 1)
      BY <1>2, <2>3, <3>1 DEF IsPush
    <3> QED
      BY <2>1, <3>1, <3>2 DEF PushAt
  <2>4. ASSUME NEW m \in 0..w[i + 1].delta.sequence, Reached(h2, w2, s, i, m)
        PROVE  Reached(h, w, s, i + 1, m)
    <3>1. w[i + 1].delta.sequence \in Nat
      BY <2>1 DEF PushAt, Carries
    <3>2. h <= m
      BY <1>4, <2>4, <3>1 DEF Reached
    <3>3. ASSUME NEW j \in 1..((i + 1) - 1), IsPush(w, s, j) PROVE Seqn(w, j) <= m
      <4>1. CASE j = 1
        BY <2>4, <3>3, <4>1 DEF Reached
      <4>2. CASE j # 1
        <5>1. j - 1 \in 1..(i - 1) /\ j - 1 \in 1..Len(w2) /\ (j - 1) + 1 = j
          BY <1>1, <4>2
        <5>2. IsPush(w2, s, j - 1) /\ Seqn(w2, j - 1) = Seqn(w, j)
          BY <1>2, <3>3, <5>1 DEF IsPush
        <5> QED
          BY <2>4, <5>1, <5>2 DEF Reached
      <4> QED
        BY <4>1, <4>2
    <3> QED
      BY <3>2, <3>3 DEF Reached
  <2>5. w2[i] = w[i + 1]
    OBVIOUS
  <2> QED
    BY <2>1, <2>2, <2>3, <2>4, <2>5 DEF PushAt
<1>6. ASSUME NEW row, AnswerAt(l, r, h, w, s, 0, row) PROVE AnswerAt(l, r, h2, w2, s, 0, row)
  <2>1. \A j \in 1..Len(w) : IsPush(w, s, j) => row.timestamp_ms <= Seqn(w, j)
    BY <1>6 DEF AnswerAt
  <2>2. \A j \in (0 + 1)..Len(w2) : IsPush(w2, s, j) => row.timestamp_ms <= Seqn(w2, j)
    BY <1>2, <2>1 DEF IsPush
  <2>3. /\ row.timestamp_ms \in 1..Len(l) /\ row.value = Only(PullFields, l[row.timestamp_ms])
        /\ row.sequence = 0 /\ r <= row.timestamp_ms
        /\ h = 0 \/ row.timestamp_ms <= h
    BY <1>6 DEF AnswerAt
  <2>4. h2 = 0 \/ row.timestamp_ms <= h2
    BY <1>1, <1>4, <2>1, <2>3
  <2> QED
    BY <2>2, <2>3, <2>4 DEF AnswerAt
<1>7. ASSUME NEW i \in 1..Len(w), NEW row, ~IsPush(w, s, i), AnswerAt(l, r, h, w, s, i, row)
      PROVE  AnswerAt(l, r, h2, w2, s, i - 1, row)
  <2>1. /\ row.timestamp_ms \in 1..Len(l) /\ row.value = Only(PullFields, l[row.timestamp_ms])
        /\ row.sequence = 0 /\ r <= row.timestamp_ms
    BY <1>7 DEF AnswerAt
  <2>2. ASSUME NEW j \in ((i - 1) + 1)..Len(w2), IsPush(w2, s, j)
        PROVE  row.timestamp_ms <= Seqn(w2, j)
    <3>1. j \in 1..Len(w2) /\ j + 1 \in (i + 1)..Len(w)
      BY <1>1
    <3>2. IsPush(w, s, j + 1) /\ Seqn(w2, j) = Seqn(w, j + 1)
      BY <1>2, <2>2, <3>1 DEF IsPush
    <3> QED
      BY <1>7, <3>1, <3>2 DEF AnswerAt
  <2>3. \/ h2 = 0 /\ \A j \in 1..((i - 1) - 1) : ~IsPush(w2, s, j)
        \/ row.timestamp_ms <= h2
        \/ \E j \in 1..((i - 1) - 1) : IsPush(w2, s, j) /\ row.timestamp_ms <= Seqn(w2, j)
    <3>1. CASE h = 0 /\ \A j \in 1..(i - 1) : ~IsPush(w, s, j)
      <4>1. CASE i = 1
        <5>1. \A j \in 1..((i - 1) - 1) : FALSE
          BY <4>1
        <5> QED
          BY <1>7, <3>1, <4>1, <5>1
      <4>2. CASE i # 1
        <5>1. ~IsPush(w, s, 1)
          BY <3>1, <4>2
        <5>2. \A j \in 1..((i - 1) - 1) : j \in 1..Len(w2) /\ j + 1 \in 1..(i - 1)
          BY <1>1
        <5> QED
          BY <1>2, <3>1, <5>1, <5>2 DEF IsPush
      <4> QED
        BY <4>1, <4>2
    <3>2. CASE row.timestamp_ms <= h
      BY <1>1, <1>4, <2>1, <3>2
    <3>3. ASSUME NEW j \in 1..(i - 1), IsPush(w, s, j), row.timestamp_ms <= Seqn(w, j)
          PROVE  \/ row.timestamp_ms <= h2
                 \/ \E k \in 1..((i - 1) - 1) : IsPush(w2, s, k) /\ row.timestamp_ms <= Seqn(w2, k)
      <4>1. CASE j = 1
        BY <3>3, <4>1
      <4>2. CASE j # 1
        <5>1. j - 1 \in 1..((i - 1) - 1) /\ j - 1 \in 1..Len(w2) /\ (j - 1) + 1 = j
          BY <1>1, <4>2
        <5>2. IsPush(w2, s, j - 1) /\ Seqn(w2, j - 1) = Seqn(w, j)
          BY <1>2, <3>3, <5>1 DEF IsPush
        <5> QED
          BY <3>3, <5>1, <5>2
      <4> QED
        BY <4>1, <4>2
    <3> QED
      BY <1>7, <3>1, <3>2, <3>3 DEF AnswerAt
  <2> QED
    BY <2>1, <2>2, <2>3 DEF AnswerAt
<1>8. ASSUME NEW i \in 1..Len(w2), Answers(w2, s, i)
      PROVE  AnswerAt(l, r, h2, w2, s, i, w2[i].rows[s])
  <2>1. i + 1 \in 1..Len(w) /\ Answers(w, s, i + 1) /\ (i + 1) - 1 = i /\ w2[i] = w[i + 1]
    BY <1>2, <1>8 DEF Answers
  <2>2. AnswerAt(l, r, h, w, s, i + 1, w[i + 1].rows[s])
    BY <2>1 DEF MessagesInStep, AnswersInStep
  <2> QED
    BY <1>7, <2>1, <2>2 DEF Answers, IsPush
<1>9. NothingMissing(l, h2, w2, s, yes)
  <2>1. CASE yes
    <3>1. CASE h = Len(l)
      BY <1>1, <1>3, <2>1, <3>1 DEF NothingMissing
    <3>2. ASSUME NEW i \in 1..Len(w), IsPush(w, s, i), Seqn(w, i) = Len(l)
          PROVE  NothingMissing(l, h2, w2, s, yes)
      <4>1. CASE i = 1
        BY <2>1, <3>2, <4>1 DEF NothingMissing
      <4>2. CASE i # 1
        <5>1. i - 1 \in 1..Len(w2) /\ (i - 1) + 1 = i
          BY <1>1, <4>2
        <5>2. IsPush(w2, s, i - 1) /\ Seqn(w2, i - 1) = Len(l)
          BY <1>2, <3>2, <5>1 DEF IsPush
        <5> QED
          BY <2>1, <5>1, <5>2 DEF NothingMissing
      <4> QED
        BY <4>1, <4>2
    <3> QED
      BY <2>1, <3>1, <3>2 DEF MessagesInStep, NothingMissing
  <2>2. CASE ~yes
    <3>1. h = 0 /\ \A i \in 1..Len(w) : ~IsPush(w, s, i)
      BY <2>2 DEF MessagesInStep, NothingMissing
    <3> QED
      BY <1>1, <1>2, <2>2, <3>1 DEF NothingMissing, IsPush
  <2> QED
    BY <2>1, <2>2
<1> QED
  BY <1>5, <1>6, <1>7, <1>8, <1>9 DEF MessagesInStep, WireInStep, AnswersInStep

\* The row moves on to a moment that no push in transit precedes.
LEMMA RowMovesInStep ==
  ASSUME NEW l, NEW r, NEW r2, NEW h, NEW s, NEW yes, NEW w \in Seq(Message),
         MessagesInStep(l, r, h, w, s, yes),
         \A i \in 1..Len(w) : ~Answers(w, s, i),
         \A i \in 1..Len(w) : IsPush(w, s, i) => r2 <= Seqn(w, i)
  PROVE  MessagesInStep(l, r2, h, w, s, yes)
BY DEF MessagesInStep, WireInStep, AnswersInStep, PushAt, Seqn

-------------------------------------------------------------------------------
(* The row and what is pending for it *)

\* All that is said of one symbol.
InStep(l, row, pend, w, s, yes) ==
  /\ RowInStep(l, row)
  /\ PendingInStep(l, row, pend)
  /\ MessagesInStep(l, row.timestamp_ms, HeardOf(row, pend), w, s, yes)

LEMMA HeardType ==
  ASSUME NEW l \in LogType, NEW row \in QuoteSnapshot, NEW pend, RowInStep(l, row),
         PendingInStep(l, row, pend)
  PROVE  HeardOf(row, pend) \in 0..Len(l) /\ (pend # None => HeardOf(row, pend) # 0)
BY DEF HeardOf, RowInStep, PendingInStep, Carries, LogType, QuoteSnapshot

\* queue_quote_delta keeps what is pending in step, whether it is the first push
\* of the symbol since the last drain or is merged into those before.
LEMMA QueuedInStep ==
  ASSUME NEW l \in LogType, NEW row \in QuoteSnapshot, NEW pend \in Optional(QuoteDelta),
         NEW d \in QuoteDelta, NEW w, NEW s, RowInStep(l, row), PendingInStep(l, row, pend),
         PushAt(l, row.timestamp_ms, HeardOf(row, pend), w, s, 1, d)
  PROVE  LET g == IF pend = None THEN d ELSE MergeDelta(pend, d)
         IN  g # None /\ PendingInStep(l, row, g) /\ HeardOf(row, g) = d.sequence
<1> DEFINE h == HeardOf(row, pend)
<1>1. h \in Nat /\ row.sequence \in Nat /\ row.timestamp_ms \in Nat /\ row.sequence <= row.timestamp_ms
  BY HeardType DEF RowInStep, QuoteSnapshot
<1>2. Carries(l, d) /\ h < d.sequence /\ row.timestamp_ms <= d.sequence /\ d.sequence \in Nat
  BY DEF PushAt, Carries
<1>3. \A m \in h..d.sequence : Spans(l, d, m)
  <2> TAKE m \in h..d.sequence
  <2>1. m \in 0..d.sequence /\ h <= m
    BY <1>1, <1>2
  <2>2. \A j \in 1..(1 - 1) : FALSE
    OBVIOUS
  <2>3. Reached(h, w, s, 1, m)
    BY <2>1, <2>2 DEF Reached
  <2> QED
    BY <2>1, <2>3 DEF PushAt
<1>4. CASE pend = None
  <2>1. d # None
    BY NoneAssumption
  <2>2. h = row.sequence
    BY <1>4 DEF HeardOf
  <2>3. \A m \in row.timestamp_ms..d.sequence : m \in h..d.sequence
    BY <1>1, <1>2, <2>2
  <2>4. PendingInStep(l, row, d)
    BY <1>1, <1>2, <1>3, <2>1, <2>2, <2>3 DEF PendingInStep
  <2> QED
    BY <1>4, <2>1, <2>4 DEF HeardOf
<1>5. CASE pend # None
  <2> DEFINE g == MergeDelta(pend, d)
  <2>1. pend \in QuoteDelta /\ h = pend.sequence
    BY <1>5 DEF Optional, HeardOf
  <2>2. /\ Carries(l, pend) /\ row.timestamp_ms <= pend.sequence
        /\ row.sequence < pend.sequence
        /\ \A m \in row.timestamp_ms..pend.sequence : Spans(l, pend, m)
    BY <1>5 DEF PendingInStep
  <2>3. /\ Carries(l, g) /\ g.sequence = d.sequence
        /\ \A m \in row.timestamp_ms..d.sequence : Spans(l, g, m)
    BY <1>1, <1>2, <1>3, <2>1, <2>2, SpansMerge
  <2>4. g # None
    BY <2>1, MergeDeltaType, NoneAssumption
  <2> HIDE DEF g
  <2>5. PendingInStep(l, row, g)
    BY <1>1, <1>2, <2>1, <2>2, <2>3, <2>4 DEF PendingInStep
  <2> QED
    BY <1>5, <2>3, <2>4, <2>5 DEF HeardOf, g
<1> QED
  BY <1>4, <1>5

\* apply_delta takes the row on to the moment of what was pending.
LEMMA DrainedInStep ==
  ASSUME NEW l \in LogType, NEW row \in QuoteSnapshot, NEW d \in QuoteDelta,
         NEW w \in Seq(Message), NEW s, NEW yes, InStep(l, row, d, w, s, yes),
         \A i \in 1..Len(w) : ~Answers(w, s, i), NEW pull
  PROVE  LET new == ApplyDelta(row, d)
         IN  /\ InStep(l, new, None, w, s, yes)
             /\ KeepsFields(row.value, new.value, pull)
             /\ row.timestamp_ms <= new.timestamp_ms /\ new.timestamp_ms \in 1..Len(l)
<1> DEFINE new == ApplyDelta(row, d)
<1>1. d # None
  BY NoneAssumption
<1>2. /\ Carries(l, d) /\ row.timestamp_ms <= d.sequence /\ row.sequence < d.sequence
      /\ \A m \in row.timestamp_ms..d.sequence : Spans(l, d, m)
      /\ row.timestamp_ms \in 0..Len(l) /\ ShowsAt(l, row.value, row.timestamp_ms)
  BY <1>1 DEF InStep, PendingInStep, RowInStep
<1>3. d.sequence \in 1..Len(l) /\ Len(l) \in Nat
  BY <1>2 DEF Carries, LogType
<1>4. Spans(l, d, row.timestamp_ms)
  BY <1>2, <1>3
<1>5. /\ ShowsAt(l, new.value, d.sequence) /\ new.timestamp_ms = d.sequence
      /\ new.sequence = d.sequence /\ KeepsFields(row.value, new.value, pull)
  BY <1>2, <1>4, SpansPatch
<1> HIDE DEF new
<1>6. RowInStep(l, new) /\ PendingInStep(l, new, None) /\ HeardOf(new, None) = HeardOf(row, d)
  BY <1>1, <1>3, <1>5 DEF RowInStep, PendingInStep, HeardOf
<1>7. \A i \in 1..Len(w) : IsPush(w, s, i) => new.timestamp_ms <= Seqn(w, i)
  BY <1>1, <1>3, <1>5 DEF InStep, MessagesInStep, WireInStep, PushAt, Carries, Seqn, HeardOf
<1>8. MessagesInStep(l, new.timestamp_ms, HeardOf(row, d), w, s, yes)
  BY <1>7, RowMovesInStep DEF InStep
<1> QED
  BY <1>2, <1>3, <1>5, <1>6, <1>8 DEF InStep, new

\* apply_snapshot takes the row to the moment of the pull, and what is pending
\* takes it on from there.
LEMMA PulledInStep ==
  ASSUME NEW l \in LogType, NEW row \in QuoteSnapshot, NEW pend \in Optional(QuoteDelta),
         NEW pulled \in QuoteSnapshot, NEW w \in Seq(Message), NEW s, NEW yes, NEW t \in Nat,
         Numbered(l),
         InStep(l, row, pend, w, s, yes), \A i \in 1..Len(w) : ~Answers(w, s, i),
         AnswerAt(l, row.timestamp_ms, HeardOf(row, pend), w, s, 0, pulled)
  PROVE  LET new == ApplySnapshot(row, [pulled EXCEPT !.received_at_ms = t])
         IN  /\ InStep(l, new, pend, w, s, yes)
             /\ KeepsFields(row.value, new.value, TRUE)
             /\ row.timestamp_ms <= new.timestamp_ms /\ new.timestamp_ms \in 1..Len(l)
<1> DEFINE new == ApplySnapshot(row, [pulled EXCEPT !.received_at_ms = t])
           h   == HeardOf(row, pend)
<1>1. /\ pulled.timestamp_ms \in 1..Len(l)
      /\ pulled.value = Only(PullFields, l[pulled.timestamp_ms])
      /\ pulled.sequence = 0 /\ row.timestamp_ms <= pulled.timestamp_ms
      /\ \A j \in 1..Len(w) : IsPush(w, s, j) => pulled.timestamp_ms <= Seqn(w, j)
      /\ h = 0 \/ pulled.timestamp_ms <= h
  BY DEF AnswerAt
<1>2. /\ new.value = pulled.value /\ new.timestamp_ms = pulled.timestamp_ms
      /\ new.sequence = row.sequence
  BY <1>1 DEF ApplySnapshot, QuoteSnapshot
<1> HIDE DEF new
<1>3. /\ Len(l) \in Nat /\ row.sequence \in Nat /\ row.sequence <= row.timestamp_ms
      /\ row.timestamp_ms \in 0..Len(l)
  BY DEF LogType, QuoteSnapshot, InStep, RowInStep
<1>8. \A f \in Fields : new.value[f] = IF f \in PullFields THEN l[new.timestamp_ms][f] ELSE None
  BY <1>1, <1>2 DEF Only
<1>9. /\ ShowsAt(l, row.value, row.timestamp_ms) /\ new.timestamp_ms \in 1..Len(l)
      /\ row.timestamp_ms <= new.timestamp_ms /\ new.timestamp_ms \in 1..new.timestamp_ms
      /\ Was(l, new.timestamp_ms) = l[new.timestamp_ms]
  BY <1>1, <1>2 DEF InStep, RowInStep, Was
<1>10. ShowsAt(l, new.value, new.timestamp_ms)
  BY <1>8, <1>9, PipelineAssumption DEF ShowsAt
<1>4. RowInStep(l, new)
  BY <1>1, <1>2, <1>3, <1>10 DEF RowInStep
<1>11. KeepsFields(row.value, new.value, TRUE)
  <2> SUFFICES ASSUME NEW f \in Fields, row.value[f] # None
               PROVE  \/ new.value[f] # None /\ (f \notin PushFields => row.value[f] <= new.value[f])
                      \/ f \notin PullFields /\ new.value[f] = None
    BY DEF KeepsFields
  <2>1. CASE f \notin PullFields
    BY <1>8, <2>1
  <2>2. CASE f \in PullFields
    <3>1. new.value[f] = l[new.timestamp_ms][f] /\ l[new.timestamp_ms][f] \in 1..new.timestamp_ms
      BY <1>8, <1>9, <2>2 DEF Numbered
    <3>2. new.value[f] # None
      BY <3>1, NoneAssumption
    <3>3. ASSUME f \notin PushFields PROVE row.value[f] <= new.value[f]
      <4>1. PICK k \in 1..row.timestamp_ms : row.value[f] = l[k][f]
        BY <1>9, <2>2, <3>3 DEF ShowsAt
      <4>2. k \in 1..new.timestamp_ms
        BY <1>3, <1>9
      <4> QED
        BY <1>9, <3>1, <4>1, <4>2 DEF Numbered
    <3> QED
      BY <3>2, <3>3
  <2> QED
    BY <2>1, <2>2
<1>5. HeardOf(new, pend) = h
  BY <1>2 DEF HeardOf
<1>6. PendingInStep(l, new, pend)
  <2>1. CASE pend = None
    BY <1>1, <1>2, <1>3, <2>1 DEF PendingInStep, HeardOf
  <2>2. CASE pend # None
    <3>1. /\ Carries(l, pend) /\ row.sequence < pend.sequence /\ h = pend.sequence
          /\ \A m \in row.timestamp_ms..pend.sequence : Spans(l, pend, m)
      BY <2>2 DEF InStep, PendingInStep, HeardOf
    <3>2. h \in 1..Len(l)
      BY <3>1 DEF Carries
    <3> QED
      BY <1>1, <1>2, <1>3, <2>2, <3>1, <3>2 DEF PendingInStep
  <2> QED
    BY <2>1, <2>2
<1>7. MessagesInStep(l, new.timestamp_ms, h, w, s, yes)
  BY <1>1, <1>2, RowMovesInStep DEF InStep
<1> QED
  BY <1>1, <1>2, <1>4, <1>5, <1>6, <1>7, <1>11 DEF InStep, new

-------------------------------------------------------------------------------
(* What the exchange sends for the symbol *)

\* A change that no subscriber is sent.
LEMMA UnsentInStep ==
  ASSUME NEW l \in LogType, NEW q \in Quote, NEW row \in QuoteSnapshot, NEW pend,
         NEW w \in Seq(Message), NEW s, InStep(l, row, pend, w, s, FALSE)
  PROVE  /\ InStep(Append(l, q), row, pend, w, s, FALSE)
         /\ \A p : AnswerAt(l, row.timestamp_ms, HeardOf(row, pend), w, s, 0, p)
                     => AnswerAt(Append(l, q), row.timestamp_ms, HeardOf(row, pend), w, s, 0, p)
<1> DEFINE r == row.timestamp_ms
           h == HeardOf(row, pend)
<1>1. r \in Nat /\ h \in Nat
  BY HeardType DEF InStep, QuoteSnapshot
<1>2. RowInStep(l, row) /\ PendingInStep(l, row, pend) /\ MessagesInStep(l, r, h, w, s, FALSE)
  BY DEF InStep
<1> HIDE DEF r, h
<1>3. /\ RowInStep(Append(l, q), row) /\ PendingInStep(Append(l, q), row, pend)
      /\ WireInStep(Append(l, q), r, h, w, s) /\ AnswersInStep(Append(l, q), r, h, w, s)
      /\ \A p : AnswerAt(l, r, h, w, s, 0, p) => AnswerAt(Append(l, q), r, h, w, s, 0, p)
  BY <1>1, <1>2, LogGrowsInStep DEF MessagesInStep
<1>4. NothingMissing(Append(l, q), h, w, s, FALSE)
  BY <1>2 DEF MessagesInStep, NothingMissing
<1> QED
  BY <1>3, <1>4 DEF InStep, MessagesInStep, r, h

\* q is the quote after l in which the fields F changed, and m tells s of them.
Changes(l, F, q) == q = [f \in Fields |-> IF f \in F THEN Len(l) + 1 ELSE Last(l)[f]]
Tells(m, s, n, F) ==
  m = Push(s, n, [f \in Fields |-> IF f \in F THEN n ELSE None], "sequenced")

\* A change that the subscriber is sent, with the fields it changed.
LEMMA ChangeInStep ==
  ASSUME NEW l \in LogType, NEW F, NEW row \in QuoteSnapshot, NEW pend,
         NEW w \in Seq(Message), NEW s \in Symbols, InStep(l, row, pend, w, s, TRUE), l # <<>>,
         NEW q \in Quote, Changes(l, F, q),
         NEW m \in Message, Tells(m, s, Len(l) + 1, F)
  PROVE  /\ InStep(Append(l, q), row, pend, Append(w, m), s, TRUE)
         /\ \A p : AnswerAt(l, row.timestamp_ms, HeardOf(row, pend), w, s, 0, p)
                     => AnswerAt(Append(l, q), row.timestamp_ms, HeardOf(row, pend),
                                 Append(w, m), s, 0, p)
<1> DEFINE r  == row.timestamp_ms
           h  == HeardOf(row, pend)
           l2 == Append(l, q)
           w2 == Append(w, m)
           n  == Len(l) + 1
<1>1. /\ Len(l) \in Nat /\ Len(l) # 0 /\ n \in 2..Len(l2) /\ n - 1 = Len(l) /\ Len(l2) = n
      /\ n \in Nat /\ n = Len(l) + 1
      /\ l2 \in LogType /\ l2[n] = q /\ l2[n - 1] = Last(l)
  BY DEF LogType, Last
<1>2. r \in 0..Len(l) /\ h \in 0..Len(l) /\ r \in Nat /\ h \in Nat
  <2>1. r \in 0..Len(l) /\ h \in 0..Len(l)
    BY HeardType DEF InStep, RowInStep
  <2>2. \A k \in 0..Len(l) : k \in Nat
    OBVIOUS
  <2> QED
    BY <2>1, <2>2
<1>3. RowInStep(l, row) /\ PendingInStep(l, row, pend) /\ MessagesInStep(l, r, h, w, s, TRUE)
  BY DEF InStep
<1> HIDE DEF r, h
<1>4. /\ RowInStep(l2, row) /\ PendingInStep(l2, row, pend)
      /\ WireInStep(l2, r, h, w, s) /\ AnswersInStep(l2, r, h, w, s)
      /\ \A p : AnswerAt(l, r, h, w, s, 0, p) => AnswerAt(l2, r, h, w, s, 0, p)
  BY <1>1, <1>2, <1>3, LogGrowsInStep DEF MessagesInStep
<1>5. /\ m.type = "push" /\ m.symbol = s
      /\ m.delta.sequence = n /\ m.delta.timestamp_ms = n
      /\ m.delta.value = Only(PushFields, [f \in Fields |-> IF f \in F THEN n ELSE None])
  BY DEF Push, Tells
<1>6. \A f \in Fields : l2[n][f] = IF f \in F THEN n ELSE l2[n - 1][f]
  BY <1>1 DEF Changes
<1> HIDE DEF l2, n
<1>7. Carries(l2, m.delta) /\ Spans(l2, m.delta, n - 1) /\ Spans(l2, m.delta, n)
  BY <1>1, <1>5, <1>6, SpansSparse
<1>8. PushAt(l2, r, h, w, s, Len(w) + 1, m.delta)
  <2>1. \A j \in 1..((Len(w) + 1) - 1) : IsPush(w, s, j) => Seqn(w, j) \in 1..Len(l)
    BY <1>3 DEF MessagesInStep, WireInStep, PushAt, Carries, Seqn
  <2>2. ASSUME NEW k \in 0..n, Reached(h, w, s, Len(w) + 1, k) PROVE k = n - 1 \/ k = n
    <3>1. ASSUME NEW i \in 1..Len(w), IsPush(w, s, i), Seqn(w, i) = Len(l)
          PROVE  Len(l) <= k
      <4>1. i \in 1..((Len(w) + 1) - 1)
        OBVIOUS
      <4> QED
        BY <2>2, <3>1, <4>1 DEF Reached
    <3>2. Len(l) <= k
      BY <1>3, <2>2, <3>1 DEF MessagesInStep, NothingMissing, Reached
    <3>3. n \in Nat
      BY <1>1
    <3>4. \A x \in 0..n : n - 1 <= x => x = n - 1 \/ x = n
      BY <3>3
    <3> QED
      BY <1>1, <3>2, <3>4
  <2>3. h < n /\ r <= n
    BY <1>1, <1>2
  <2>4. \A j \in 1..((Len(w) + 1) - 1) : IsPush(w, s, j) => Seqn(w, j) < n
    BY <1>1, <2>1 DEF IsPush
  <2>5. \A k \in 0..n : Reached(h, w, s, Len(w) + 1, k) => Spans(l2, m.delta, k)
    BY <1>7, <2>2
  <2> QED
    BY <1>5, <1>7, <2>3, <2>4, <2>5 DEF PushAt
<1>9. /\ WireInStep(l2, r, h, w2, s) /\ AnswersInStep(l2, r, h, w2, s)
      /\ \A p : AnswerAt(l2, r, h, w, s, 0, p) => AnswerAt(l2, r, h, w2, s, 0, p)
  <2>1. m.delta.sequence = Len(l2) /\ m.type # "reply" /\ 0 \in 0..Len(w)
    BY <1>1, <1>5
  <2> QED
    BY <1>4, <1>8, <2>1, SentInStep
<1>10. NothingMissing(l2, h, w2, s, TRUE)
  <2>1. Len(w) + 1 \in 1..Len(w2) /\ w2[Len(w) + 1] = m
    OBVIOUS
  <2> HIDE DEF w2
  <2>2. IsPush(w2, s, Len(w) + 1) /\ Seqn(w2, Len(w) + 1) = Len(l2)
    BY <1>1, <1>5, <2>1 DEF IsPush, Seqn
  <2> QED
    BY <2>1, <2>2 DEF NothingMissing
<1> QED
  BY <1>4, <1>9, <1>10 DEF InStep, MessagesInStep, r, h, l2

\* The first push of a subscription, with the whole quote.
LEMMA WholeInStep ==
  ASSUME NEW l \in LogType, NEW row \in QuoteSnapshot, NEW pend,
         NEW w \in Seq(Message), NEW s \in Symbols, InStep(l, row, pend, w, s, FALSE), l # <<>>,
         NEW m \in Message, m = Push(s, Len(l), Last(l), "sequenced")
  PROVE  /\ InStep(l, row, pend, Append(w, m), s, TRUE)
         /\ \A p : AnswerAt(l, row.timestamp_ms, HeardOf(row, pend), w, s, 0, p)
                     => AnswerAt(l, row.timestamp_ms, HeardOf(row, pend), Append(w, m), s, 0, p)
<1> DEFINE r  == row.timestamp_ms
           h  == HeardOf(row, pend)
           w2 == Append(w, m)
<1>1. Len(l) \in Nat /\ Len(l) # 0
  BY DEF LogType
<1>2. r \in 0..Len(l)
  BY DEF InStep, RowInStep
<1>3. RowInStep(l, row) /\ PendingInStep(l, row, pend) /\ MessagesInStep(l, r, h, w, s, FALSE)
  BY DEF InStep
<1> HIDE DEF r, h
<1>4. h = 0 /\ \A i \in 1..Len(w) : ~IsPush(w, s, i)
  BY <1>3 DEF MessagesInStep, NothingMissing
<1>5. /\ m.type = "push" /\ m.symbol = s
      /\ m.delta.sequence = Len(l) /\ m.delta.timestamp_ms = Len(l)
      /\ m.delta.value = Only(PushFields, l[Len(l)])
  BY DEF Push, Last
<1>6. Carries(l, m.delta) /\ \A k : Spans(l, m.delta, k)
  BY <1>1, <1>5, SpansWhole
<1>7. PushAt(l, r, h, w, s, Len(w) + 1, m.delta)
  BY <1>1, <1>2, <1>4, <1>5, <1>6 DEF PushAt
<1>8. /\ WireInStep(l, r, h, w2, s) /\ AnswersInStep(l, r, h, w2, s)
      /\ \A p : AnswerAt(l, r, h, w, s, 0, p) => AnswerAt(l, r, h, w2, s, 0, p)
  <2>1. m.type # "reply" /\ 0 \in 0..Len(w)
    BY <1>5
  <2> QED
    BY <1>3, <1>5, <1>7, <2>1, SentInStep DEF MessagesInStep
<1>9. NothingMissing(l, h, w2, s, TRUE)
  <2>1. Len(w) + 1 \in 1..Len(w2) /\ w2[Len(w) + 1] = m
    OBVIOUS
  <2> HIDE DEF w2
  <2>2. IsPush(w2, s, Len(w) + 1) /\ Seqn(w2, Len(w) + 1) = Len(l)
    BY <1>5, <2>1 DEF IsPush, Seqn
  <2> QED
    BY <2>1, <2>2 DEF NothingMissing
<1> QED
  BY <1>3, <1>8, <1>9 DEF InStep, MessagesInStep, r, h

\* A message that is neither a push of the symbol nor answers for it, or that
\* answers with its current quote.
LEMMA AnsweredInStep ==
  ASSUME NEW l \in LogType, NEW row \in QuoteSnapshot, NEW pend, NEW w \in Seq(Message),
         NEW s, NEW yes \in BOOLEAN, InStep(l, row, pend, w, s, yes), l # <<>>,
         NEW m \in Message, ~(m.type = "push" /\ m.symbol = s),
         m.type = "reply" /\ m.rows[s] # None =>
           /\ m.rows[s].value = Only(PullFields, Last(l)) /\ m.rows[s].timestamp_ms = Len(l)
           /\ m.rows[s].sequence = 0
  PROVE  /\ InStep(l, row, pend, Append(w, m), s, yes)
         /\ \A p : AnswerAt(l, row.timestamp_ms, HeardOf(row, pend), w, s, 0, p)
                     => AnswerAt(l, row.timestamp_ms, HeardOf(row, pend), Append(w, m), s, 0, p)
<1> DEFINE r  == row.timestamp_ms
           h  == HeardOf(row, pend)
           w2 == Append(w, m)
<1>1. Len(l) \in Nat /\ Len(l) # 0 /\ Len(l) \in 1..Len(l)
  BY DEF LogType
<1>2. r \in 0..Len(l)
  BY DEF InStep, RowInStep
<1>3. RowInStep(l, row) /\ PendingInStep(l, row, pend) /\ MessagesInStep(l, r, h, w, s, yes)
  BY DEF InStep
<1> HIDE DEF r, h
<1>4. ASSUME m.type = "reply", m.rows[s] # None
      PROVE  AnswerAt(l, r, h, w, s, Len(w) + 1, m.rows[s])
  <2> DEFINE p == m.rows[s]
  <2>1. p.timestamp_ms = Len(l) /\ p.value = Only(PullFields, l[Len(l)]) /\ p.sequence = 0
    BY <1>4 DEF Last
  <2>2. (\A j \in ((Len(w) + 1) + 1)..Len(w) : FALSE) /\ (Len(w) + 1) - 1 = Len(w)
    OBVIOUS
  <2> HIDE DEF p
  <2>3. \/ h = 0 /\ \A j \in 1..((Len(w) + 1) - 1) : ~IsPush(w, s, j)
        \/ p.timestamp_ms <= h
        \/ \E j \in 1..((Len(w) + 1) - 1) : IsPush(w, s, j) /\ p.timestamp_ms <= Seqn(w, j)
    <3>1. CASE yes
      BY <1>1, <1>3, <2>1, <2>2, <3>1 DEF MessagesInStep, NothingMissing, IsPush
    <3>2. CASE ~yes
      BY <1>3, <2>2, <3>2 DEF MessagesInStep, NothingMissing, IsPush
    <3> QED
      BY <3>1, <3>2
  <2>4. AnswerAt(l, r, h, w, s, Len(w) + 1, p)
    BY <1>1, <1>2, <2>1, <2>2, <2>3 DEF AnswerAt
  <2> QED
    BY <2>4 DEF p
<1>5. /\ WireInStep(l, r, h, w2, s) /\ AnswersInStep(l, r, h, w2, s)
      /\ \A p : AnswerAt(l, r, h, w, s, 0, p) => AnswerAt(l, r, h, w2, s, 0, p)
  <2>1. 0 \in 0..Len(w)
    OBVIOUS
  <2> QED
    BY <1>3, <1>4, <2>1, SentInStep DEF MessagesInStep
<1>6. NothingMissing(l, h, w2, s, yes)
  <2>1. /\ Len(w) \in Nat /\ Len(w2) = Len(w) + 1
        /\ \A i \in 1..Len(w) : w2[i] = w[i]
        /\ w2[Len(w) + 1] = m
    OBVIOUS
  <2> HIDE DEF w2
  <2>2. \A i \in 1..Len(w2) : i \in 1..Len(w) \/ i = Len(w) + 1
    BY <2>1
  <2>3. ~IsPush(w2, s, Len(w) + 1)
    BY <2>1 DEF IsPush
  <2>4. \A i \in 1..Len(w) : (IsPush(w2, s, i) <=> IsPush(w, s, i)) /\ Seqn(w2, i) = Seqn(w, i)
    BY <2>1 DEF IsPush, Seqn
  <2>5. CASE yes
    BY <1>3, <2>1, <2>4, <2>5 DEF MessagesInStep, NothingMissing, IsPush
  <2>6. CASE ~yes
    BY <1>3, <2>2, <2>3, <2>4, <2>6 DEF MessagesInStep, NothingMissing, IsPush
  <2> QED
    BY <2>5, <2>6
<1> QED
  BY <1>3, <1>5, <1>6 DEF InStep, MessagesInStep, r, h

-------------------------------------------------------------------------------
(* The pipeline *)

\* The pushes carry sequences and the connection is kept: nothing is lost or
\* reordered on the way, and queue_quote_delta gets its mutex; pulls may fail.
Orderly == Kinds = {"sequenced"} /\ Faults \subseteq {"pull"}

\* The user edits the watchlist only while no list is subscribed.
EditsUnsubscribed == watchlist' # watchlist => streamKey = {}
ListKept == [][EditsUnsubscribed]_vars

Row(s)        == Entry(snapshots, s)
HasSub(s)     == subscribed[s] = "yes"

SymbolInStep(s) ==
  /\ InStep(log[s], Row(s), pending[s], wire, s, HasSub(s))
  /\ LiveIn(snapshots, s) => Row(s).timestamp_ms # 0

ReplyInStep(s) ==
  main = "received" /\ reply[s] # None =>
    AnswerAt(log[s], Row(s).timestamp_ms, HeardOf(Row(s), pending[s]), wire, s, 0, reply[s])

\* What is subscribed is the list; the one answer belongs to the pull under way;
\* only listed symbols are pending, so that the map does not overflow.
Connection ==
  /\ \A s \in Symbols : subscribed[s] # "no" => linked /\ streamKey = watchlist /\ s \in watchlist
  /\ \A i \in 1..Len(wire) : wire[i].type = "reply" => main = "answered"
  /\ \A i, j \in 1..Len(wire) : wire[i].type = "reply" /\ wire[j].type = "reply" => i = j
  /\ dropped = 0
  /\ Keys(pending) \subseteq watchlist
  /\ Cardinality(watchlist) <= kMaxSymbols

\* What a step does for the symbol s.
Forward(s) ==
  /\ SymbolInStep(s)' /\ ReplyInStep(s)'
  /\ KeepsFields(Row(s).value, Row(s)'.value, main = "received" /\ main' = "subscribing")
  /\ Row(s).timestamp_ms <= Row(s)'.timestamp_ms

\* Rows that differ in staleness or in when they were received.
SameRow(a, b) == a.value = b.value /\ a.timestamp_ms = b.timestamp_ms /\ a.sequence = b.sequence

LEMMA SameRowKeeps ==
  ASSUME NEW a \in QuoteSnapshot, NEW b, SameRow(a, b), NEW pull
  PROVE  KeepsFields(a.value, b.value, pull)
<1>1. \A f \in Fields : a.value[f] # None => a.value[f] \in Nat
  BY DEF QuoteSnapshot, Optional
<1> QED
  BY <1>1 DEF SameRow, KeepsFields

LEMMA RedrawnRow ==
  ASSUME NEW store \in Store, NEW order, NEW s \in Symbols
  PROVE  /\ SameRow(Entry(store, s), Entry(SetWatchlist(store, order), s))
         /\ LiveIn(SetWatchlist(store, order), s) => LiveIn(store, s)
<1>1. CASE store[s] # None
  BY <1>1, SetWatchlistType DEF SameRow, Entry, LiveIn, Keys
<1>2. CASE store[s] = None /\ s \in order
  <2> DEFINE new == [DefaultSnapshot EXCEPT !.stale = TRUE]
  <2>1. SetWatchlist(store, order)[s] = new
    BY <1>2 DEF SetWatchlist
  <2>2. new # None /\ new.stale /\ SameRow(DefaultSnapshot, new)
    BY DefaultSnapshotType, NoneAssumption DEF SameRow, QuoteSnapshot
  <2> QED
    BY <1>2, <2>1, <2>2 DEF Entry, LiveIn
<1>3. CASE store[s] = None /\ s \notin order
  BY <1>3 DEF SetWatchlist, SameRow, Entry, LiveIn
<1> QED
  BY <1>1, <1>2, <1>3

LEMMA StaleRow ==
  ASSUME NEW store \in Store, NEW symbols, NEW s \in Symbols
  PROVE  /\ SameRow(Entry(store, s), Entry(MarkStale(store, symbols), s))
         /\ LiveIn(MarkStale(store, symbols), s) => LiveIn(store, s)
<1>1. CASE store[s] # None
  BY <1>1, MarkStaleType, NoneAssumption DEF SameRow, Entry, LiveIn, Keys
<1>2. CASE store[s] = None
  BY <1>2, MarkStaleType DEF SameRow, Entry, LiveIn
<1> QED
  BY <1>1, <1>2

LEMMA SameRowInStep ==
  ASSUME NEW l, NEW a, NEW b, NEW pend, NEW w, NEW s, NEW yes, SameRow(a, b)
  PROVE  /\ HeardOf(a, pend) = HeardOf(b, pend)
         /\ InStep(l, a, pend, w, s, yes) => InStep(l, b, pend, w, s, yes)
<1>1. HeardOf(a, pend) = HeardOf(b, pend)
  BY DEF SameRow, HeardOf
<1> QED
  BY <1>1 DEF SameRow, InStep, RowInStep, PendingInStep

\* A step that leaves the messages and what is pending, and the row but for its
\* staleness.
LEMMA StaysInStep ==
  ASSUME TypeOK, NEW s \in Symbols, SymbolInStep(s), ReplyInStep(s),
         SameRow(Row(s), Row(s)'), LiveIn(snapshots, s)' => LiveIn(snapshots, s),
         UNCHANGED <<log[s], wire, pending[s]>>, HasSub(s)' <=> HasSub(s),
         main' = "received" => main = "received" /\ reply' = reply
  PROVE  Forward(s)
<1>0. snapshots \in Store
  BY DEF TypeOK, Store
<1>1. Row(s) \in QuoteSnapshot
  BY <1>0, EntryType DEF Row
<1>2. HasSub(s)' = HasSub(s)
  BY DEF HasSub
<1>3. InStep(log[s], Row(s)', pending[s], wire, s, HasSub(s))
      /\ HeardOf(Row(s)', pending[s]) = HeardOf(Row(s), pending[s])
  BY SameRowInStep DEF SymbolInStep
<1>4. Row(s)'.timestamp_ms = Row(s).timestamp_ms /\ Row(s).timestamp_ms \in Nat
  BY <1>1 DEF SameRow, QuoteSnapshot
<1>5. SymbolInStep(s)'
  BY <1>2, <1>3, <1>4 DEF SymbolInStep
<1>6. ReplyInStep(s)'
  BY <1>3, <1>4 DEF ReplyInStep
<1> QED
  BY <1>1, <1>4, <1>5, <1>6, SameRowKeeps DEF Forward

\* A step of the exchange that the row does not see.
LEMMA SentForward ==
  ASSUME TypeOK, NEW s \in Symbols, SymbolInStep(s), ReplyInStep(s),
         UNCHANGED <<snapshots, pending, reply>>, main' = main \/ main' = "answered",
         InStep(log'[s], Row(s), pending[s], wire', s, HasSub(s)'),
         \A p : AnswerAt(log[s], Row(s).timestamp_ms, HeardOf(Row(s), pending[s]), wire, s, 0, p)
                  => AnswerAt(log'[s], Row(s).timestamp_ms, HeardOf(Row(s), pending[s]),
                              wire', s, 0, p)
  PROVE  Forward(s)
<1>1. Row(s)' = Row(s) /\ LiveIn(snapshots, s)' = LiveIn(snapshots, s)
  BY DEF Row, LiveIn
<1>2. Row(s) \in QuoteSnapshot /\ Row(s).timestamp_ms \in Nat
  BY EntryType DEF Row, TypeOK, Store, QuoteSnapshot
<1>3. SymbolInStep(s)'
  BY <1>1 DEF SymbolInStep
<1>4. ReplyInStep(s)'
  BY <1>1 DEF ReplyInStep
<1>5. SameRow(Row(s), Row(s)')
  BY <1>1 DEF SameRow
<1> QED
  BY <1>1, <1>2, <1>3, <1>4, <1>5, SameRowKeeps DEF Forward

LEMMA PublishForward ==
  ASSUME TypeOK, Orderly, NEW s \in Symbols, SymbolInStep(s), ReplyInStep(s),
         NEW t \in Symbols, NEW F \in (SUBSET Fields) \ {{}}, Publish(t, F)
  PROVE  Forward(s)
<1> DEFINE n == Len(log[t]) + 1
           q == [f \in Fields |-> IF f \in F THEN n ELSE Last(log[t])[f]]
           v == [f \in Fields |-> IF f \in F THEN n ELSE None]
           m == Push(t, n, v, "sequenced")
<1>0. n \in Nat
  BY CurrentQuoteType
<1>1. /\ log[s] \in LogType /\ log[s] # <<>>
      /\ wire \in Seq(Message) /\ pending[s] \in Optional(QuoteDelta)
      /\ Row(s) \in QuoteSnapshot
  BY EntryType DEF TypeOK, LogType, Row, Store
<1>2. q \in Quote /\ v \in [Fields -> Optional(Nat)]
  BY <1>0, CurrentQuoteType DEF Quote, CurrentQuote, Optional
<1>3. m \in Message /\ m.type = "push" /\ m.symbol = t
  BY <1>0, <1>2, PushType DEF Push
<1>4. log' = [log EXCEPT ![t] = Append(log[t], q)] /\ UNCHANGED <<snapshots, pending, reply, main>>
      /\ UNCHANGED subscribed
  BY DEF Publish, queueVars
<1>5. (t = s => log'[s] = Append(log[s], q)) /\ (t # s => log'[s] = log[s])
  BY <1>4 DEF TypeOK
<1>6. HasSub(s)' = HasSub(s)
  BY <1>4 DEF HasSub
<1>7. InStep(log[s], Row(s), pending[s], wire, s, HasSub(s))
  BY DEF SymbolInStep
<1>8. \/ HasSub(t) /\ wire' = Append(wire, m)
      \/ ~HasSub(t) /\ wire' = wire
  BY DEF Publish, Orderly, HasSub
<1> HIDE DEF q, v
<1>9. CASE t = s /\ HasSub(t)
  <2>1. InStep(log[s], Row(s), pending[s], wire, s, TRUE) /\ HasSub(s)' = TRUE
    BY <1>6, <1>7, <1>9 DEF HasSub
  <2>2. Changes(log[s], F, q) /\ Tells(m, s, Len(log[s]) + 1, F)
    BY <1>9 DEF q, v, Changes, Tells
  <2> HIDE DEF m, n
  <2>3. /\ InStep(Append(log[s], q), Row(s), pending[s], Append(wire, m), s, TRUE)
        /\ \A p : AnswerAt(log[s], Row(s).timestamp_ms, HeardOf(Row(s), pending[s]), wire, s, 0, p)
                    => AnswerAt(Append(log[s], q), Row(s).timestamp_ms,
                                HeardOf(Row(s), pending[s]), Append(wire, m), s, 0, p)
    BY <1>1, <1>2, <1>3, <2>1, <2>2, ChangeInStep
  <2> QED
    BY <1>4, <1>5, <1>8, <1>9, <2>1, <2>3, SentForward
<1>10. CASE t = s /\ ~HasSub(t)
  <2>1. InStep(log[s], Row(s), pending[s], wire, s, FALSE) /\ HasSub(s)' = FALSE
    BY <1>6, <1>7, <1>10 DEF HasSub
  <2>2. /\ InStep(Append(log[s], q), Row(s), pending[s], wire, s, FALSE)
        /\ \A p : AnswerAt(log[s], Row(s).timestamp_ms, HeardOf(Row(s), pending[s]), wire, s, 0, p)
                    => AnswerAt(Append(log[s], q), Row(s).timestamp_ms,
                                HeardOf(Row(s), pending[s]), wire, s, 0, p)
    BY <1>1, <1>2, <2>1, UnsentInStep
  <2> QED
    BY <1>4, <1>5, <1>8, <1>10, <2>1, <2>2, SentForward
<1>11. CASE t # s /\ HasSub(t)
  <2> HIDE DEF m, n
  <2>1. ~(m.type = "push" /\ m.symbol = s) /\ m.type # "reply" /\ HasSub(s) \in BOOLEAN
    BY <1>3, <1>11 DEF HasSub
  <2>2. /\ InStep(log[s], Row(s), pending[s], Append(wire, m), s, HasSub(s))
        /\ \A p : AnswerAt(log[s], Row(s).timestamp_ms, HeardOf(Row(s), pending[s]), wire, s, 0, p)
                    => AnswerAt(log[s], Row(s).timestamp_ms, HeardOf(Row(s), pending[s]),
                                Append(wire, m), s, 0, p)
    BY <1>1, <1>3, <1>7, <2>1, AnsweredInStep
  <2> QED
    BY <1>4, <1>5, <1>6, <1>8, <1>11, <2>2, SentForward
<1>12. CASE t # s /\ ~HasSub(t)
  BY <1>4, <1>5, <1>6, <1>7, <1>8, <1>12, SentForward
<1> QED
  BY <1>9, <1>10, <1>11, <1>12

LEMMA FirstPushForward ==
  ASSUME TypeOK, Orderly, NEW s \in Symbols, SymbolInStep(s), ReplyInStep(s),
         NEW t \in Symbols, FirstPush(t)
  PROVE  Forward(s)
<1> DEFINE m == Push(t, Len(log[t]), Last(log[t]), "sequenced")
<1>1. /\ log[s] \in LogType /\ log[s] # <<>>
      /\ wire \in Seq(Message) /\ pending[s] \in Optional(QuoteDelta)
      /\ Row(s) \in QuoteSnapshot
  BY EntryType DEF TypeOK, LogType, Row, Store
<1>2. m \in Message /\ m.type = "push" /\ m.symbol = t
  <2>1. Len(log[t]) \in Nat /\ Last(log[t]) \in [Fields -> Optional(Nat)]
    BY CurrentQuoteType DEF CurrentQuote, Quote, Optional
  <2> QED
    BY <2>1, PushType DEF Push
<1>3. /\ UNCHANGED <<log, snapshots, pending, reply, main>> /\ ~HasSub(t)
      /\ subscribed' = [subscribed EXCEPT ![t] = "yes"] /\ wire' = Append(wire, m)
  BY DEF FirstPush, queueVars, Orderly, HasSub, CurrentQuote
<1>4. InStep(log[s], Row(s), pending[s], wire, s, HasSub(s))
  BY DEF SymbolInStep
<1>5. CASE t = s
  <2>1. HasSub(s)' = TRUE /\ InStep(log[s], Row(s), pending[s], wire, s, FALSE)
    BY <1>3, <1>4, <1>5 DEF HasSub, TypeOK
  <2>2. m = Push(s, Len(log[s]), Last(log[s]), "sequenced")
    BY <1>5
  <2> HIDE DEF m
  <2>3. /\ InStep(log[s], Row(s), pending[s], Append(wire, m), s, TRUE)
        /\ \A p : AnswerAt(log[s], Row(s).timestamp_ms, HeardOf(Row(s), pending[s]), wire, s, 0, p)
                    => AnswerAt(log[s], Row(s).timestamp_ms, HeardOf(Row(s), pending[s]),
                                Append(wire, m), s, 0, p)
    BY <1>1, <1>2, <2>1, <2>2, WholeInStep
  <2> QED
    BY <1>3, <2>1, <2>3, SentForward
<1>6. CASE t # s
  <2> HIDE DEF m
  <2>1. /\ ~(m.type = "push" /\ m.symbol = s) /\ m.type # "reply" /\ HasSub(s) \in BOOLEAN
        /\ HasSub(s)' = HasSub(s)
    BY <1>2, <1>3, <1>6 DEF HasSub, TypeOK
  <2>2. /\ InStep(log[s], Row(s), pending[s], Append(wire, m), s, HasSub(s))
        /\ \A p : AnswerAt(log[s], Row(s).timestamp_ms, HeardOf(Row(s), pending[s]), wire, s, 0, p)
                    => AnswerAt(log[s], Row(s).timestamp_ms, HeardOf(Row(s), pending[s]),
                                Append(wire, m), s, 0, p)
    BY <1>1, <1>2, <1>4, <2>1, AnsweredInStep
  <2> QED
    BY <1>3, <2>1, <2>2, SentForward
<1> QED
  BY <1>5, <1>6

LEMMA AnswerPullForward ==
  ASSUME TypeOK, NEW s \in Symbols, SymbolInStep(s), ReplyInStep(s),
         NEW rows \in (SUBSET watchlist) \ {{}}, AnswerPull(rows)
  PROVE  Forward(s)
<1> DEFINE m == [type |-> "reply",
                 rows |-> [t \in Symbols |-> IF t \in rows THEN PulledRow(t) ELSE None]]
<1>1. /\ log[s] \in LogType /\ log[s] # <<>>
      /\ wire \in Seq(Message) /\ pending[s] \in Optional(QuoteDelta)
      /\ Row(s) \in QuoteSnapshot
  BY EntryType DEF TypeOK, LogType, Row, Store
<1>2. m \in Message
  BY PulledRowType DEF Message, Optional
<1>3. m.type # "push" /\ (m.rows[s] # None => m.rows[s] = PulledRow(s))
  OBVIOUS
<1>4. wire' = Append(wire, m) /\ main' = "answered" /\ UNCHANGED <<log, subscribed, snapshots, pending, reply>>
  BY DEF AnswerPull, exchangeVars, queueVars
<1> HIDE DEF m
<1>5. m.rows[s] # None => /\ m.rows[s].value = Only(PullFields, Last(log[s]))
                          /\ m.rows[s].timestamp_ms = Len(log[s]) /\ m.rows[s].sequence = 0
  BY <1>3 DEF PulledRow, CurrentQuote
<1>6. /\ InStep(log[s], Row(s), pending[s], wire, s, HasSub(s))
      /\ HasSub(s) \in BOOLEAN /\ HasSub(s)' = HasSub(s)
  BY <1>4 DEF SymbolInStep, HasSub
<1>7. /\ InStep(log[s], Row(s), pending[s], Append(wire, m), s, HasSub(s))
      /\ \A p : AnswerAt(log[s], Row(s).timestamp_ms, HeardOf(Row(s), pending[s]), wire, s, 0, p)
                  => AnswerAt(log[s], Row(s).timestamp_ms, HeardOf(Row(s), pending[s]),
                              Append(wire, m), s, 0, p)
  BY <1>1, <1>2, <1>3, <1>5, <1>6, AnsweredInStep
<1> QED
  BY <1>4, <1>6, <1>7, SentForward

\* The connection delivers in order: the oldest message is received, and the
\* others move up.
LEMMA OldestArrives ==
  ASSUME TypeOK, Orderly, NEW i \in Arriving
  PROVE  /\ i = 1 /\ wire \in Seq(Message) /\ RemoveAt(wire, i) \in Seq(Message)
         /\ Len(wire) = Len(RemoveAt(wire, i)) + 1 /\ 1 \in 1..Len(wire) /\ wire[1] \in Message
         /\ \A j \in 1..Len(RemoveAt(wire, i)) : RemoveAt(wire, i)[j] = wire[j + 1]
<1>1. i = 1 /\ 1 \in 1..Len(wire)
  BY DEF Arriving, Orderly
<1>2. wire \in Seq(Message) /\ RemoveAt(wire, 1) \in Seq(Message) /\ wire[1] \in Message
  BY <1>1, ArrivingType DEF TypeOK
<1>3. RemoveAt(wire, 1) = SubSeq(wire, 1, 0) \o SubSeq(wire, 2, Len(wire))
  BY DEF RemoveAt
<1>4. wire # <<>>
  BY <1>1
<1>5. SubSeq(wire, 1, 0) = <<>> /\ SubSeq(wire, 2, Len(wire)) = Tail(wire)
  BY <1>1, <1>2, <1>4, SubSeqEmpty, TailIsSubSeq
<1>6. /\ Tail(wire) \in Seq(Message) /\ Len(Tail(wire)) = Len(wire) - 1
      /\ \A j \in 1..Len(Tail(wire)) : Tail(wire)[j] = wire[j + 1]
  BY <1>2, <1>4, HeadTailProperties
<1>7. RemoveAt(wire, 1) = Tail(wire)
  BY <1>3, <1>5, <1>6, ConcatEmptySeq
<1>8. Len(wire) = Len(Tail(wire)) + 1
  <2>1. Len(wire) \in Nat
    BY <1>2
  <2> QED
    BY <1>6, <2>1
<1> QED
  BY <1>1, <1>2, <1>6, <1>7, <1>8

\* The pending map has room for a symbol of the watchlist that is not pending.
LEMMA RoomInTheMap ==
  ASSUME TypeOK, Connection, NEW s \in watchlist, pending[s] = None
  PROVE  ~(Cardinality(Keys(pending)) >= kMaxSymbols)
<1>1. IsFiniteSet(watchlist)
  BY PipelineAssumption, FS_Subset DEF TypeOK
<1>2. /\ IsFiniteSet(watchlist \ {s})
      /\ Cardinality(watchlist \ {s}) = Cardinality(watchlist) - 1
  BY <1>1, FS_RemoveElement
<1>3. Keys(pending) \subseteq watchlist \ {s}
  BY DEF Connection, Keys
<1>4. Cardinality(Keys(pending)) <= Cardinality(watchlist \ {s})
  BY <1>2, <1>3, FS_Subset
<1>5. Cardinality(watchlist) \in Nat /\ Cardinality(Keys(pending)) \in Nat
  BY <1>1, <1>2, <1>3, FS_CardinalityType, FS_Subset
<1> QED
  BY <1>2, <1>4, <1>5, PipelineAssumption DEF Connection

LEMMA StampedPush ==
  ASSUME NEW l, NEW r, NEW h, NEW w, NEW s, NEW i, NEW d \in QuoteDelta, NEW t \in Nat,
         PushAt(l, r, h, w, s, i, d)
  PROVE  /\ [d EXCEPT !.received_at_ms = t] \in QuoteDelta
         /\ [d EXCEPT !.received_at_ms = t].sequence = d.sequence
         /\ PushAt(l, r, h, w, s, i, [d EXCEPT !.received_at_ms = t])
<1> DEFINE e == [d EXCEPT !.received_at_ms = t]
<1>1. /\ e \in QuoteDelta /\ e.sequence = d.sequence /\ e.timestamp_ms = d.timestamp_ms
      /\ e.value = d.value
  BY DEF QuoteDelta, Optional
<1> HIDE DEF e
<1>2. PushAt(l, r, h, w, s, i, e)
  BY <1>1 DEF PushAt, Carries, Spans
<1> QED
  BY <1>1, <1>2 DEF e

\* What a push does to pending: it cannot find the map full, nor lose the mutex.
LEMMA PushIsQueued ==
  ASSUME TypeOK, Orderly, Connection, NEW s \in watchlist, NEW d, QueueQuoteDelta(s, d)
  PROVE  /\ pending' = [pending EXCEPT ![s] = IF pending[s] = None THEN d
                                              ELSE MergeDelta(pending[s], d)]
         /\ UNCHANGED <<dropped, overflowed, failures>>
<1>1. ~Fault("timeout")
  BY DEF Fault, Orderly
<1>2. CASE pending[s] = None
  BY <1>1, <1>2, RoomInTheMap, PipelineAssumption DEF QueueQuoteDelta
<1>3. CASE pending[s] # None
  BY <1>1, <1>3 DEF QueueQuoteDelta
<1> QED
  BY <1>2, <1>3

\* A message leaves the wire.
LEMMA WebSocketForward ==
  ASSUME TypeOK, Orderly, Connection, NEW s \in Symbols,
         \A t \in Symbols : SymbolInStep(t), ReplyInStep(s),
         NEW i \in Arriving, ReceivePush(i) \/ ReceiveReply(i) \/ DropLateReply(i)
  PROVE  Forward(s)
<1> DEFINE w2 == RemoveAt(wire, i)
           l  == log[s]
           r  == Row(s).timestamp_ms
           h  == HeardOf(Row(s), pending[s])
           h2 == IF IsPush(wire, s, 1) THEN Seqn(wire, 1) ELSE h
<1>1. /\ i = 1 /\ wire \in Seq(Message) /\ w2 \in Seq(Message)
      /\ Len(wire) = Len(w2) + 1 /\ 1 \in 1..Len(wire) /\ wire[1] \in Message
      /\ \A j \in 1..Len(w2) : w2[j] = wire[j + 1]
  BY OldestArrives
<1>2. /\ wire' = w2 /\ UNCHANGED <<log, subscribed, snapshots>>
      /\ Row(s)' = Row(s) /\ LiveIn(snapshots, s)' = LiveIn(snapshots, s) /\ HasSub(s)' = HasSub(s)
  BY DEF ReceivePush, ReceiveReply, DropLateReply, exchangeVars, Row, LiveIn, HasSub
<1>3. /\ l \in LogType /\ Row(s) \in QuoteSnapshot /\ pending[s] \in Optional(QuoteDelta)
      /\ r \in Nat
  BY EntryType DEF TypeOK, LogType, Row, Store, QuoteSnapshot
<1>4. InStep(l, Row(s), pending[s], wire, s, HasSub(s))
  BY DEF SymbolInStep
<1>5. /\ h \in Nat /\ RowInStep(l, Row(s)) /\ PendingInStep(l, Row(s), pending[s])
      /\ MessagesInStep(l, r, h, wire, s, HasSub(s))
  BY <1>3, <1>4, HeardType DEF InStep
<1> HIDE DEF w2, r, h
<1>6. /\ MessagesInStep(l, r, h2, w2, s, HasSub(s))
      /\ \A p : AnswerAt(l, r, h, wire, s, 0, p) => AnswerAt(l, r, h2, w2, s, 0, p)
      /\ \A p : ~IsPush(wire, s, 1) /\ AnswerAt(l, r, h, wire, s, 1, p)
                  => AnswerAt(l, r, h2, w2, s, 0, p)
  BY <1>1, <1>3, <1>5, ReceivedInStep
<1> HIDE DEF h2
<1>7. /\ PendingInStep(l, Row(s), pending'[s]) /\ HeardOf(Row(s), pending'[s]) = h2
  <2>1. CASE ReceivePush(i) /\ wire[1].symbol = s
    <3> DEFINE d == [wire[1].delta EXCEPT !.received_at_ms = now]
    <3>1. IsPush(wire, s, 1) /\ wire[1].delta \in QuoteDelta /\ now \in Nat
      BY <1>1, <2>1 DEF ReceivePush, IsPush, Message, TypeOK
    <3>2. PushAt(l, r, h, wire, s, 1, wire[1].delta)
      BY <1>1, <1>5, <3>1 DEF MessagesInStep, WireInStep
    <3>3. /\ d \in QuoteDelta /\ d.sequence = wire[1].delta.sequence
          /\ PushAt(l, r, h, wire, s, 1, d)
      BY <3>1, <3>2, StampedPush
    <3>4. s \in watchlist
      <4>1. HasSub(s)
        BY <1>1, <1>5, <3>1 DEF MessagesInStep, NothingMissing
      <4> QED
        BY <4>1 DEF HasSub, Connection
    <3>5. QueueQuoteDelta(s, d)
      BY <1>1, <2>1 DEF ReceivePush
    <3> HIDE DEF d
    <3>6. pending'[s] = IF pending[s] = None THEN d ELSE MergeDelta(pending[s], d)
      BY <3>4, <3>5, PushIsQueued DEF TypeOK
    <3>7. /\ PendingInStep(l, Row(s), pending'[s])
          /\ HeardOf(Row(s), pending'[s]) = d.sequence
      BY <1>3, <1>5, <3>3, <3>6, QueuedInStep DEF r, h
    <3> QED
      BY <3>1, <3>3, <3>7 DEF h2, Seqn
  <2>2. CASE ~(ReceivePush(i) /\ wire[1].symbol = s)
    <3>1. ~IsPush(wire, s, 1)
      BY <1>1, <2>2 DEF ReceiveReply, DropLateReply, IsPush
    <3>2. pending'[s] = pending[s]
      BY <1>1, <2>2 DEF ReceivePush, ReceiveReply, DropLateReply, queueVars, QueueQuoteDelta, TypeOK
    <3> QED
      BY <1>5, <3>1, <3>2 DEF h, h2
  <2> QED
    BY <2>1, <2>2
<1>8. SymbolInStep(s)'
  BY <1>2, <1>5, <1>6, <1>7 DEF SymbolInStep, InStep, r
<1>9. ReplyInStep(s)'
  <2>1. CASE ReceiveReply(i)
    <3>1. /\ wire[1].type = "reply" /\ reply' = wire[1].rows /\ ~IsPush(wire, s, 1)
      BY <1>1, <2>1 DEF ReceiveReply, IsPush
    <3>2. ASSUME reply'[s] # None PROVE AnswerAt(l, r, h, wire, s, 1, reply'[s])
      BY <1>1, <1>5, <3>1, <3>2 DEF MessagesInStep, AnswersInStep, Answers
    <3> QED
      BY <1>2, <1>6, <1>7, <3>1, <3>2 DEF ReplyInStep, r
  <2>2. CASE ReceivePush(i) \/ DropLateReply(i)
    <3>1. UNCHANGED <<main, reply>>
      BY <2>2 DEF ReceivePush, DropLateReply
    <3> QED
      BY <1>2, <1>6, <1>7, <3>1 DEF ReplyInStep, r, h
  <2> QED
    BY <2>1, <2>2
<1>10. SameRow(Row(s), Row(s)')
  BY <1>2 DEF SameRow
<1> QED
  BY <1>2, <1>3, <1>8, <1>9, <1>10, SameRowKeeps DEF Forward, r

\* Only while a pull is answered is there an answer on the wire.
LEMMA NothingAnswered ==
  ASSUME Connection, main # "answered", NEW s
  PROVE  \A i \in 1..Len(wire) : ~Answers(wire, s, i)
BY DEF Connection, Answers

\* The main task redraws a store in which the row of s has moved.
LEMMA MovedForward ==
  ASSUME TypeOK, NEW s \in Symbols, SymbolInStep(s),
         NEW store \in Store, NEW order, snapshots' = SetWatchlist(store, order),
         UNCHANGED <<log, subscribed, wire>>, main' # "received",
         InStep(log[s], Entry(store, s), pending'[s], wire, s, HasSub(s)),
         Row(s).timestamp_ms <= Entry(store, s).timestamp_ms,
         Entry(store, s).timestamp_ms # 0,
         KeepsFields(Row(s).value, Entry(store, s).value,
                     main = "received" /\ main' = "subscribing")
  PROVE  Forward(s)
<1>1. SameRow(Entry(store, s), Row(s)')
  BY RedrawnRow DEF Row
<1>2. HasSub(s)' = HasSub(s)
  BY DEF HasSub
<1>3. InStep(log[s], Row(s)', pending'[s], wire, s, HasSub(s))
  BY <1>1, SameRowInStep
<1>4. SymbolInStep(s)'
  BY <1>1, <1>2, <1>3 DEF SymbolInStep, SameRow
<1>5. ReplyInStep(s)'
  BY DEF ReplyInStep
<1> QED
  BY <1>1, <1>4, <1>5 DEF Forward, SameRow

LEMMA DrainForward ==
  ASSUME TypeOK, Connection, NEW s \in Symbols, SymbolInStep(s), ReplyInStep(s),
         ProcessQuoteDeltas
  PROVE  Forward(s)
<1> DEFINE drained == ApplyDeltas(snapshots, pending)
<1>1. /\ log[s] \in LogType /\ wire \in Seq(Message) /\ Row(s) \in QuoteSnapshot
      /\ snapshots \in Store /\ pending \in Batch /\ HasSub(s) \in BOOLEAN
  BY EntryType DEF TypeOK, LogType, Row, Store, Batch, HasSub
<1>2. /\ drained \in Store
      /\ pending[s] = None => drained[s] = snapshots[s]
      /\ pending[s] # None => drained[s] = ApplyDelta(Row(s), pending[s])
  BY <1>1, ApplyDeltasType DEF Row
<1>3. snapshots' = SetWatchlist(drained, watchlist) /\ pending'[s] = None
  BY DEF ProcessQuoteDeltas, Connection, Redraw, EmptyMap
<1>4. UNCHANGED <<log, subscribed, wire, main, reply>> /\ main = "loop" /\ HasSub(s)' = HasSub(s)
  BY DEF ProcessQuoteDeltas, exchangeVars, HasSub
<1> HIDE DEF drained
<1>5. CASE pending[s] = None
  <2>1. Entry(drained, s) = Row(s) /\ (LiveIn(drained, s) <=> LiveIn(snapshots, s))
    BY <1>2, <1>5 DEF Entry, Row, LiveIn
  <2>2. SameRow(Row(s), Row(s)') /\ (LiveIn(snapshots, s)' => LiveIn(snapshots, s))
    BY <1>2, <1>3, <2>1, RedrawnRow DEF Row, LiveIn
  <2> QED
    BY <1>3, <1>4, <1>5, <2>2, StaysInStep
<1>6. CASE pending[s] # None
  <2>1. pending[s] \in QuoteDelta
    BY <1>1, <1>6 DEF Batch, Optional
  <2>2. Entry(drained, s) = ApplyDelta(Row(s), pending[s])
    BY <1>1, <1>2, <1>6, <2>1, ApplyDeltaType, NoneAssumption DEF Entry
  <2>3. InStep(log[s], Row(s), pending[s], wire, s, HasSub(s))
    BY DEF SymbolInStep
  <2>4. \A i \in 1..Len(wire) : ~Answers(wire, s, i)
    BY <1>4, NothingAnswered
  <2>5. /\ InStep(log[s], Entry(drained, s), None, wire, s, HasSub(s))
        /\ Row(s).timestamp_ms <= Entry(drained, s).timestamp_ms
        /\ Entry(drained, s).timestamp_ms \in 1..Len(log[s])
        /\ KeepsFields(Row(s).value, Entry(drained, s).value, FALSE)
    BY <1>1, <2>1, <2>2, <2>3, <2>4, DrainedInStep
  <2>6. Entry(drained, s).timestamp_ms # 0
    BY <2>5
  <2>7. KeepsFields(Row(s).value, Entry(drained, s).value,
                    main = "received" /\ main' = "subscribing")
    BY <2>5 DEF KeepsFields
  <2> QED
    BY <1>2, <1>3, <1>4, <2>5, <2>6, <2>7, MovedForward
<1> QED
  BY <1>5, <1>6

LEMMA PullForward ==
  ASSUME TypeOK, Connection, NEW s \in Symbols, SymbolInStep(s), ReplyInStep(s), ApplyPull,
         Numbered(log[s])
  PROVE  Forward(s)
<1> DEFINE pulled == ApplySnapshots(snapshots, StampedRows)
<1>1. /\ log[s] \in LogType /\ wire \in Seq(Message) /\ Row(s) \in QuoteSnapshot
      /\ snapshots \in Store /\ pending[s] \in Optional(QuoteDelta) /\ HasSub(s) \in BOOLEAN
      /\ now \in Nat /\ reply[s] \in Optional(QuoteSnapshot)
  BY EntryType DEF TypeOK, LogType, Row, Store, HasSub
<1>2. /\ pulled \in Store /\ snapshots' = SetWatchlist(pulled, watchlist)
      /\ reply[s] = None => pulled[s] = snapshots[s]
      /\ reply[s] # None =>
           pulled[s] = ApplySnapshot(Row(s), [reply[s] EXCEPT !.received_at_ms = now])
  <2>1. pulled \in Store /\ snapshots' = SetWatchlist(pulled, watchlist)
    BY PulledStoreType DEF Redraw
  <2>2. StampedRows \in Store /\ (reply[s] = None <=> StampedRows[s] = None)
    BY StampedRowsType
  <2>3. reply[s] # None => StampedRows[s] = [reply[s] EXCEPT !.received_at_ms = now]
    BY DEF StampedRows
  <2>4. /\ StampedRows[s] = None => pulled[s] = snapshots[s]
        /\ StampedRows[s] # None => pulled[s] = ApplySnapshot(Row(s), StampedRows[s])
    BY <1>1, <2>2, ApplySnapshotsType DEF Row
  <2> QED
    BY <2>1, <2>2, <2>3, <2>4
<1>3. /\ UNCHANGED <<log, subscribed, wire, pending>> /\ main = "received"
      /\ main' = "subscribing" /\ HasSub(s)' = HasSub(s)
  BY DEF ApplyPull, exchangeVars, HasSub
<1> HIDE DEF pulled
<1>4. CASE reply[s] = None
  <2>1. Entry(pulled, s) = Row(s) /\ (LiveIn(pulled, s) <=> LiveIn(snapshots, s))
    BY <1>2, <1>4 DEF Entry, Row, LiveIn
  <2>2. SameRow(Row(s), Row(s)') /\ (LiveIn(snapshots, s)' => LiveIn(snapshots, s))
    BY <1>2, <2>1, RedrawnRow DEF Row, LiveIn
  <2> QED
    BY <1>3, <2>2, StaysInStep
<1>5. CASE reply[s] # None
  <2> DEFINE new == ApplySnapshot(Row(s), [reply[s] EXCEPT !.received_at_ms = now])
  <2>1. reply[s] \in QuoteSnapshot
    BY <1>1, <1>5 DEF Optional
  <2>2. new \in QuoteSnapshot
    BY <1>1, <2>1 DEF ApplySnapshot, QuoteSnapshot
  <2>3. Entry(pulled, s) = new
    BY <1>2, <1>5, <2>2, NoneAssumption DEF Entry
  <2>4. InStep(log[s], Row(s), pending[s], wire, s, HasSub(s))
    BY DEF SymbolInStep
  <2>5. \A i \in 1..Len(wire) : ~Answers(wire, s, i)
    BY <1>3, NothingAnswered
  <2>6. AnswerAt(log[s], Row(s).timestamp_ms, HeardOf(Row(s), pending[s]), wire, s, 0, reply[s])
    BY <1>3, <1>5 DEF ReplyInStep
  <2>7. /\ InStep(log[s], new, pending[s], wire, s, HasSub(s))
        /\ Row(s).timestamp_ms <= new.timestamp_ms /\ new.timestamp_ms \in 1..Len(log[s])
        /\ KeepsFields(Row(s).value, new.value, TRUE)
    BY <1>1, <2>1, <2>4, <2>5, <2>6, PulledInStep
  <2> HIDE DEF new
  <2>8. new.timestamp_ms # 0
    BY <2>7
  <2>9. KeepsFields(Row(s).value, new.value, main = "received" /\ main' = "subscribing")
    BY <1>3, <2>7 DEF KeepsFields
  <2> QED
    BY <1>2, <1>3, <2>3, <2>7, <2>8, <2>9, MovedForward
<1> QED
  BY <1>4, <1>5

\* Marking rows stale, and redrawing them, moves no row.
LEMMA MarkedForward ==
  ASSUME TypeOK, NEW s \in Symbols, NEW symbols, NEW order,
         snapshots' = SetWatchlist(MarkStale(snapshots, symbols), order)
  PROVE  SameRow(Row(s), Row(s)') /\ (LiveIn(snapshots, s)' => LiveIn(snapshots, s))
<1>1. snapshots \in Store /\ MarkStale(snapshots, symbols) \in Store
  BY MarkStaleType DEF TypeOK, Store
<1>2. /\ SameRow(Row(s), Entry(MarkStale(snapshots, symbols), s))
      /\ LiveIn(MarkStale(snapshots, symbols), s) => LiveIn(snapshots, s)
  BY <1>1, StaleRow DEF Row
<1>3. /\ SameRow(Entry(MarkStale(snapshots, symbols), s), Row(s)')
      /\ LiveIn(snapshots', s) => LiveIn(MarkStale(snapshots, symbols), s)
  BY <1>1, RedrawnRow DEF Row
<1> QED
  BY <1>2, <1>3 DEF SameRow, LiveIn

LEMMA PullFailsForward ==
  ASSUME TypeOK, NEW s \in Symbols, SymbolInStep(s), PullFails
  PROVE  Forward(s)
<1> DEFINE l == log[s]
           h == HeardOf(Row(s), pending[s])
<1>1. wire \in Seq(Message) /\ wire' \in Seq(Message)
  BY StepType DEF TypeOK, Next, Main
<1>2. /\ Len(wire') = Len(wire)
      /\ \A i \in 1..Len(wire) :
           wire'[i] = wire[i] \/ (wire[i].type = "reply" /\ wire'[i].type = "late")
  <2>1. wire' = [i \in 1..Len(wire) |->
                  IF wire[i].type = "reply" THEN [wire[i] EXCEPT !.type = "late"] ELSE wire[i]]
    BY DEF PullFails
  <2>2. Len(wire) \in Nat /\ \A i \in 1..Len(wire) : wire[i] \in Message
    BY <1>1
  <2>3. \A m \in Message : m.type = "reply" => [m EXCEPT !.type = "late"].type = "late"
    BY DEF Message
  <2> QED
    BY <2>1, <2>2, <2>3
<1>3. /\ SameRow(Row(s), Row(s)') /\ (LiveIn(snapshots, s)' => LiveIn(snapshots, s))
  BY MarkedForward DEF PullFails, MarkAllStale, Redraw
<1>4. /\ UNCHANGED <<log, subscribed, pending>> /\ main' = "loop" /\ HasSub(s)' = HasSub(s)
  BY DEF PullFails, exchangeVars, queueVars, HasSub
<1>5. /\ RowInStep(l, Row(s)) /\ PendingInStep(l, Row(s), pending[s])
      /\ MessagesInStep(l, Row(s).timestamp_ms, h, wire, s, HasSub(s))
  BY DEF SymbolInStep, InStep
<1> HIDE DEF h
<1>6. MessagesInStep(l, Row(s).timestamp_ms, h, wire', s, HasSub(s))
  BY <1>1, <1>2, <1>5, SameMessages
<1>7. InStep(l, Row(s), pending[s], wire', s, HasSub(s))
  BY <1>5, <1>6 DEF InStep, h
<1>8. InStep(l, Row(s)', pending[s], wire', s, HasSub(s))
  BY <1>3, <1>7, SameRowInStep
<1>9. Row(s) \in QuoteSnapshot /\ Row(s).timestamp_ms \in Nat
  BY EntryType DEF TypeOK, Store, Row, QuoteSnapshot
<1>10. SymbolInStep(s)'
  BY <1>3, <1>4, <1>8 DEF SymbolInStep, SameRow
<1>11. ReplyInStep(s)'
  BY <1>4 DEF ReplyInStep
<1> QED
  BY <1>3, <1>9, <1>10, <1>11, SameRowKeeps DEF Forward, SameRow

\* Who is subscribed to the list has subscribed before: a subscription finds none.
LEMMA SubscribeForward ==
  ASSUME TypeOK, Orderly, Connection, NEW s \in Symbols, SymbolInStep(s), ReplyInStep(s),
         EnsureQuoteStream
  PROVE  Forward(s)
<1>1. UNCHANGED <<log, pending, snapshots>> /\ main' = "loop"
  BY DEF EnsureQuoteStream, queueVars
<1>2. ~Fault("linkloss")
  BY DEF Fault, Orderly
<1>3. UNCHANGED wire /\ (HasSub(s)' <=> HasSub(s))
  <2>1. CASE UNCHANGED <<subscribed, wire>>
    BY <2>1 DEF HasSub
  <2>2. CASE Subscribe
    <3>1. subscribed[s] = "no"
      BY <2>2 DEF Subscribe, StreamIsCurrent, Connection
    <3>2. subscribed'[s] # "yes"
      BY <2>2, <3>1 DEF Subscribe
    <3> QED
      BY <2>2, <3>1, <3>2 DEF Subscribe, HasSub
  <2> QED
    BY <1>2, <2>1, <2>2 DEF EnsureQuoteStream, SubscribeFails
<1>4. SameRow(Row(s), Row(s)') /\ (LiveIn(snapshots, s)' => LiveIn(snapshots, s))
  BY <1>1 DEF SameRow, Row, LiveIn
<1> QED
  BY <1>1, <1>3, <1>4, StaysInStep

\* The steps that touch neither the messages nor what is pending.
LEMMA QuietForward ==
  ASSUME TypeOK, NEW s \in Symbols, SymbolInStep(s), ReplyInStep(s),
         \/ StartRefresh \/ SkipPull \/ SendPull \/ HandleQuoteStreamState \/ SweepStale
         \/ \E t \in Symbols : HandleAddSymbol(t)
         \/ Tick \/ UNCHANGED vars
  PROVE  Forward(s)
<1>1. /\ UNCHANGED <<log, wire, pending, subscribed>> /\ (HasSub(s)' <=> HasSub(s))
      /\ main' = "received" => main = "received" /\ reply' = reply
  BY DEF StartRefresh, SkipPull, SendPull, HandleQuoteStreamState, SweepStale, HandleAddSymbol,
         Tick, vars, exchangeVars, queueVars, HasSub
<1>2. SameRow(Row(s), Row(s)') /\ (LiveIn(snapshots, s)' => LiveIn(snapshots, s))
  <2>0. snapshots \in Store
    BY DEF TypeOK, Store
  <2>1. CASE snapshots' = snapshots
    BY <2>1 DEF SameRow, Row, LiveIn
  <2>2. CASE snapshots' = Redraw(MarkAllStale(snapshots))
    BY <2>2, MarkedForward DEF Redraw, MarkAllStale
  <2>3. CASE SweepStale
    BY <2>0, <2>3, StaleRow DEF SweepStale, MarkStaleOlderThan, Row, LiveIn
  <2>4. CASE \E t \in Symbols : HandleAddSymbol(t)
    BY <2>0, <2>4, RedrawnRow DEF HandleAddSymbol, Row, LiveIn
  <2> QED
    BY <2>1, <2>2, <2>3, <2>4
    DEF StartRefresh, SkipPull, SendPull, HandleQuoteStreamState, Tick, vars
<1> QED
  BY <1>1, <1>2, StaysInStep

LEMMA StepForward ==
  ASSUME TypeOK, Orderly, Connection, \A t \in Symbols : SymbolInStep(t) /\ ReplyInStep(t),
         [Next]_vars, NEW s \in Symbols, Numbered(log[s])
  PROVE  Forward(s)
<1>0. SymbolInStep(s) /\ ReplyInStep(s)
  OBVIOUS
<1>1. ~Fault("linkloss") /\ ~Fault("edit")
  BY DEF Fault, Orderly
<1>2. CASE Exchange
  BY <1>0, <1>1, <1>2, PublishForward, FirstPushForward, AnswerPullForward
  DEF Exchange, LoseLink
<1>3. CASE WebSocketTask
  BY <1>0, <1>3, WebSocketForward DEF WebSocketTask
<1>4. CASE Main
  BY <1>0, <1>1, <1>4, DrainForward, PullForward, PullFailsForward, SubscribeForward, QuietForward
  DEF Main, HandleRemoveSymbol
<1>5. CASE Tick \/ UNCHANGED vars
  BY <1>0, <1>5, QuietForward
<1> QED
  BY <1>2, <1>3, <1>4, <1>5 DEF Next

-------------------------------------------------------------------------------
(* The connection *)

\* What is subscribed stays the list, as it is edited only while nothing is.
LEMMA ListedStep ==
  ASSUME TypeOK, Orderly, Connection, [Next]_vars, EditsUnsubscribed
  PROVE  /\ \A s \in Symbols :
              subscribed'[s] # "no" => linked' /\ streamKey' = watchlist' /\ s \in watchlist'
         /\ watchlist \subseteq watchlist' /\ Cardinality(watchlist') <= kMaxSymbols
<1> DEFINE Listed == \A s \in Symbols :
                       subscribed'[s] # "no" => linked' /\ streamKey' = watchlist' /\ s \in watchlist'
           Kept   == watchlist \subseteq watchlist' /\ Cardinality(watchlist') <= kMaxSymbols
<1>1. ~Fault("linkloss") /\ ~Fault("edit")
  BY DEF Fault, Orderly
<1>2. \A s \in Symbols : subscribed[s] # "no" => linked /\ streamKey = watchlist /\ s \in watchlist
  BY DEF Connection
<1>3. watchlist' = watchlist => Kept
  BY DEF Connection
<1>4. ASSUME UNCHANGED <<subscribed, streamKey, watchlist>>, linked => linked' PROVE Listed /\ Kept
  BY <1>2, <1>3, <1>4
<1>5. ASSUME NEW t \in Symbols, FirstPush(t) PROVE Listed /\ Kept
  <2>1. /\ UNCHANGED <<linked, streamKey, watchlist>> /\ subscribed[t] = "owed"
        /\ subscribed' = [subscribed EXCEPT ![t] = "yes"]
    BY <1>5 DEF FirstPush, streamVars
  <2> QED
    BY <1>2, <1>3, <2>1 DEF TypeOK
<1>6. CASE EnsureQuoteStream
  <2>1. CASE UNCHANGED <<subscribed, wire, linked, streamVars, failures>>
    BY <1>4, <1>6, <2>1 DEF EnsureQuoteStream, streamVars
  <2>2. CASE Subscribe
    BY <1>2, <1>3, <1>6, <2>2 DEF EnsureQuoteStream, Subscribe, StreamIsCurrent
  <2> QED
    BY <1>1, <1>6, <2>1, <2>2 DEF EnsureQuoteStream, SubscribeFails
<1>7. CASE HandleQuoteStreamState
  BY <1>2, <1>3, <1>7 DEF HandleQuoteStreamState, exchangeVars
<1>8. ASSUME NEW t \in Symbols, HandleAddSymbol(t) PROVE Listed /\ Kept
  <2>1. /\ t \notin watchlist /\ Cardinality(watchlist) < kMaxSymbols
        /\ watchlist' = watchlist \cup {t} /\ UNCHANGED <<subscribed, linked, streamKey>>
    BY <1>8 DEF HandleAddSymbol, exchangeVars, streamVars
  <2>2. streamKey = {}
    BY <2>1 DEF EditsUnsubscribed
  <2>3. \A s \in Symbols : subscribed[s] = "no"
    BY <1>2, <2>2
  <2>4. IsFiniteSet(watchlist)
    BY PipelineAssumption, FS_Subset DEF TypeOK
  <2>5. /\ Cardinality(watchlist') = Cardinality(watchlist) + 1 /\ Cardinality(watchlist) \in Nat
    BY <2>1, <2>4, FS_AddElement, FS_CardinalityType
  <2> QED
    BY <2>1, <2>3, <2>5, PipelineAssumption
<1>9. CASE Exchange
  BY <1>1, <1>4, <1>5, <1>9 DEF Exchange, Publish, AnswerPull, LoseLink, exchangeVars, streamVars
<1>10. CASE WebSocketTask
  BY <1>4, <1>10 DEF WebSocketTask, ReceivePush, ReceiveReply, DropLateReply, exchangeVars, streamVars
<1>11. CASE ProcessQuoteDeltas \/ StartRefresh \/ SkipPull \/ PullFails \/ ApplyPull \/ SweepStale
            \/ Tick \/ UNCHANGED vars
  BY <1>4, <1>11 DEF ProcessQuoteDeltas, StartRefresh, SkipPull, PullFails, ApplyPull, SweepStale,
                     Tick, vars, exchangeVars, streamVars
<1>12. CASE SendPull
  BY <1>4, <1>12 DEF SendPull, exchangeVars, streamVars
<1> QED
  BY <1>1, <1>5, <1>6, <1>7, <1>8, <1>9, <1>10, <1>11, <1>12 DEF Next, Main, HandleRemoveSymbol

\* The one answer on the wire is that of the pull under way.
LEMMA OneAnswerStep ==
  ASSUME TypeOK, Orderly, Connection, [Next]_vars
  PROVE  /\ \A i \in 1..Len(wire') : wire'[i].type = "reply" => main' = "answered"
         /\ \A i, j \in 1..Len(wire') :
              wire'[i].type = "reply" /\ wire'[j].type = "reply" => i = j
<1> DEFINE Mine == \A i \in 1..Len(wire') : wire'[i].type = "reply" => main' = "answered"
           One  == \A i, j \in 1..Len(wire') :
                     wire'[i].type = "reply" /\ wire'[j].type = "reply" => i = j
<1>0. wire \in Seq(Message) /\ Len(wire) \in Nat
  BY DEF TypeOK
<1>1. ~Fault("linkloss") /\ ~Fault("edit")
  BY DEF Fault, Orderly
<1>2. /\ \A i \in 1..Len(wire) : wire[i].type = "reply" => main = "answered"
      /\ \A i, j \in 1..Len(wire) : wire[i].type = "reply" /\ wire[j].type = "reply" => i = j
  BY DEF Connection
<1>3. ASSUME wire' = wire, main = "answered" => main' = "answered" PROVE Mine /\ One
  BY <1>2, <1>3
<1>4. ASSUME NEW m \in Message, m.type = "push", wire' = Append(wire, m), main' = main
      PROVE  Mine /\ One
  <2>1. /\ Len(wire') = Len(wire) + 1 /\ wire'[Len(wire) + 1] = m
        /\ \A i \in 1..Len(wire) : wire'[i] = wire[i]
    BY <1>0, <1>4
  <2>2. \A i \in 1..Len(wire') : wire'[i].type = "reply" => i \in 1..Len(wire) /\ wire[i].type = "reply"
    BY <1>0, <1>4, <2>1
  <2> QED
    BY <1>2, <1>4, <2>2
<1>5. ASSUME NEW t \in Symbols, NEW F \in (SUBSET Fields) \ {{}}, Publish(t, F) PROVE Mine /\ One
  <2>1. CASE wire' = wire
    BY <1>3, <1>5, <2>1 DEF Publish
  <2>2. CASE wire' # wire
    <3> DEFINE v == [f \in Fields |-> IF f \in F THEN Len(log[t]) + 1 ELSE None]
    <3>1. PICK kind \in Kinds : wire' = Append(wire, Push(t, Len(log[t]) + 1, v, kind))
      BY <1>5, <2>2 DEF Publish
    <3>2. Len(log[t]) + 1 \in Nat /\ v \in [Fields -> Optional(Nat)]
      BY CurrentQuoteType DEF Optional
    <3>3. PICK m \in Message : m.type = "push" /\ wire' = Append(wire, m)
      BY <3>1, <3>2, PushType DEF Push
    <3> QED
      BY <1>4, <1>5, <3>3 DEF Publish
  <2> QED
    BY <2>1, <2>2
<1>6. ASSUME NEW t \in Symbols, FirstPush(t) PROVE Mine /\ One
  <2>1. CurrentQuote(t) \in [Fields -> Optional(Nat)] /\ Len(log[t]) \in Nat
    BY CurrentQuoteType DEF Quote, Optional
  <2>2. PICK m \in Message : m.type = "push" /\ wire' = Append(wire, m)
    BY <1>6, <2>1, PushType DEF FirstPush, Push
  <2> QED
    BY <1>4, <1>6, <2>2 DEF FirstPush
<1>7. ASSUME NEW rows \in (SUBSET watchlist) \ {{}}, AnswerPull(rows) PROVE Mine /\ One
  <2> DEFINE m == [type |-> "reply",
                   rows |-> [t \in Symbols |-> IF t \in rows THEN PulledRow(t) ELSE None]]
  <2>1. main = "asked" /\ main' = "answered" /\ wire' = Append(wire, m)
    BY <1>7 DEF AnswerPull
  <2> HIDE DEF m
  <2>2. /\ Len(wire') = Len(wire) + 1 /\ \A i \in 1..Len(wire) : wire'[i] = wire[i]
    BY <1>0, <2>1
  <2>3. \A i \in 1..Len(wire') : wire'[i].type = "reply" => i = Len(wire) + 1
    BY <1>0, <1>2, <2>1, <2>2
  <2> QED
    BY <2>1, <2>3
<1>8. CASE WebSocketTask
  <2>1. PICK i \in Arriving : ReceivePush(i) \/ ReceiveReply(i) \/ DropLateReply(i)
    BY <1>8 DEF WebSocketTask
  <2>2. /\ i = 1 /\ wire' = RemoveAt(wire, i) /\ Len(wire) = Len(wire') + 1 /\ 1 \in 1..Len(wire)
        /\ \A j \in 1..Len(wire') : wire'[j] = wire[j + 1]
        /\ Len(wire') \in Nat
    BY <2>1, OldestArrives DEF ReceivePush, ReceiveReply, DropLateReply
  <2>3. \A j \in 1..Len(wire') : /\ j + 1 \in 1..Len(wire) /\ j + 1 # 1
                                 /\ wire'[j].type = "reply" => wire[j + 1].type = "reply"
    BY <2>2
  <2>4. One
    <3> SUFFICES ASSUME NEW j \in 1..Len(wire'), NEW k \in 1..Len(wire'),
                        wire'[j].type = "reply", wire'[k].type = "reply"
                 PROVE  j = k
      OBVIOUS
    <3>1. j + 1 = k + 1
      BY <1>2, <2>3
    <3> QED
      BY <2>2, <3>1
  <2>5. Mine
    <3>1. CASE ReceiveReply(i)
      <4>1. wire[1].type = "reply"
        BY <2>2, <3>1 DEF ReceiveReply
      <4> QED
        BY <1>2, <2>2, <2>3, <4>1
    <3>2. CASE ReceivePush(i) \/ DropLateReply(i)
      BY <1>2, <2>3, <3>2 DEF ReceivePush, DropLateReply
    <3> QED
      BY <2>1, <3>1, <3>2
  <2> QED
    BY <2>4, <2>5
<1>9. CASE PullFails
  <2>1. wire' = [i \in 1..Len(wire) |->
                  IF wire[i].type = "reply" THEN [wire[i] EXCEPT !.type = "late"] ELSE wire[i]]
    BY <1>9 DEF PullFails
  <2>2. Len(wire') = Len(wire) /\ \A i \in 1..Len(wire) : wire[i] \in Message
    BY <1>0, <2>1
  <2>3. \A m \in Message : m.type = "reply" => [m EXCEPT !.type = "late"].type = "late"
    BY DEF Message
  <2>4. \A i \in 1..Len(wire') : wire'[i].type # "reply"
    BY <2>1, <2>2, <2>3
  <2> QED
    BY <2>4
<1>10. CASE ApplyPull \/ StartRefresh \/ SkipPull \/ SendPull \/ ProcessQuoteDeltas \/ SweepStale
            \/ HandleQuoteStreamState \/ Tick \/ UNCHANGED vars
            \/ \E t \in Symbols : HandleAddSymbol(t)
  BY <1>3, <1>10 DEF ApplyPull, StartRefresh, SkipPull, SendPull, ProcessQuoteDeltas, SweepStale,
                     HandleQuoteStreamState, Tick, vars, HandleAddSymbol
<1>11. CASE EnsureQuoteStream
  BY <1>1, <1>3, <1>11 DEF EnsureQuoteStream, Subscribe, SubscribeFails
<1> QED
  BY <1>1, <1>5, <1>6, <1>7, <1>8, <1>9, <1>10, <1>11
  DEF Next, Exchange, Main, LoseLink, HandleRemoveSymbol

\* Only a listed symbol is pushed, so that the pending map has room for it.
LEMMA PendingStep ==
  ASSUME TypeOK, Orderly, Connection, \A s \in Symbols : SymbolInStep(s), [Next]_vars
  PROVE  dropped' = 0 /\ Keys(pending') \subseteq watchlist
<1>0. dropped = 0 /\ Keys(pending) \subseteq watchlist
  BY DEF Connection
<1>1. CASE UNCHANGED <<pending, dropped>>
  BY <1>0, <1>1
<1>2. CASE ProcessQuoteDeltas
  BY <1>2 DEF ProcessQuoteDeltas, EmptyMap, Keys
<1>3. ASSUME NEW i \in Arriving, ReceivePush(i)
      PROVE  dropped' = 0 /\ Keys(pending') \subseteq watchlist
  <2> DEFINE t == wire[1].symbol
             d == [wire[1].delta EXCEPT !.received_at_ms = now]
  <2>1. /\ i = 1 /\ 1 \in 1..Len(wire) /\ wire[1] \in Message
        /\ wire[1].type = "push" /\ QueueQuoteDelta(t, d)
    BY <1>3, OldestArrives DEF ReceivePush
  <2>2. t \in Symbols /\ IsPush(wire, t, 1)
    BY <2>1 DEF Message, IsPush
  <2>3. t \in watchlist
    <3>1. NothingMissing(log[t], HeardOf(Row(t), pending[t]), wire, t, HasSub(t))
      BY <2>2 DEF SymbolInStep, InStep, MessagesInStep
    <3>2. HasSub(t)
      BY <2>1, <2>2, <3>1 DEF NothingMissing
    <3> QED
      BY <2>2, <3>2 DEF HasSub, Connection
  <2> HIDE DEF t, d
  <2>4. /\ pending' = [pending EXCEPT ![t] = IF pending[t] = None THEN d
                                              ELSE MergeDelta(pending[t], d)]
        /\ dropped' = dropped
    BY <2>1, <2>3, PushIsQueued
  <2>5. \A s \in Symbols : s # t => pending'[s] = pending[s]
    BY <2>4 DEF TypeOK
  <2> QED
    BY <1>0, <2>3, <2>4, <2>5 DEF Keys
<1>4. CASE WebSocketTask
  BY <1>1, <1>3, <1>4 DEF WebSocketTask, ReceiveReply, DropLateReply, queueVars
<1>5. CASE Exchange
  BY <1>1, <1>5 DEF Exchange, Publish, FirstPush, AnswerPull, LoseLink, queueVars
<1>6. CASE Main
  BY <1>1, <1>2, <1>6
  DEF Main, StartRefresh, SkipPull, SendPull, PullFails, ApplyPull, EnsureQuoteStream,
      HandleQuoteStreamState, SweepStale, HandleAddSymbol, HandleRemoveSymbol, queueVars
<1>7. CASE Tick \/ UNCHANGED vars
  BY <1>1, <1>7 DEF Tick, vars, queueVars
<1> QED
  BY <1>4, <1>5, <1>6, <1>7 DEF Next

-------------------------------------------------------------------------------
(* The log *)

LEMMA NumberedChange ==
  ASSUME NEW l \in LogType, l # <<>>, Numbered(l), NEW F \in (SUBSET Fields) \ {{}},
         NEW q, Changes(l, F, q)
  PROVE  Numbered(Append(l, q))
<1> DEFINE l2 == Append(l, q)
           k  == Len(l) + 1
<1>1. k \in Nat /\ Len(l) \in Nat /\ Len(l) # 0 /\ Len(l) \in 1..Len(l)
  BY DEF LogType
<1>2. /\ Len(l2) = k /\ l2[k] = q
      /\ \A n \in 1..Len(l) : l2[n] = l[n]
  BY DEF LogType
<1>3. \A f \in Fields : q[f] = IF f \in F THEN k ELSE l[Len(l)][f]
  BY DEF Changes, Last
<1>4. \A n \in 1..Len(l) : \A f \in Fields : l[n][f] \in 1..n /\ l[n][f] <= l[Len(l)][f]
  BY <1>1 DEF Numbered
<1> HIDE DEF l2, k
<1>5. ASSUME NEW n \in 1..Len(l)
      PROVE  /\ \A f \in Fields : l2[n][f] \in 1..n
             /\ \A m \in 1..n : \A f \in Fields : l2[m][f] <= l2[n][f]
  <2>1. \A m \in 1..n : m \in 1..Len(l)
    BY <1>1
  <2> QED
    BY <1>2, <2>1 DEF Numbered
<1>6. k = Len(l) + 1
  BY DEF k
<1>7. \A f \in Fields : q[f] \in 1..k
  BY <1>1, <1>3, <1>4, <1>6
<1>9. ASSUME NEW m \in 1..k, NEW f \in Fields PROVE l2[m][f] <= q[f]
  <2>1. CASE m = k
    <3>1. q[f] \in Nat
      BY <1>1, <1>7
    <3> QED
      BY <1>2, <2>1, <3>1
  <2>2. CASE m # k
    <3>1. m \in 1..Len(l)
      BY <1>1, <1>6, <2>2
    <3>2. l[m][f] \in 1..m /\ l[m][f] <= l[Len(l)][f] /\ l2[m] = l[m]
      BY <1>2, <1>4, <3>1
    <3>3. l[m][f] <= k
      BY <1>1, <1>6, <3>1, <3>2
    <3> QED
      BY <1>3, <3>2, <3>3
  <2> QED
    BY <2>1, <2>2
<1>10. \A n \in 1..Len(l2) : n \in 1..Len(l) \/ n = k
  BY <1>1, <1>2, <1>6
<1>11. Numbered(l2)
  BY <1>2, <1>5, <1>7, <1>9, <1>10 DEF Numbered
<1> QED
  BY <1>11 DEF l2

\* Only the exchange's changes touch the log.
LEMMA LogStep ==
  ASSUME TypeOK, [Next]_vars
  PROVE  \/ log' = log
         \/ \E t \in Symbols, F \in (SUBSET Fields) \ {{}}, q \in Quote :
              /\ F \cap PushFields # {}
              /\ Changes(log[t], F, q) /\ UNCHANGED <<snapshots, watchlist>>
              /\ log' = [log EXCEPT ![t] = Append(log[t], q)]
<1>1. ASSUME NEW t \in Symbols, NEW F \in (SUBSET Fields) \ {{}}, Publish(t, F)
      PROVE  \E q \in Quote :
               /\ F \cap PushFields # {}
               /\ Changes(log[t], F, q) /\ UNCHANGED <<snapshots, watchlist>>
               /\ log' = [log EXCEPT ![t] = Append(log[t], q)]
  <2> DEFINE q == [f \in Fields |-> IF f \in F THEN Len(log[t]) + 1 ELSE Last(log[t])[f]]
  <2>1. q \in Quote
    BY CurrentQuoteType DEF CurrentQuote, Quote
  <2>2. Changes(log[t], F, q)
    BY DEF Changes
  <2>3. F \cap PushFields # {} /\ UNCHANGED <<snapshots, watchlist>> /\ log' = [log EXCEPT ![t] = Append(log[t], q)]
    BY <1>1 DEF Publish
  <2> QED
    BY <2>1, <2>2, <2>3
<1>2. CASE Exchange
  BY <1>1, <1>2 DEF Exchange, FirstPush, AnswerPull, LoseLink, exchangeVars
<1>3. CASE WebSocketTask
  BY <1>3 DEF WebSocketTask, ReceivePush, ReceiveReply, DropLateReply, exchangeVars
<1>4. CASE Main
  BY <1>4
  DEF Main, ProcessQuoteDeltas, StartRefresh, SkipPull, SendPull, PullFails, ApplyPull,
      EnsureQuoteStream, HandleQuoteStreamState, SweepStale, HandleAddSymbol, HandleRemoveSymbol,
      exchangeVars
<1>5. CASE Tick \/ UNCHANGED vars
  BY <1>5 DEF Tick, vars, exchangeVars
<1> QED
  BY <1>2, <1>3, <1>4, <1>5 DEF Next

\* A log that grows keeps its quotes.
LEMMA LogKept ==
  ASSUME TypeOK, \A s \in Symbols : Numbered(log[s]), [Next]_vars, NEW s \in Symbols
  PROVE  /\ Numbered(log'[s]) /\ Len(log[s]) <= Len(log'[s])
         /\ \A n \in 1..Len(log[s]) : log'[s][n] = log[s][n]
<1>0. log[s] \in LogType /\ log[s] # <<>> /\ Len(log[s]) \in Nat
  BY CurrentQuoteType DEF TypeOK, LogType
<1>1. CASE log' = log
  BY <1>0, <1>1
<1>2. ASSUME NEW t \in Symbols, NEW F \in (SUBSET Fields) \ {{}}, NEW q \in Quote,
             Changes(log[t], F, q), log' = [log EXCEPT ![t] = Append(log[t], q)]
      PROVE  /\ Numbered(log'[s]) /\ Len(log[s]) <= Len(log'[s])
             /\ \A n \in 1..Len(log[s]) : log'[s][n] = log[s][n]
  <2>1. CASE s = t
    <3>1. log'[s] = Append(log[s], q)
      BY <1>2, <2>1 DEF TypeOK
    <3>2. Numbered(Append(log[s], q))
      BY <1>0, <1>2, <2>1, NumberedChange
    <3>3. /\ Len(Append(log[s], q)) = Len(log[s]) + 1
          /\ \A n \in 1..Len(log[s]) : Append(log[s], q)[n] = log[s][n]
      BY <1>0, LogGrows
    <3> QED
      BY <1>0, <3>1, <3>2, <3>3
  <2>2. CASE s # t
    BY <1>0, <1>2, <2>2 DEF TypeOK
  <2> QED
    BY <2>1, <2>2
<1> QED
  BY <1>1, <1>2, LogStep

-------------------------------------------------------------------------------
(* The invariant and what it means for the rows *)

TickerInv ==
  /\ TypeOK /\ Connection
  /\ \A s \in Symbols : SymbolInStep(s) /\ ReplyInStep(s)
  /\ \A s \in Symbols : Numbered(log[s])

LEMMA TickerInit == Init => TickerInv
<1> SUFFICES ASSUME Init PROVE TickerInv
  OBVIOUS
<1>1. TypeOK
  BY InitType
<1>2. Connection
  BY DEF Init, Connection, Unsubscribed, EmptyMap, Keys
<1>3. ASSUME NEW s \in Symbols PROVE Numbered(log[s])
  <2>1. log[s] = <<[f \in Fields |-> 1]>>
    BY DEF Init
  <2>3. \A n \in 1..1 : n = 1
    OBVIOUS
  <2>4. Len(log[s]) = 1 /\ \A f \in Fields : log[s][1][f] = 1
    BY <2>1
  <2> QED
    BY <2>3, <2>4 DEF Numbered
<1>4. ASSUME NEW s \in Symbols PROVE SymbolInStep(s) /\ ReplyInStep(s)
  <2>1. /\ EmptyMap \in Store /\ snapshots = SetWatchlist(EmptyMap, watchlist)
        /\ Entry(EmptyMap, s) = DefaultSnapshot /\ ~LiveIn(EmptyMap, s)
    BY EmptyMapType DEF Init, EmptyMap, Entry, LiveIn
  <2>2. SameRow(DefaultSnapshot, Row(s)) /\ ~LiveIn(snapshots, s)
    BY <2>1, RedrawnRow DEF Row
  <2>3. /\ wire = <<>> /\ pending[s] = None /\ HasSub(s) = FALSE /\ main = "loop"
    BY DEF Init, HasSub, Unsubscribed, EmptyMap
  <2>4. Len(log[s]) \in Nat /\ \A i \in 1..Len(wire) : FALSE
    BY <1>1, <2>3, CurrentQuoteType
  <2>5. /\ RowInStep(log[s], DefaultSnapshot) /\ PendingInStep(log[s], DefaultSnapshot, None)
        /\ HeardOf(DefaultSnapshot, None) = 0
    BY <2>4, PipelineAssumption
    DEF RowInStep, PendingInStep, HeardOf, DefaultSnapshot, ShowsAt, Was
  <2>6. MessagesInStep(log[s], DefaultSnapshot.timestamp_ms, 0, wire, s, FALSE)
    BY <2>4 DEF MessagesInStep, WireInStep, AnswersInStep, NothingMissing
  <2>7. InStep(log[s], DefaultSnapshot, None, wire, s, FALSE)
    BY <2>5, <2>6 DEF InStep
  <2>8. InStep(log[s], Row(s), None, wire, s, FALSE)
    BY <2>2, <2>7, SameRowInStep
  <2> QED
    BY <2>2, <2>3, <2>8 DEF SymbolInStep, ReplyInStep
<1> QED
  BY <1>1, <1>2, <1>3, <1>4 DEF TickerInv

LEMMA TickerStep ==
  ASSUME Orderly, TickerInv, [Next]_vars, EditsUnsubscribed
  PROVE  /\ TickerInv' /\ watchlist \subseteq watchlist'
         /\ \A s \in Symbols : /\ Row(s).timestamp_ms <= Row(s)'.timestamp_ms
                               /\ KeepsFields(Row(s).value, Row(s)'.value,
                                              main = "received" /\ main' = "subscribing")
                               /\ Len(log[s]) <= Len(log'[s])
                               /\ \A n \in 1..Len(log[s]) : log'[s][n] = log[s][n]
<1>0. TypeOK /\ Connection /\ (\A s \in Symbols : SymbolInStep(s) /\ ReplyInStep(s))
      /\ (\A s \in Symbols : Numbered(log[s]))
  BY DEF TickerInv
<1>1. TypeOK'
  BY <1>0, StepType
<1>2. \A s \in Symbols : Forward(s)
  BY <1>0, StepForward
<1>3. /\ \A s \in Symbols :
           subscribed'[s] # "no" => linked' /\ streamKey' = watchlist' /\ s \in watchlist'
      /\ watchlist \subseteq watchlist' /\ Cardinality(watchlist') <= kMaxSymbols
  BY <1>0, ListedStep
<1>4. Connection'
  <2>1. /\ \A i \in 1..Len(wire') : wire'[i].type = "reply" => main' = "answered"
        /\ \A i, j \in 1..Len(wire') :
             wire'[i].type = "reply" /\ wire'[j].type = "reply" => i = j
    BY <1>0, OneAnswerStep
  <2>2. dropped' = 0 /\ Keys(pending') \subseteq watchlist'
    BY <1>0, <1>3, PendingStep
  <2> QED
    BY <1>3, <2>1, <2>2 DEF Connection
<1>5. \A s \in Symbols : /\ Numbered(log'[s]) /\ Len(log[s]) <= Len(log'[s])
                         /\ \A n \in 1..Len(log[s]) : log'[s][n] = log[s][n]
  BY <1>0, LogKept
<1> QED
  BY <1>1, <1>2, <1>3, <1>4, <1>5 DEF TickerInv, Forward

\* What a row shows, by the moment of its timestamp.
Shows(s) ==
  /\ Row(s).timestamp_ms \in 0..Len(log[s])
  /\ ShowsAt(log[s], Row(s).value, Row(s).timestamp_ms)
  /\ Row(s) \in QuoteSnapshot
  /\ Len(log[s]) \in Nat /\ Numbered(log[s])
  /\ snapshots[s] # None => Row(s) = snapshots[s]
  /\ Live(s) => snapshots[s] # None /\ Row(s).timestamp_ms # 0

LEMMA RowsShow == TickerInv => \A s \in Symbols : Shows(s)
<1> SUFFICES ASSUME TickerInv, NEW s \in Symbols PROVE Shows(s)
  OBVIOUS
<1>1. /\ Row(s).timestamp_ms \in 0..Len(log[s])
      /\ ShowsAt(log[s], Row(s).value, Row(s).timestamp_ms)
      /\ LiveIn(snapshots, s) => Row(s).timestamp_ms # 0
  BY DEF TickerInv, SymbolInStep, InStep, RowInStep
<1>2. Len(log[s]) \in Nat /\ Row(s) \in QuoteSnapshot /\ Numbered(log[s])
  BY CurrentQuoteType, EntryType DEF TickerInv, TypeOK, Store, Row
<1> QED
  BY <1>1, <1>2 DEF Shows, Row, Entry, Live, LiveIn

LEMMA LiveRows == TickerInv => LiveRowsAreQuotes
<1> SUFFICES ASSUME TickerInv, NEW s \in Symbols, Live(s)
             PROVE  \E n \in 1..Len(log[s]) : IsOfQuote(snapshots[s].value, log[s], n)
  BY DEF LiveRowsAreQuotes
<1> DEFINE n == Row(s).timestamp_ms
<1>1. /\ n \in 0..Len(log[s]) /\ n # 0 /\ Row(s) = snapshots[s] /\ Len(log[s]) \in Nat
      /\ ShowsAt(log[s], snapshots[s].value, n)
  BY RowsShow DEF Shows
<1> HIDE DEF n
<1>2. n \in 1..Len(log[s]) /\ Was(log[s], n) = log[s][n]
  BY <1>1 DEF Was
<1>3. IsOfQuote(snapshots[s].value, log[s], n)
  BY <1>1, <1>2 DEF ShowsAt, IsOfQuote
<1> QED
  BY <1>2, <1>3

\* A row that moves on to a later moment of its log takes no field back.
LEMMA FieldsForward ==
  ASSUME Orderly, TickerInv, [Next]_vars, EditsUnsubscribed,
         \A s \in Symbols : Shows(s) /\ Shows(s)'
  PROVE  \A s \in Keys(snapshots) \cap Keys(snapshots') : \A f \in Fields :
           snapshots[s].value[f] # None =>
             \/ /\ snapshots'[s].value[f] # None
                /\ snapshots[s].value[f] <= snapshots'[s].value[f]
             \/ snapshots'[s].value[f] = None /\ PullErases(f)
<1> SUFFICES ASSUME NEW s \in Keys(snapshots) \cap Keys(snapshots'), NEW f \in Fields,
                    snapshots[s].value[f] # None
             PROVE  \/ /\ snapshots'[s].value[f] # None
                       /\ snapshots[s].value[f] <= snapshots'[s].value[f]
                    \/ snapshots'[s].value[f] = None /\ PullErases(f)
  OBVIOUS
<1> DEFINE t   == Row(s).timestamp_ms
           u   == Row(s)'.timestamp_ms
           old == Row(s).value
           new == Row(s)'.value
           l2  == log'[s]
<1>1. s \in Symbols /\ old = snapshots[s].value /\ new = snapshots'[s].value
  BY DEF Keys, Shows
<1>2. /\ t <= u /\ Len(log[s]) <= Len(l2)
      /\ KeepsFields(old, new, main = "received" /\ main' = "subscribing")
      /\ \A n \in 1..Len(log[s]) : l2[n] = log[s][n]
  BY <1>1, TickerStep
<1>3. /\ t \in 0..Len(log[s]) /\ u \in 0..Len(l2) /\ ShowsAt(log[s], old, t) /\ ShowsAt(l2, new, u)
      /\ Len(log[s]) \in Nat /\ Len(l2) \in Nat /\ Numbered(l2)
  BY <1>1 DEF Shows
<1> HIDE DEF t, u, old, new, l2
<1>4. \/ new[f] # None /\ (f \notin PushFields => old[f] <= new[f])
      \/ new[f] = None /\ PullErases(f)
  BY <1>1, <1>2 DEF KeepsFields, PullErases
<1>5. CASE new[f] # None /\ f \in PushFields
  <2>1. old[f] = Was(log[s], t)[f] /\ new[f] = Was(l2, u)[f]
    BY <1>1, <1>3, <1>5 DEF ShowsAt
  <2>2. t # 0
    BY <1>1, <2>1 DEF Was
  <2>3. u \in 1..Len(l2) /\ t \in 1..u /\ t \in 1..Len(log[s]) /\ u # 0
    BY <1>2, <1>3, <2>2
  <2>4. old[f] = l2[t][f] /\ new[f] = l2[u][f]
    BY <1>2, <2>1, <2>2, <2>3 DEF Was
  <2>5. old[f] <= new[f]
    BY <1>3, <2>3, <2>4 DEF Numbered
  <2> QED
    BY <1>1, <1>5, <2>5
<1> QED
  BY <1>1, <1>4, <1>5

\* The steps of the pipeline are steps of the ticker.
LEMMA ShowsInTicker ==
  ASSUME NEW l, Len(l) \in Nat, NEW value \in [Fields -> Optional(Nat)], NEW n \in 0..Len(l),
         ShowsAt(l, value, n)
  PROVE  Ticker!Shows(value, l, n)
<1>1. Fields = PullFields \cup PushFields
  BY PipelineAssumption
<1>2. CASE n = 0
  <2>1. \A f \in Fields : value[f] = None
    BY <1>1, <1>2 DEF ShowsAt, Was
  <2>2. value = [f \in Fields |-> None]
    BY <1>1, <2>1
  <2> QED
    BY <1>1, <1>2, <2>2 DEF Ticker!Shows, Ticker!Nothing, Ticker!QuoteFields
<1>3. CASE n # 0
  <2>1. \A f \in PushFields : value[f] = l[n][f] \/ (f \notin PullFields /\ value[f] = None)
    BY <1>1, <1>3 DEF ShowsAt, Was
  <2>2. \A f \in Fields \ PushFields : value[f] # None => \E m \in 1..n : value[f] = l[m][f]
    BY <1>1 DEF ShowsAt
  <2> QED
    BY <1>1, <1>3, <2>1, <2>2 DEF Ticker!Shows, Ticker!QuoteFields
<1> QED
  BY <1>2, <1>3

LEMMA TickerInitMaps == Init => Ticker!Init
<1> SUFFICES ASSUME Init PROVE Ticker!Init
  OBVIOUS
<1>2. ASSUME NEW s \in Symbols
      PROVE  /\ Entry(snapshots, s).timestamp_ms = 0 /\ Live(s) = FALSE
             /\ Entry(snapshots, s).value = Ticker!Nothing
  <2>1. /\ EmptyMap \in Store /\ snapshots = SetWatchlist(EmptyMap, watchlist)
        /\ Entry(EmptyMap, s) = DefaultSnapshot /\ ~LiveIn(EmptyMap, s)
    BY EmptyMapType DEF Init, EmptyMap, Entry, LiveIn
  <2>2. SameRow(DefaultSnapshot, Entry(snapshots, s)) /\ ~LiveIn(snapshots, s)
    BY <2>1, RedrawnRow
  <2>3. DefaultSnapshot.value = Ticker!Nothing /\ DefaultSnapshot.timestamp_ms = 0
    BY PipelineAssumption DEF DefaultSnapshot, Ticker!Nothing, Ticker!QuoteFields
  <2> QED
    BY <2>2, <2>3 DEF SameRow, Live, LiveIn
<1>3. log = [s \in Symbols |-> <<[f \in Ticker!QuoteFields |-> 1]>>]
  BY PipelineAssumption DEF Init, Ticker!QuoteFields
<1> QED
  BY <1>2, <1>3 DEF Ticker!Init

LEMMA TickerNextMaps ==
  ASSUME Orderly, TickerInv, [Next]_vars, EditsUnsubscribed,
         \A s \in Symbols : Shows(s) /\ Shows(s)'
  PROVE  [Ticker!Next]_(Ticker!vars)
<1>1. TypeOK /\ Fields = Ticker!QuoteFields
  BY PipelineAssumption DEF TickerInv, Ticker!QuoteFields
<1> DEFINE moments == [s \in Symbols |-> Entry(snapshots, s).timestamp_ms]
           rows    == [s \in Symbols |-> Entry(snapshots, s).value]
           lives   == [s \in Symbols |-> Live(s)]
<1>2. CASE log' = log
  <2>1. ASSUME NEW s \in Symbols
        PROVE  /\ moments'[s] \in moments[s]..Len(log[s])
               /\ Ticker!Shows(rows'[s], log[s], moments'[s])
               /\ \A f \in Fields \ PushFields :
                    rows[s][f] # None => rows'[s][f] # None /\ rows[s][f] <= rows'[s][f]
               /\ lives'[s] => moments'[s] > 0
    <3>1. /\ moments[s] = Row(s).timestamp_ms /\ moments'[s] = Row(s)'.timestamp_ms
          /\ rows[s] = Row(s).value /\ rows'[s] = Row(s)'.value /\ lives'[s] = Live(s)'
      BY DEF Row
    <3> HIDE DEF moments, rows, lives
    <3>2. /\ moments[s] \in 0..Len(log[s]) /\ moments'[s] \in 0..Len(log[s])
          /\ (lives'[s] => moments'[s] # 0) /\ Len(log[s]) \in Nat
      BY <1>2, <3>1 DEF Shows
    <3>3. /\ moments[s] <= moments'[s]
          /\ KeepsFields(rows[s], rows'[s], main = "received" /\ main' = "subscribing")
      BY <3>1, TickerStep
    <3>4. \A f \in Fields \ PushFields :
            rows[s][f] # None => rows'[s][f] # None /\ rows[s][f] <= rows'[s][f]
      BY <3>3, PipelineAssumption DEF KeepsFields
    <3>5. Ticker!Shows(rows'[s], log[s], moments'[s])
      <4>1. Row(s)'.value \in [Fields -> Optional(Nat)] /\ Len(log'[s]) \in Nat
        BY DEF Shows, QuoteSnapshot
      <4>2. /\ Row(s)'.timestamp_ms \in 0..Len(log'[s])
            /\ ShowsAt(log'[s], Row(s)'.value, Row(s)'.timestamp_ms)
        BY DEF Shows
      <4> QED
        BY <1>2, <3>1, <4>1, <4>2, ShowsInTicker
    <3> QED
      BY <3>2, <3>3, <3>4, <3>5
  <2>2. Ticker!Follow
    BY <1>1, <1>2, <2>1 DEF Ticker!Follow, Ticker!Lags
  <2> QED
    BY <2>2 DEF Ticker!Next
<1>3. ASSUME NEW t \in Symbols, NEW F \in (SUBSET Fields) \ {{}}, NEW q \in Quote,
             F \cap PushFields # {}, Changes(log[t], F, q), UNCHANGED snapshots,
             log' = [log EXCEPT ![t] = Append(log[t], q)]
      PROVE  Ticker!Next
  <2>1. log[t] \in Seq(Quote) /\ Len(log[t]) \in Nat
    BY <1>1, CurrentQuoteType DEF TypeOK
  <2>2. /\ (Len(log[t]) + 1) - 1 = Len(log[t])
        /\ Last(log[t]) = log[t][(Len(log[t]) + 1) - 1]
    BY <2>1 DEF Last
  <2>3. Ticker!Change(t, F)
    BY <1>1, <1>3, <2>2 DEF Ticker!Change, Changes
  <2>4. UNCHANGED <<moments, rows, lives>>
    BY <1>3 DEF Live
  <2> QED
    BY <1>1, <1>3, <2>3, <2>4 DEF Ticker!Next
<1> QED
  BY <1>1, <1>2, <1>3, LogStep

-------------------------------------------------------------------------------
(* Theorems *)

\* While the connection is kept and ordered, and the list is not edited under a
\* subscription, a live row is of one quote the exchange had: the sparse pushes
\* that queue_quote_delta merges into a pulled snapshot never mix two moments.
\* What only pushes bring (session) may be missing, what only pulls bring
\* (previous_close) may be of an older quote.
THEOREM LiveRowsAreWhole ==
  ASSUME Orderly
  PROVE  Spec /\ ListKept => []LiveRowsAreQuotes
<1>1. TickerInv /\ [Next]_vars /\ [EditsUnsubscribed]_vars => TickerInv'
  BY TickerStep DEF EditsUnsubscribed, vars, streamVars
<1> QED
  BY <1>1, TickerInit, LiveRows, PTL DEF Spec, ListKept

\* Under the same conditions no field of a row goes back to an older value, and
\* none is lost but session when a pull is applied, whatever the interleaving of
\* pending pushes, their merging and pulls.
THEOREM FieldsGoForward ==
  ASSUME Orderly
  PROVE  Spec /\ ListKept => FieldsNeverRegress
<1>1. TickerInv /\ [Next]_vars /\ [EditsUnsubscribed]_vars => TickerInv'
  BY TickerStep DEF EditsUnsubscribed, vars, streamVars
<1> DEFINE AllShow == \A s \in Symbols : Shows(s)
<1>2. TickerInv => AllShow
  BY RowsShow
<1>3. TickerInv /\ AllShow /\ AllShow' /\ [Next]_vars /\ [EditsUnsubscribed]_vars
        => [watchlist \subseteq watchlist' =>
              \A s \in Keys(snapshots) \cap Keys(snapshots') : \A f \in Fields :
                snapshots[s].value[f] # None =>
                  \/ /\ snapshots'[s].value[f] # None
                     /\ snapshots[s].value[f] <= snapshots'[s].value[f]
                  \/ snapshots'[s].value[f] = None /\ PullErases(f)]_vars
  BY FieldsForward DEF EditsUnsubscribed, vars, streamVars
<1> HIDE DEF AllShow
<1> QED
  BY <1>1, <1>2, <1>3, TickerInit, PTL DEF Spec, ListKept, FieldsNeverRegress

\* Under the same conditions the pipeline implements the abstract ticker.
THEOREM PipelineFollowsTheTicker ==
  ASSUME Orderly
  PROVE  Spec /\ ListKept => FollowsTheTicker
<1>1. TickerInv /\ [Next]_vars /\ [EditsUnsubscribed]_vars => TickerInv'
  BY TickerStep DEF EditsUnsubscribed, vars, streamVars
<1> DEFINE AllShow == \A s \in Symbols : Shows(s)
<1>2. TickerInv => AllShow
  BY RowsShow
<1>3. TickerInv /\ AllShow /\ AllShow' /\ [Next]_vars /\ [EditsUnsubscribed]_vars
        => [Ticker!Next]_(Ticker!vars)
  BY TickerNextMaps DEF EditsUnsubscribed, vars, streamVars
<1> HIDE DEF AllShow
<1> QED
  BY <1>1, <1>2, <1>3, TickerInit, TickerInitMaps, PTL
  DEF Spec, ListKept, FollowsTheTicker, Ticker!Spec

===============================================================================
