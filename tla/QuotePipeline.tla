---------------------------- MODULE QuotePipeline ----------------------------
(***************************************************************************)
(* How a quote travels from the exchange to a row of the table.            *)
(*                                                                         *)
(*   exchange --push--> lb_quote_ws task --g_pending_quote_deltas--> main  *)
(*            <--QuotePull-- main --g_quote_store--> rows                  *)
(*                                                                         *)
(* Two tasks of the terminal are modelled.  The WebSocket task decodes a   *)
(* push and merges it into g_pending_quote_deltas under a mutex            *)
(* (queue_quote_delta).  The main task drains that map (process_quote_     *)
(* deltas), pulls whole snapshots and then subscribes (refresh_quotes),    *)
(* notices a dead stream (handle_quote_stream_state), marks old rows stale *)
(* and edits the watchlist.  Only the main task touches g_quote_store, so  *)
(* each of its operations on the store is one step; it is blocked while a  *)
(* pull is outstanding.  The module MainLoop fixes the order in which the  *)
(* main task calls them; here it may call them in any order.               *)
(*                                                                         *)
(* The exchange is external.  log[s][n] is the quote of s after its n-th   *)
(* change, and the value of a field in it is the number of the change that *)
(* last altered the field.  So a row of the table can be compared with the *)
(* quotes the exchange really had.                                         *)
(***************************************************************************)
EXTENDS QuoteStore, SequencesExt, FiniteSets

CONSTANTS
  PullFields,         \* the fields decode_security_quote reads: not session
  PushFields,         \* the fields decode_push_quote reads: not previous_close
  kMaxSymbols,        \* capacity of the pending map and of the watchlist
  kQuoteStaleAfterMs, \* age after which a row is marked stale
  Kinds,              \* the kinds of push the exchange sends: see Push
  Faults,             \* what may go wrong: see FaultNames
  MaxEvents,          \* bound: changes of a symbol
  MaxWire,            \* bound: messages in transit
  MaxTime,            \* bound: the clock
  MaxFailures         \* bound: faults of the kinds counted by Fault

\* Longbridge sends "sequenced" pushes; decode_push_quote leaves the sequence
\* or the timestamp absent when the message carries none.
KindNames == {"sequenced", "timestamped", "bare"}

\* "reorder": messages overtake each other; "linkloss": the connection drops or
\* is closed because a subscription failed; "timeout": queue_quote_delta does not
\* get its mutex within 20 ms; "pull": a QuotePull fails or is answered in part;
\* "edit": the user removes symbols, which closes the connection.
FaultNames == {"reorder", "linkloss", "timeout", "pull", "edit"}

\* The exchange quotes finitely many symbols, and one of the decoders reads each
\* field.
ASSUME PipelineAssumption ==
  /\ IsFiniteSet(Symbols) /\ Fields = PullFields \cup PushFields
  /\ kMaxSymbols \in Nat \ {0}
  /\ kQuoteStaleAfterMs \in Nat
  /\ Kinds \subseteq KindNames
  /\ Faults \subseteq FaultNames
  /\ MaxEvents \in Nat
  /\ MaxWire \in Nat
  /\ MaxTime \in Nat
  /\ MaxFailures \in Nat

VARIABLES
  log,        \* external: the quotes each symbol has had, the first being 1
  subscribed, \* external: "no", "owed" (the first push is due) or "yes"
  wire,       \* external: messages to the terminal, oldest first
  linked,     \* stream_connected_
  pending,    \* g_pending_quote_deltas
  dropped,    \* g_dropped_quote_delta_count
  snapshots,  \* g_quote_store.snapshots_
  watchlist,  \* g_settings.watchlist, which is also g_quote_store.order_
  streamKey,  \* g_stream_watchlist_key: the symbols subscribed, or {}
  online,     \* g_quote_stream_online
  main,       \* where the main task is: see MainStates
  reply,      \* the decoded rows of the answered pull
  now,        \* esp_timer_get_time
  failures,   \* how many of the MaxFailures have happened
  overflowed  \* history: symbols whose push found the map full, and whose row
              \* has not been updated since

exchangeVars == <<log, subscribed>>
queueVars    == <<pending, dropped, overflowed>>
streamVars   == <<streamKey, online>>
vars == <<exchangeVars, wire, linked, queueVars, snapshots, watchlist,
          streamVars, main, reply, now, failures>>

\* "loop": between operations; "refresh": refresh_quotes entered; "asked":
\* QuotePull sent; "answered": its answer is on the wire; "lost": the
\* connection died under it; "received": the answer arrived; "subscribing":
\* the snapshots are applied, ensure_quote_stream is next.
MainStates == {"loop", "refresh", "asked", "answered", "lost", "received", "subscribing"}

Fault(name) ==
  /\ name \in Faults
  /\ failures < MaxFailures
  /\ failures' = failures + 1

-------------------------------------------------------------------------------
(* The exchange *)

Quote == [Fields -> Nat]

CurrentQuote(s) == Last(log[s])

\* The value as a message shows it that has the given fields only.
Only(fields, value) == [f \in Fields |-> IF f \in fields THEN value[f] ELSE None]

Push(s, n, value, kind) ==
  [type  |-> "push", symbol |-> s,
   delta |-> [value          |-> Only(PushFields, value),
              timestamp_ms   |-> IF kind = "bare" THEN None ELSE n,
              received_at_ms |-> None,
              sequence       |-> IF kind = "sequenced" THEN n ELSE None]]

\* A row of SecurityQuoteResponse: the quote without the fields that only a push
\* brings, and without a sequence.
PulledRow(s) ==
  [value |-> Only(PullFields, CurrentQuote(s)), timestamp_ms |-> Len(log[s]),
   received_at_ms |-> 0, sequence |-> 0, stale |-> FALSE]

\* The fields F of s change; a subscriber is sent those of them that a push has.
\* What only a pull brings (the close of the day before) changes with the first
\* quote of a day, that is with fields that are pushed.
Publish(s, F) ==
  LET n == Len(log[s]) + 1 IN
  /\ n <= MaxEvents
  /\ F \cap PushFields # {}
  /\ log' = [log EXCEPT ![s] = Append(@, [f \in Fields |-> IF f \in F THEN n ELSE Last(@)[f]])]
  /\ \/ /\ subscribed[s] = "yes"
        /\ Len(wire) < MaxWire
        /\ \E kind \in Kinds :
             wire' = Append(wire,
                       Push(s, n, [f \in Fields |-> IF f \in F THEN n ELSE None], kind))
     \/ /\ subscribed[s] # "yes"
        /\ UNCHANGED wire
  /\ UNCHANGED <<subscribed, linked, queueVars, snapshots, watchlist, streamVars,
                 main, reply, now, failures>>

\* The push that is_first_push = true asks for: the whole current quote.
FirstPush(s) ==
  /\ subscribed[s] = "owed"
  /\ Len(wire) < MaxWire
  /\ subscribed' = [subscribed EXCEPT ![s] = "yes"]
  /\ \E kind \in Kinds : wire' = Append(wire, Push(s, Len(log[s]), CurrentQuote(s), kind))
  /\ UNCHANGED <<log, linked, queueVars, snapshots, watchlist, streamVars, main,
                 reply, now, failures>>

\* The answer to QuotePull has a row per symbol asked for; a failing exchange
\* may leave some out, but an empty answer is an error of the pull.
AnswerPull(rows) ==
  /\ main = "asked"
  /\ rows = watchlist \/ "pull" \in Faults
  /\ Len(wire) < MaxWire
  /\ wire' = Append(wire, [type |-> "reply",
                           rows |-> [s \in Symbols |-> IF s \in rows THEN PulledRow(s) ELSE None]])
  /\ main' = "answered"
  /\ UNCHANGED <<exchangeVars, linked, queueVars, snapshots, watchlist, streamVars,
                 reply, now, failures>>

Unsubscribed == [s \in Symbols |-> "no"]

\* The connection drops: what it carried and its subscriptions are gone, and a
\* pull under way will be told.
LoseLink ==
  /\ linked
  /\ Fault("linkloss")
  /\ linked' = FALSE
  /\ wire' = <<>>
  /\ subscribed' = Unsubscribed
  /\ main' = IF main \in {"asked", "answered"} THEN "lost" ELSE main
  /\ UNCHANGED <<log, queueVars, snapshots, watchlist, streamVars, reply, now>>

-------------------------------------------------------------------------------
(* The WebSocket task *)

\* The messages that may arrive next.
Arriving == IF "reorder" \in Faults THEN 1..Len(wire) ELSE 1..Len(wire) \cap {1}

\* Mutant: a second push of a symbol replaces the first instead of merging.
QueueQuoteDeltaReplaces(s, delta) ==
  /\ pending' = [pending EXCEPT ![s] = delta]
  /\ UNCHANGED <<dropped, overflowed, failures>>

\* queue_quote_delta; decode and callback stamp received_at_ms on the way.
QueueQuoteDelta(s, delta) ==
  \/ /\ pending[s] # None
     /\ pending' = [pending EXCEPT ![s] = MergeDelta(@, delta)]
     /\ UNCHANGED <<dropped, overflowed, failures>>
  \/ /\ pending[s] = None
     /\ Cardinality(Keys(pending)) < kMaxSymbols
     /\ pending' = [pending EXCEPT ![s] = delta]
     /\ UNCHANGED <<dropped, overflowed, failures>>
  \/ /\ pending[s] = None
     /\ Cardinality(Keys(pending)) >= kMaxSymbols
     /\ dropped' = dropped + 1
     /\ overflowed' = overflowed \cup {s}
     /\ UNCHANGED <<pending, failures>>
  \/ /\ Fault("timeout")
     /\ UNCHANGED queueVars

ReceivePush(i) ==
  /\ wire[i].type = "push"
  /\ QueueQuoteDelta(wire[i].symbol, [wire[i].delta EXCEPT !.received_at_ms = now])
  /\ wire' = RemoveAt(wire, i)
  /\ UNCHANGED <<exchangeVars, linked, snapshots, watchlist, streamVars, main, reply, now>>

ReceiveReply(i) ==
  /\ wire[i].type = "reply"
  /\ reply' = wire[i].rows
  /\ main' = "received"
  /\ wire' = RemoveAt(wire, i)
  /\ UNCHANGED <<exchangeVars, linked, queueVars, snapshots, watchlist, streamVars,
                 now, failures>>

\* handle_websocket_message ignores a response to no pending request.
DropLateReply(i) ==
  /\ wire[i].type = "late"
  /\ wire' = RemoveAt(wire, i)
  /\ UNCHANGED <<exchangeVars, linked, queueVars, snapshots, watchlist, streamVars,
                 main, reply, now, failures>>

-------------------------------------------------------------------------------
(* The main task *)

\* redraw_watchlist: set_watchlist, then the rows are shown.
Redraw(store) == SetWatchlist(store, watchlist)

\* Mutant: the count of dropped pushes is reset but not acted upon.
ProcessQuoteDeltasIgnoresDrops ==
  /\ main = "loop"
  /\ snapshots' = Redraw(ApplyDeltas(snapshots, pending))
  /\ overflowed' = overflowed \ {s \in Keys(pending) : ~Rejects(Entry(snapshots, s), pending[s])}
  /\ pending' = EmptyMap
  /\ dropped' = 0
  /\ UNCHANGED <<exchangeVars, wire, linked, watchlist, streamVars, main, reply, now, failures>>

\* process_quote_deltas: drain, mark everything stale if a push was dropped,
\* then apply what was pending.
ProcessQuoteDeltas ==
  /\ main = "loop"
  /\ snapshots' = Redraw(ApplyDeltas(IF dropped > 0 THEN MarkAllStale(snapshots) ELSE snapshots,
                                     pending))
  /\ overflowed' = overflowed \ {s \in Keys(pending) : ~Rejects(Entry(snapshots, s), pending[s])}
  /\ pending' = EmptyMap
  /\ dropped' = 0
  /\ UNCHANGED <<exchangeVars, wire, linked, watchlist, streamVars, main, reply, now, failures>>

\* The 60 s refresh, a retry, or the Refresh key.
StartRefresh ==
  /\ main = "loop"
  /\ main' = "refresh"
  /\ UNCHANGED <<exchangeVars, wire, linked, queueVars, snapshots, watchlist,
                 streamVars, reply, now, failures>>

\* fetch_quote_snapshots of an empty watchlist succeeds without asking.
SkipPull ==
  /\ main = "refresh"
  /\ watchlist = {}
  /\ main' = "loop"
  /\ UNCHANGED <<exchangeVars, wire, linked, queueVars, snapshots, watchlist,
                 streamVars, reply, now, failures>>

\* fetch_quote_snapshots connects if it must, then sends QuotePull.
SendPull ==
  /\ main = "refresh"
  /\ watchlist # {}
  /\ main' = "asked"
  /\ linked' = TRUE
  /\ UNCHANGED <<exchangeVars, wire, queueVars, snapshots, watchlist, streamVars,
                 reply, now, failures>>

\* Offline, no connection, a timeout or an undecodable answer.  An answer still
\* on the wire matches no pending request id any more.
PullFails ==
  /\ \/ /\ main \in {"refresh", "asked", "answered", "received"}
        /\ Fault("pull")
     \/ /\ main = "lost"
        /\ UNCHANGED failures
  /\ snapshots' = Redraw(MarkAllStale(snapshots))
  /\ wire' = [i \in 1..Len(wire) |->
                IF wire[i].type = "reply" THEN [wire[i] EXCEPT !.type = "late"] ELSE wire[i]]
  /\ main' = "loop"
  /\ reply' = EmptyMap
  /\ UNCHANGED <<exchangeVars, linked, queueVars, watchlist, streamVars, now>>

ApplyPull ==
  /\ main = "received"
  /\ snapshots' = Redraw(ApplySnapshots(snapshots,
                    [s \in Symbols |-> IF reply[s] = None THEN None
                                       ELSE [reply[s] EXCEPT !.received_at_ms = now]]))
  /\ overflowed' = overflowed \ Keys(reply)
  /\ main' = "subscribing"
  /\ reply' = EmptyMap
  /\ UNCHANGED <<exchangeVars, wire, linked, pending, dropped, watchlist,
                 streamVars, now, failures>>

StreamIsCurrent == linked /\ streamKey = watchlist

\* connect_quote_stream unless connected, then subscribe the whole watchlist.
Subscribe ==
  /\ ~StreamIsCurrent
  /\ linked' = TRUE
  /\ subscribed' = [s \in Symbols |-> IF s \in watchlist THEN "owed" ELSE subscribed[s]]
  /\ streamKey' = watchlist
  /\ online' = TRUE
  /\ UNCHANGED <<wire, failures>>

\* The connection cannot be made (online is left alone) or the subscription
\* fails, and the connection is closed.
SubscribeFails ==
  /\ ~StreamIsCurrent
  /\ Fault("linkloss")
  /\ linked' = FALSE
  /\ wire' = <<>>
  /\ subscribed' = Unsubscribed
  /\ streamKey' = {}
  /\ \/ online' = FALSE
     \/ ~linked /\ online' = online

EnsureQuoteStream ==
  /\ main = "subscribing"
  /\ main' = "loop"
  /\ \/ StreamIsCurrent /\ UNCHANGED <<subscribed, wire, linked, streamVars, failures>>
     \/ Subscribe
     \/ SubscribeFails
  /\ UNCHANGED <<log, queueVars, snapshots, watchlist, reply, now>>

\* handle_quote_stream_state
HandleQuoteStreamState ==
  /\ main = "loop"
  /\ \/ /\ linked
        /\ online' = TRUE
        /\ UNCHANGED <<streamKey, snapshots>>
     \/ /\ ~linked
        /\ online
        /\ online' = FALSE
        /\ streamKey' = {}
        /\ snapshots' = Redraw(MarkAllStale(snapshots))
  /\ UNCHANGED <<exchangeVars, wire, linked, queueVars, watchlist, main, reply, now, failures>>

SweepStale ==
  /\ main = "loop"
  /\ snapshots' = MarkStaleOlderThan(snapshots, now, kQuoteStaleAfterMs)
  /\ UNCHANGED <<exchangeVars, wire, linked, queueVars, watchlist, streamVars, main,
                 reply, now, failures>>

\* handle_add_symbol and handle_remove_symbol redraw and then refresh.
HandleAddSymbol(s) ==
  /\ main = "loop"
  /\ s \notin watchlist
  /\ Cardinality(watchlist) < kMaxSymbols
  /\ watchlist' = watchlist \cup {s}
  /\ snapshots' = SetWatchlist(snapshots, watchlist')
  /\ main' = "refresh"
  /\ UNCHANGED <<exchangeVars, wire, linked, queueVars, streamVars, reply, now, failures>>

HandleRemoveSymbol(s) ==
  /\ main = "loop"
  /\ s \in watchlist
  /\ Fault("edit")
  /\ watchlist' = watchlist \ {s}
  /\ snapshots' = SetWatchlist(EmptyMap, watchlist')
  /\ linked' = FALSE
  /\ wire' = <<>>
  /\ subscribed' = Unsubscribed
  /\ online' = FALSE
  /\ streamKey' = {}
  /\ main' = "refresh"
  /\ UNCHANGED <<log, queueVars, reply, now>>

Tick ==
  /\ now < MaxTime
  /\ now' = now + 1
  /\ UNCHANGED <<exchangeVars, wire, linked, queueVars, snapshots, watchlist,
                 streamVars, main, reply, failures>>

-------------------------------------------------------------------------------
\* Boot: a first quote of every symbol exists, nothing has been received.
Init ==
  /\ log = [s \in Symbols |-> <<[f \in Fields |-> 1]>>]
  /\ subscribed = Unsubscribed
  /\ wire = <<>>
  /\ linked = FALSE
  /\ pending = EmptyMap
  /\ dropped = 0
  /\ watchlist \in SUBSET Symbols
  /\ Cardinality(watchlist) <= kMaxSymbols
  /\ snapshots = SetWatchlist(EmptyMap, watchlist)
  /\ streamKey = {}
  /\ online = FALSE
  /\ main = "loop"
  /\ reply = EmptyMap
  /\ now = 1
  /\ failures = 0
  /\ overflowed = {}

Exchange ==
  \/ \E s \in Symbols, F \in (SUBSET Fields) \ {{}} : Publish(s, F)
  \/ \E s \in Symbols : FirstPush(s)
  \/ \E rows \in (SUBSET watchlist) \ {{}} : AnswerPull(rows)
  \/ LoseLink

WebSocketTask == \E i \in Arriving : ReceivePush(i) \/ ReceiveReply(i) \/ DropLateReply(i)

Main ==
  \/ ProcessQuoteDeltas
  \/ StartRefresh \/ SkipPull \/ SendPull \/ PullFails \/ ApplyPull \/ EnsureQuoteStream
  \/ HandleQuoteStreamState
  \/ SweepStale
  \/ \E s \in Symbols : HandleAddSymbol(s) \/ HandleRemoveSymbol(s)

Next == Exchange \/ WebSocketTask \/ Main \/ Tick

Spec == Init /\ [][Next]_vars

\* The WebSocket task and the exchange keep working, every iteration of the
\* main loop drains the pending deltas and looks at the stream, and a refresh
\* comes round every 60 s and runs to its end.
FairSpec ==
  /\ Spec
  /\ WF_vars(WebSocketTask)
  /\ \A s \in Symbols : WF_vars(FirstPush(s))
  /\ WF_vars(AnswerPull(watchlist))
  /\ SF_vars(ProcessQuoteDeltas)
  /\ SF_vars(HandleQuoteStreamState)
  /\ WF_vars(StartRefresh)
  /\ WF_vars(SkipPull)
  /\ WF_vars(SendPull)
  /\ WF_vars(PullFails)
  /\ WF_vars(ApplyPull)
  /\ WF_vars(EnsureQuoteStream)

-------------------------------------------------------------------------------
(* Properties *)

Message ==
  [type: {"push"}, symbol: Symbols, delta: QuoteDelta]
    \cup [type: {"reply", "late"}, rows: [Symbols -> Optional(QuoteSnapshot)]]

TypeOK ==
  /\ log \in [Symbols -> Seq(Quote) \ {<<>>}]
  /\ subscribed \in [Symbols -> {"no", "owed", "yes"}]
  /\ wire \in Seq(Message)
  /\ linked \in BOOLEAN
  /\ pending \in [Symbols -> Optional(QuoteDelta)]
  /\ dropped \in Nat
  /\ snapshots \in [Symbols -> Optional(QuoteSnapshot)]
  /\ watchlist \subseteq Symbols
  /\ streamKey \subseteq Symbols
  /\ online \in BOOLEAN
  /\ main \in MainStates
  /\ reply \in [Symbols -> Optional(QuoteSnapshot)]
  /\ now \in Nat
  /\ failures \in Nat
  /\ overflowed \subseteq Symbols

\* While the user removes nothing, no entry disappears from the store and the
\* sequence watermark of an entry never goes back: neither a snapshot (which
\* has no sequence), nor a late or merged push, nor staleness lowers it.
WatermarkMonotone ==
  [][watchlist \subseteq watchlist' =>
       \A s \in Keys(snapshots) :
         /\ s \in Keys(snapshots')
         /\ snapshots[s].sequence <= snapshots'[s].sequence]_vars

Live(s) == snapshots[s] # None /\ ~snapshots[s].stale

\* apply_snapshot erases what a pull does not carry.
PullErases(f) == f \notin PullFields /\ main = "received" /\ main' = "subscribing"

\* A field of a row never goes back to an older value, and never disappears but
\* for one that only pushes bring (session) when a pull is applied, while the user
\* removes nothing: whatever the interleaving of pending pushes, their merging,
\* and snapshots pulled meanwhile.
FieldsNeverRegress ==
  [][watchlist \subseteq watchlist' =>
       \A s \in Keys(snapshots) \cap Keys(snapshots') : \A f \in Fields :
         snapshots[s].value[f] # None =>
           \/ /\ snapshots'[s].value[f] # None
              /\ snapshots[s].value[f] <= snapshots'[s].value[f]
           \/ snapshots'[s].value[f] = None /\ PullErases(f)]_vars

\* The value a row shows is that of the n-th quote of l: in every field that pulls
\* and pushes bring, and in one that only pushes bring (session) if it is there.
\* One that only pulls bring (previous_close) may be of an older quote.
IsOfQuote(value, l, n) ==
  \A f \in Fields :
    \/ f \in PushFields /\ value[f] = l[n][f]
    \/ f \notin PullFields /\ value[f] = None
    \/ f \notin PushFields /\ value[f] \in {l[m][f] : m \in 1..n} \cup {None}

\* A row shown as live is of one quote that the exchange really had: the sparse
\* pushes merged into a snapshot never mix the fields of two moments.
LiveRowsAreQuotes ==
  \A s \in Symbols :
    Live(s) => \E n \in 1..Len(log[s]) : IsOfQuote(snapshots[s].value, log[s], n)

Ticker == INSTANCE QuoteTicker WITH
            moment <- [s \in Symbols |-> Entry(snapshots, s).timestamp_ms],
            row    <- [s \in Symbols |-> Entry(snapshots, s).value],
            live   <- [s \in Symbols |-> Live(s)]

\* The pipeline implements the abstract ticker: a row is of the quote its own
\* timestamp names, and only moves forward through the quotes the exchange had.
FollowsTheTicker == Ticker!Spec

\* A symbol whose push found the pending map full is not shown as live once
\* the main task has learnt of the overflow, until it is updated again.
OverflowMarksStale ==
  dropped = 0 => \A s \in overflowed : ~Live(s)

\* A connected stream whose key is that of the watchlist has a subscription
\* for every watched symbol.
KeyedStreamIsSubscribed ==
  (main = "loop" /\ linked /\ streamKey = watchlist) =>
    \A s \in watchlist : subscribed[s] # "no"

\* The table has one row per watched symbol and no other.
RowsAreWatched ==
  OrderedSnapshots(snapshots, watchlist) = watchlist

\* When the exchange stops changing and faults stop, every row of the table
\* ends up, and stays, equal to the exchange's quote in the fields a pull brings;
\* what only a push brings (session) ends absent or right, never wrong.
EventuallySynced ==
  <>[](\A s \in watchlist : \A f \in Fields :
         \/ snapshots[s].value[f] = CurrentQuote(s)[f]
         \/ f \notin PullFields /\ snapshots[s].value[f] = None)
===============================================================================
