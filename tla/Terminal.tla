------------------------------- MODULE Terminal -------------------------------
(***************************************************************************)
(* The user in front of the terminal: TerminalUi of ui/terminal_ui.cpp and *)
(* the slots and handlers of app_main.cpp behind it.                       *)
(*                                                                         *)
(* The LVGL task turns gestures into changes of the widgets and, for the   *)
(* buttons, into actions waiting for the main task: one slot per kind of   *)
(* action, under g_action_mutex (queue_setup_save and so on).  Once a      *)
(* second the main task takes all slots and handles what was in them in a  *)
(* fixed order (process_pending_actions); then it applies the pushes,      *)
(* looks at Wi-Fi and stream, ages the rows and refreshes them.  Every     *)
(* redraw replaces all widgets.  A handler is cut where it blocks (saving, *)
(* joining, disconnecting, calling the server), since the LVGL task goes   *)
(* on meanwhile.                                                           *)
(*                                                                         *)
(* Wi-Fi, stream and server are taken from MainLoop and QuotePipeline as   *)
(* what they may answer; of a row only its symbol and whether it is live   *)
(* are kept.  The texts of errors and of the status line are left out.     *)
(***************************************************************************)
EXTENDS Watchlist

CONSTANTS
  None,            \* std::nullopt, nullptr
  Chars,           \* printable characters
  kInputMaxLength, \* input_max_length_for, of the inputs of both screens
  DefaultList,     \* of seed_default_watchlist
  BootLists,       \* the watchlists a device may boot with, seeded if empty
  BootForms,       \* its other settings
  Faults,          \* what may go wrong: see FaultNames
  MaxFailures,     \* bound: how often
  MaxActs          \* bound: what the user does

\* "busy": the mutex of the slots is not obtained in 100 ms, or that of the pushes in
\* 20 ms; "flash": settings cannot be written or erased; "push": a push is dropped;
\* "wifi": the connection to the access point is not made or lost; "stream": the stream
\* ends; "call": the server does not answer, or not for all symbols.
FaultNames == {"busy", "flash", "push", "wifi", "stream", "call"}

\* The text inputs of the setup screen; the one of the watchlist is "symbol".
Inputs  == {"ssid", "password", "app_key", "app_secret", "access_token"}
ApiKey  == {"app_key", "app_secret", "access_token"}
Regions == {"Global", "MainlandChina"}

\* The settings but for the watchlist, and what the setup screen shows of them.
Form == [text : [Inputs -> Seq(Chars)], endpoint : Regions]

NewForm == [text |-> [i \in Inputs |-> <<>>], endpoint |-> "Global"]

\* A ticker has at most 16 characters.
ASSUME TerminalAssumption ==
  /\ IsFiniteSet(Symbols)
  /\ None \notin Inputs \cup {"save", "remove"}
  /\ kInputMaxLength \in [Inputs \cup {"symbol"} -> Nat]
  /\ \A n \in 0..kInputMaxLength["symbol"] : [1..n -> Chars] \subseteq Texts
  /\ IsWatchlist(DefaultList) /\ DefaultList \in Seq(Symbols) /\ DefaultList # <<>>
  /\ \A list \in BootLists : IsWatchlist(list) /\ list \in Seq(Symbols) /\ list # <<>>
  /\ BootForms \subseteq Form
  /\ Faults \subseteq FaultNames
  /\ MaxFailures \in Nat /\ MaxActs \in Nat

VARIABLES
  settings,     \* g_settings but for the watchlist
  watchlist,    \* g_settings.watchlist
  store,        \* g_quote_store: "absent", "stale" or "live" for each symbol
  deltas,       \* symbols in g_pending_quote_deltas
  dropped,      \* g_dropped_quote_delta_count is not 0
  batch,        \* what process_quote_deltas took and has not yet applied
  wifiStarted,  \* g_wifi_started
  wifiOnline,   \* g_wifi_online
  connected,    \* g_longbridge.quote_stream_connected()
  subscribed,   \* external: the symbols the server pushes over the stream
  streamOnline, \* g_quote_stream_online
  mode,         \* mode_, "none" before the first screen
  rows,         \* rows_, and so the table
  selected,     \* selected_row_index_
  detail,       \* the row described beside the table, None if there is none
  form,         \* the inputs and the dropdown of the setup screen
  input,        \* input_text_
  focus,        \* the object of focus_group_ that gets the keys
  pending,      \* g_pending_setup, ..._add_symbol and so on
  taken,        \* what process_pending_actions took and has not yet dealt with
  main,         \* where the main task is
  after,        \* where it goes on after a refresh
  failures,     \* how many of the MaxFailures have happened
  acts,         \* how many of the MaxActs have
  edited,       \* history: what the user has changed in the form since it was shown
  crossed       \* history: a setup was queued while a setup or a reset was under way

dataVars    == <<settings, watchlist>>
pushVars    == <<deltas, dropped, batch>>
storeVars   == <<store, pushVars>>
netVars     == <<wifiStarted, wifiOnline, connected, subscribed, streamOnline>>
tableVars   == <<rows, selected, detail>>
entryVars   == <<form, input, focus, edited>>
screenVars  == <<mode, tableVars, entryVars>>
actionVars  == <<pending, taken, crossed>>
controlVars == <<main, after>>
boundVars   == <<failures, acts>>
vars == <<dataVars, storeVars, netVars, screenVars, actionVars, controlVars, boundVars>>

Kinds == {"setup", "add", "remove", "refresh", "reset"}

NoActions == [kind \in Kinds |-> None]

\* Where the main task may be: between the steps of app_main and inside of those
\* that block.
MainStates == {"boot", "sleep", "setup", "setupSave", "setupShow", "add", "addSave",
               "remove", "removed", "refresh", "reset", "erase",
               "deltas", "apply", "wifi", "stream", "sweep", "scheduled",
               "pull", "pulling", "subscribe"}

Fault(name) ==
  /\ name \in Faults
  /\ failures < MaxFailures
  /\ failures' = failures + 1
  /\ UNCHANGED acts

NoFault == UNCHANGED boundVars

WifiSet(f)  == f.text["ssid"] # <<>>
ApiKeySet(f) == \A i \in ApiKey : f.text[i] # <<>>

-------------------------------------------------------------------------------
(* The quote store, of which QuoteStore has the rest *)

Known(s) == {symbol \in Symbols : s[symbol] # "absent"}

MarkStale(s, symbols) ==
  [symbol \in Symbols |-> IF symbol \in symbols \cap Known(s) THEN "stale" ELSE s[symbol]]

Enliven(s, symbols) == [symbol \in Symbols |-> IF symbol \in symbols THEN "live" ELSE s[symbol]]

SetWatchlist(s, list) ==
  [symbol \in Symbols |->
     IF s[symbol] = "absent" /\ symbol \in Range(list) THEN "stale" ELSE s[symbol]]

\* After set_watchlist every symbol of the list has an entry.  Without a list all
\* entries are shown, in the order of the map.
OrderedSnapshots(s, list) ==
  LET order == IF list = <<>> THEN SetToSeq(Known(s)) ELSE list
  IN  [i \in DOMAIN order |-> [symbol |-> order[i], live |-> s[order[i]] = "live"]]

-------------------------------------------------------------------------------
(* The screens *)

\* The objects that get a place in the focus group, in the order of add_focus.
SetupObjects == <<"ssid", "password", "endpoint", "app_key", "app_secret", "access_token",
                  "save", "reset">>
WatchlistObjects == <<"table", "refresh", "remove", "reset", "symbol", "add">>

Objects(screen) ==
  CASE screen = "setup"     -> SetupObjects
    [] screen = "watchlist" -> WatchlistObjects
    [] OTHER                -> <<>>

\* Mutant: the inputs that hide what is typed are left empty.
FilledWithoutSecrets(f) ==
  [f EXCEPT !.text = [i \in Inputs |->
     IF i \in {"password", "app_secret", "access_token"} THEN <<>> ELSE f.text[i]]]

\* What create_input and the dropdown are given.
Filled(f) == f

\* Whatever has been typed so far is gone.
ResetContent ==
  /\ input' = <<>>
  /\ edited' = {}

\* show_setup keeps rows_ and the selection, but no widget of the watchlist.
ShowSetup(f) ==
  /\ mode' = "setup"
  /\ ResetContent
  /\ form' = Filled(f)
  /\ focus' = "ssid"
  /\ detail' = None
  /\ UNCHANGED <<rows, selected>>

\* update_detail_text
Detail(table, index) ==
  IF table = <<>> THEN None
  ELSE table[(IF index < Len(table) THEN index ELSE Len(table) - 1) + 1].symbol

\* Mutant: the selection is not brought back into the table.
SelectionUnclamped(table) == selected

SelectionIn(table) ==
  IF selected < Len(table) THEN selected ELSE IF table = <<>> THEN 0 ELSE Len(table) - 1

\* show_watchlist and build_watchlist_table
ShowWatchlist(table) ==
  /\ mode' = "watchlist"
  /\ rows' = table
  /\ selected' = SelectionIn(table)
  /\ detail' = Detail(table, selected')
  /\ ResetContent
  /\ form' = NewForm
  /\ focus' = "symbol"

\* redraw_watchlist, with the store that is to be shown.
RedrawWatchlist(s) ==
  /\ store' = SetWatchlist(s, watchlist)
  /\ ShowWatchlist(OrderedSnapshots(store', watchlist))

-------------------------------------------------------------------------------
(* The LVGL task: what the user does *)

Act ==
  /\ acts < MaxActs
  /\ acts' = acts + 1

Gesture ==
  UNCHANGED <<dataVars, storeVars, netVars, mode, rows, taken, controlVars>>

\* queue_setup_save, queue_add_symbol, queue_remove_symbol, queue_flag: an action that is
\* waiting is replaced, and if the mutex is not obtained the new one is lost.
Queue(kind, value) ==
  \/ pending' = [pending EXCEPT ![kind] = value] /\ UNCHANGED failures
  \/ /\ "busy" \in Faults /\ failures < MaxFailures
     /\ failures' = failures + 1
     /\ UNCHANGED pending

\* History, queued along with a removal: the symbol described beside the button,
\* and whether there was one, the table agreed with the watchlist and nothing that
\* changes its order was under way.
TableAgrees ==
  \A i \in DOMAIN rows : i \in DOMAIN watchlist /\ rows[i].symbol = watchlist[i]

Chosen == [index  |-> selected,
           symbol |-> detail,
           sure   |-> /\ detail # None /\ TableAgrees
                      /\ taken["remove"] = None /\ taken["reset"] = None]

\* With the setup goes, as history, what of it the user has changed.
Entered == [form |-> form, edited |-> edited]

\* Where ENTER leads: save_setup_from_controls, add_symbol_from_input and the
\* callbacks of the buttons.  The input is emptied whether or not its text was
\* queued.
Activate(object) ==
  \/ /\ object \in Inputs \cup {"save"}
     /\ Queue("setup", Entered)
     /\ crossed' = (crossed \/ taken["setup"] # None \/ taken["reset"] # None)
     /\ UNCHANGED input
  \/ /\ object \in {"symbol", "add"}
     /\ Queue("add", input)
     /\ input' = <<>>
     /\ UNCHANGED crossed
  \/ object = "remove" /\ Queue("remove", Chosen) /\ UNCHANGED <<input, crossed>>
  \/ object \in {"refresh", "reset"} /\ Queue(object, TRUE) /\ UNCHANGED <<input, crossed>>

PressEnter ==
  /\ Act
  /\ Activate(focus)
  /\ Gesture
  /\ UNCHANGED <<selected, detail, form, focus, edited>>

\* A tap on an object takes the focus there; on a button it is a click as well.
Tap ==
  /\ Act
  /\ \E object \in Range(Objects(mode)) :
       /\ focus' = object
       /\ \/ object \in {"save", "add", "remove", "refresh", "reset"} /\ Activate(object)
          \/ object \in Inputs \cup {"symbol"} /\ UNCHANGED <<pending, crossed, failures, input>>
  /\ Gesture
  /\ UNCHANGED <<selected, detail, form, edited>>

\* LV_KEY_NEXT and LV_KEY_PREV: the focus goes round.
MoveFocus ==
  /\ Act
  /\ \E i \in DOMAIN Objects(mode), step \in {1, Len(Objects(mode)) - 1} :
       /\ Objects(mode)[i] = focus
       /\ focus' = Objects(mode)[((i - 1 + step) % Len(Objects(mode))) + 1]
  /\ Gesture
  /\ UNCHANGED <<selected, detail, form, input, edited, pending, crossed, failures>>

\* What a printable key, backspace and escape make of a text.
Typed(object, text) ==
  {Append(text, char) : char \in IF Len(text) < kInputMaxLength[object] THEN Chars ELSE {}}

Erased(text) == IF text = <<>> THEN {} ELSE {Front(text), <<>>}

\* handle_input_key
Type ==
  /\ Act
  /\ \/ /\ focus = "symbol"
        /\ input' \in Typed(focus, input) \cup Erased(input)
        /\ UNCHANGED <<form, edited>>
     \/ /\ focus \in Inputs
        /\ \E text \in Typed(focus, form.text[focus]) \cup Erased(form.text[focus]) :
             form' = [form EXCEPT !.text[focus] = text]
        /\ edited' = edited \cup {focus}
        /\ UNCHANGED input
  /\ Gesture
  /\ UNCHANGED <<selected, detail, focus, pending, crossed, failures>>

ChooseEndpoint ==
  /\ Act
  /\ mode = "setup"
  /\ \E region \in Regions : form' = [form EXCEPT !.endpoint = region]
  /\ edited' = edited \cup {"endpoint"}
  /\ focus' = "endpoint"
  /\ Gesture
  /\ UNCHANGED <<selected, detail, input, pending, crossed, failures>>

\* update_selected_row_from_table; a tap on the header changes nothing.
SelectRow ==
  /\ Act
  /\ mode = "watchlist"
  /\ \E row \in DOMAIN rows : selected' = row - 1 /\ detail' = Detail(rows, row - 1)
  /\ focus' = "table"
  /\ Gesture
  /\ UNCHANGED <<form, input, edited, pending, crossed, failures>>

User == PressEnter \/ Tap \/ MoveFocus \/ Type \/ ChooseEndpoint \/ SelectRow

-------------------------------------------------------------------------------
(* The WebSocket task *)

\* queue_quote_delta: a map that is full drops what it has no entry for.
Push ==
  /\ connected
  /\ \E symbol \in subscribed :
       \/ /\ symbol \in deltas \/ Cardinality(deltas) < kMaxSymbols
          /\ deltas' = deltas \cup {symbol}
          /\ NoFault
          /\ UNCHANGED dropped
       \/ /\ symbol \notin deltas
          /\ Cardinality(deltas) >= kMaxSymbols
          /\ dropped' = TRUE
          /\ Fault("push")
          /\ UNCHANGED deltas
  /\ UNCHANGED <<dataVars, store, batch, netVars, screenVars, actionVars, controlVars>>

StreamEnds ==
  /\ connected
  /\ Fault("stream")
  /\ connected' = FALSE
  /\ subscribed' = {}
  /\ UNCHANGED <<dataVars, storeVars, wifiStarted, wifiOnline, streamOnline, screenVars,
                 actionVars, controlVars>>

-------------------------------------------------------------------------------
(* The main task: process_pending_actions *)

Goto(label) == main' = label /\ UNCHANGED after

Disconnect ==
  /\ connected' = FALSE
  /\ subscribed' = {}
  /\ streamOnline' = FALSE
  /\ UNCHANGED wifiStarted

DropStream == Disconnect /\ UNCHANGED wifiOnline

Done(kind) == taken' = [taken EXCEPT ![kind] = None] /\ UNCHANGED <<pending, crossed>>

\* Nothing of this kind was taken.
Skip(kind, next) ==
  /\ main = kind
  /\ taken[kind] = None
  /\ Goto(next)
  /\ UNCHANGED <<dataVars, storeVars, netVars, screenVars, actionVars, boundVars>>

TakeActions ==
  /\ main = "sleep"
  /\ \/ taken' = pending /\ pending' = NoActions /\ NoFault
     \/ UNCHANGED <<pending, taken>> /\ Fault("busy")
  /\ Goto("setup")
  /\ UNCHANGED <<dataVars, storeVars, netVars, screenVars, crossed>>

\* handle_setup_save, up to the disconnection.
HandleSetup ==
  /\ main = "setup" /\ taken["setup"] # None
  /\ settings' = taken["setup"].form
  /\ \/ /\ settings'.endpoint = settings.endpoint
        /\ \A i \in ApiKey : settings'.text[i] = settings.text[i]
        /\ UNCHANGED netVars
     \/ /\ \/ settings'.endpoint # settings.endpoint
           \/ \E i \in ApiKey : settings'.text[i] # settings.text[i]
        /\ DropStream
  /\ Goto("setupSave")
  /\ UNCHANGED <<watchlist, storeVars, screenVars, actionVars, boundVars>>

\* The save and start_wifi_sta.
SaveSetup ==
  /\ main = "setupSave"
  /\ \/ /\ Fault("flash")
        /\ Done("setup")
        /\ Goto("add")
        /\ UNCHANGED netVars
     \/ /\ ~WifiSet(settings)
        /\ Goto("setupShow")
        /\ NoFault
        /\ UNCHANGED <<netVars, actionVars>>
     \/ /\ WifiSet(settings)
        /\ wifiStarted' = TRUE
        /\ \/ wifiOnline' = TRUE /\ NoFault
           \/ wifiOnline' = FALSE /\ Fault("wifi")
        /\ IF wifiOnline' /\ ApiKeySet(settings)
           THEN main' = "pull" /\ after' = "setupShow"
           ELSE Goto("setupShow")
        /\ UNCHANGED <<connected, subscribed, streamOnline, actionVars>>
  /\ UNCHANGED <<dataVars, storeVars, screenVars>>

ShowSavedSetup ==
  /\ main = "setupShow"
  /\ ShowSetup(settings)
  /\ Done("setup")
  /\ Goto("add")
  /\ UNCHANGED <<dataVars, storeVars, netVars, boundVars>>

HandleAdd ==
  /\ main = "add" /\ taken["add"] # None
  /\ \/ /\ Parse[taken["add"]] # Invalid
        /\ AddResult(watchlist, Parse[taken["add"]]) = "Added"
        /\ watchlist' = Append(watchlist, Parse[taken["add"]])
        /\ Goto("addSave")
        /\ UNCHANGED actionVars
     \/ /\ Parse[taken["add"]] # Invalid => AddResult(watchlist, Parse[taken["add"]]) # "Added"
        /\ Done("add")
        /\ Goto("remove")
        /\ UNCHANGED watchlist
  /\ UNCHANGED <<settings, storeVars, netVars, screenVars, boundVars>>

\* save_settings_and_redraw: the table shows the symbol whether or not it was saved.
SaveAdded ==
  /\ main = "addSave"
  /\ NoFault \/ Fault("flash")
  /\ RedrawWatchlist(store)
  /\ Done("add")
  /\ main' = "pull" /\ after' = "remove"
  /\ UNCHANGED <<dataVars, pushVars, netVars>>

\* Mutant: which row is selected is looked up when the removal is handled.
HandleRemoveSelected ==
  /\ main = "remove" /\ taken["remove"] # None
  /\ \/ /\ selected < Len(watchlist)
        /\ watchlist' = Removed(watchlist, watchlist[selected + 1])
        /\ store' = [symbol \in Symbols |-> "absent"]
        /\ DropStream
        /\ Goto("removed")
        /\ UNCHANGED actionVars
     \/ /\ selected >= Len(watchlist)
        /\ Done("remove")
        /\ Goto("refresh")
        /\ UNCHANGED <<watchlist, store, netVars>>
  /\ UNCHANGED <<settings, pushVars, screenVars, boundVars>>

\* handle_remove_symbol, up to the disconnection.
HandleRemove ==
  /\ main = "remove" /\ taken["remove"] # None
  /\ \/ /\ taken["remove"].index < Len(watchlist)
        /\ watchlist' = Removed(watchlist, watchlist[taken["remove"].index + 1])
        /\ store' = [symbol \in Symbols |-> "absent"]
        /\ DropStream
        /\ Goto("removed")
        /\ UNCHANGED actionVars
     \/ /\ taken["remove"].index >= Len(watchlist)
        /\ Done("remove")
        /\ Goto("refresh")
        /\ UNCHANGED <<watchlist, store, netVars>>
  /\ UNCHANGED <<settings, pushVars, screenVars, boundVars>>

SaveRemoved ==
  /\ main = "removed"
  /\ NoFault \/ Fault("flash")
  /\ RedrawWatchlist(store)
  /\ Done("remove")
  /\ main' = "pull" /\ after' = "refresh"
  /\ UNCHANGED <<dataVars, pushVars, netVars>>

HandleRefresh ==
  /\ main = "refresh" /\ taken["refresh"] # None
  /\ Done("refresh")
  /\ main' = "pull" /\ after' = "reset"
  /\ UNCHANGED <<dataVars, storeVars, netVars, screenVars, boundVars>>

HandleReset ==
  /\ main = "reset" /\ taken["reset"] # None
  /\ DropStream
  /\ Goto("erase")
  /\ UNCHANGED <<dataVars, storeVars, screenVars, actionVars, boundVars>>

\* The rest of handle_reset_settings: rows and pushes are not cleared.
EraseSettings ==
  /\ main = "erase"
  /\ \/ /\ settings' = NewForm
        /\ watchlist' = DefaultList
        /\ ShowSetup(NewForm)
        /\ NoFault
     \/ Fault("flash") /\ UNCHANGED <<dataVars, screenVars>>
  /\ Done("reset")
  /\ Goto("deltas")
  /\ UNCHANGED <<storeVars, netVars>>

PendingActions ==
  \/ TakeActions
  \/ Skip("setup", "add") \/ HandleSetup \/ SaveSetup \/ ShowSavedSetup
  \/ Skip("add", "remove") \/ HandleAdd \/ SaveAdded
  \/ Skip("remove", "refresh") \/ HandleRemove \/ SaveRemoved
  \/ Skip("refresh", "reset") \/ HandleRefresh
  \/ Skip("reset", "deltas") \/ HandleReset \/ EraseSettings

-------------------------------------------------------------------------------
(* The main task: the rest of a round *)

\* process_quote_deltas, up to the redraw after an overflow.
TakeQuoteDeltas ==
  /\ main = "deltas"
  /\ \/ /\ batch' = deltas /\ deltas' = {} /\ dropped' = FALSE
        /\ \/ dropped /\ RedrawWatchlist(MarkStale(store, Symbols))
           \/ ~dropped /\ UNCHANGED <<store, screenVars>>
        /\ NoFault
     \/ UNCHANGED <<storeVars, screenVars>> /\ Fault("busy")
  /\ Goto("apply")
  /\ UNCHANGED <<dataVars, netVars, actionVars>>

\* The rest of it: pushes that are older than their rows change nothing.
ApplyQuoteDeltas ==
  /\ main = "apply"
  /\ batch' = {}
  /\ \E applied \in SUBSET batch :
       /\ batch \ Known(store) \subseteq applied
       /\ \/ applied # {} /\ RedrawWatchlist(Enliven(store, applied))
          \/ applied = {} /\ UNCHANGED <<store, screenVars>>
  /\ Goto("wifi")
  /\ UNCHANGED <<dataVars, deltas, dropped, netVars, actionVars, boundVars>>

ProcessQuoteDeltas == TakeQuoteDeltas \/ ApplyQuoteDeltas

\* handle_wifi_state; a station that was never started is not connected.
HandleWifi ==
  /\ main = "wifi"
  /\ \/ /\ wifiOnline' = wifiStarted
        /\ NoFault
        /\ UNCHANGED <<store, wifiStarted, connected, subscribed, streamOnline, screenVars>>
     \/ /\ wifiStarted /\ ~wifiOnline
        /\ NoFault
        /\ UNCHANGED <<store, netVars, screenVars>>
     \/ /\ wifiOnline
        /\ Fault("wifi")
        /\ Disconnect /\ wifiOnline' = FALSE
        /\ RedrawWatchlist(MarkStale(store, Symbols))
  /\ Goto("stream")
  /\ UNCHANGED <<dataVars, pushVars, actionVars>>

\* handle_quote_stream_state
HandleStream ==
  /\ main = "stream"
  /\ streamOnline' = connected
  /\ \/ /\ connected \/ ~streamOnline
        /\ UNCHANGED <<store, screenVars>>
     \/ /\ ~connected /\ streamOnline
        /\ RedrawWatchlist(MarkStale(store, Symbols))
  /\ Goto("sweep")
  /\ UNCHANGED <<dataVars, pushVars, wifiStarted, wifiOnline, connected, subscribed,
                 actionVars, boundVars>>

\* Mutant: rows that have grown old are shown so at the next redraw.
SweepUnseen ==
  /\ main = "sweep"
  /\ \E old \in SUBSET {symbol \in Symbols : store[symbol] = "live"} :
       store' = MarkStale(store, old)
  /\ Goto("scheduled")
  /\ UNCHANGED <<dataVars, pushVars, netVars, screenVars, actionVars, boundVars>>

\* mark_stale_older_than: any of the rows that are live may have grown old.
Sweep ==
  /\ main = "sweep"
  /\ \E old \in SUBSET {symbol \in Symbols : store[symbol] = "live"} :
       \/ old # {} /\ RedrawWatchlist(MarkStale(store, old))
       \/ old = {} /\ UNCHANGED <<store, screenVars>>
  /\ Goto("scheduled")
  /\ UNCHANGED <<dataVars, pushVars, netVars, actionVars, boundVars>>

\* run_scheduled_quote_refresh, which may or may not be due.
RunScheduledRefresh ==
  /\ main = "scheduled"
  /\ \/ ApiKeySet(settings) /\ wifiStarted /\ main' = "pull" /\ after' = "sleep"
     \/ Goto("sleep")
  /\ UNCHANGED <<dataVars, storeVars, netVars, screenVars, actionVars, boundVars>>

-------------------------------------------------------------------------------
(* The main task: refresh_quotes *)

Return == main' = after /\ UNCHANGED after

StartPull ==
  /\ main = "pull"
  /\ \/ ~ApiKeySet(settings) /\ Return /\ NoFault /\ UNCHANGED <<store, screenVars>>
     \/ /\ ApiKeySet(settings)
        /\ \/ ~wifiStarted /\ NoFault
           \/ Fault("wifi")
        /\ RedrawWatchlist(MarkStale(store, Symbols))
        /\ Return
     \/ /\ ApiKeySet(settings) /\ wifiStarted
        /\ Goto("pulling")
        /\ NoFault
        /\ UNCHANGED <<store, screenVars>>
  /\ UNCHANGED <<dataVars, pushVars, netVars, actionVars>>

\* fetch_quote_snapshots connects if it has to, and an answer has some of the
\* rows; nothing is asked about an empty list.
Pull ==
  /\ main = "pulling"
  /\ \/ /\ Fault("call")
        /\ RedrawWatchlist(MarkStale(store, Symbols))
        /\ Return
        /\ connected' \in {connected, TRUE}
     \/ /\ \E answered \in SUBSET Range(watchlist) :
             /\ watchlist # <<>> => answered # {}
             /\ RedrawWatchlist(Enliven(store, answered))
             /\ \/ answered = Range(watchlist) /\ NoFault
                \/ answered # Range(watchlist) /\ Fault("call")
        /\ Goto("subscribe")
        /\ connected' = (connected \/ watchlist # <<>>)
  /\ UNCHANGED <<dataVars, pushVars, subscribed, streamOnline, wifiStarted, wifiOnline,
                 actionVars>>

\* ensure_quote_stream: what is subscribed already is not subscribed again.  A
\* connection that is not made leaves g_quote_stream_online as it is.
Subscribe ==
  /\ main = "subscribe"
  /\ \/ /\ watchlist = <<>> \/ connected
        /\ NoFault
        /\ UNCHANGED <<connected, subscribed, streamOnline>>
     \/ /\ watchlist # <<>>
        /\ connected' = TRUE /\ subscribed' = Range(watchlist) /\ streamOnline' = TRUE
        /\ NoFault
     \/ /\ watchlist # <<>>
        /\ Fault("call")
        /\ connected' = FALSE /\ subscribed' = {}
        /\ streamOnline' = FALSE \/ (~connected /\ UNCHANGED streamOnline)
  /\ Return
  /\ UNCHANGED <<dataVars, storeVars, wifiStarted, wifiOnline, screenVars, actionVars>>

\* app_main: the first screen.
Boot ==
  /\ main = "boot"
  /\ \/ /\ WifiSet(settings) /\ ApiKeySet(settings)
        /\ RedrawWatchlist(store)
        /\ wifiStarted' = TRUE
        /\ \/ wifiOnline' = TRUE /\ NoFault
           \/ wifiOnline' = FALSE /\ Fault("wifi")
        /\ main' = "pull"
        /\ UNCHANGED after
     \/ /\ ~(WifiSet(settings) /\ ApiKeySet(settings))
        /\ ShowSetup(settings)
        /\ Goto("sleep")
        /\ NoFault
        /\ UNCHANGED <<store, wifiStarted, wifiOnline>>
  /\ UNCHANGED <<dataVars, pushVars, connected, subscribed, streamOnline, actionVars>>

MainTask ==
  \/ Boot \/ PendingActions
  \/ ProcessQuoteDeltas \/ HandleWifi \/ HandleStream \/ Sweep \/ RunScheduledRefresh
  \/ StartPull \/ Pull \/ Subscribe

-------------------------------------------------------------------------------
Init ==
  /\ settings \in BootForms /\ watchlist \in BootLists
  /\ store = SetWatchlist([symbol \in Symbols |-> "absent"], watchlist)
  /\ deltas = {} /\ dropped = FALSE /\ batch = {}
  /\ wifiStarted = FALSE /\ wifiOnline = FALSE
  /\ connected = FALSE /\ subscribed = {} /\ streamOnline = FALSE
  /\ mode = "none" /\ rows = <<>> /\ selected = 0 /\ detail = None
  /\ form = NewForm /\ input = <<>> /\ focus = None /\ edited = {}
  /\ pending = NoActions /\ taken = NoActions /\ crossed = FALSE
  /\ main = "boot" /\ after = "sleep"
  /\ failures = 0 /\ acts = 0

Next == User \/ Push \/ StreamEnds \/ MainTask

Spec == Init /\ [][Next]_vars

-------------------------------------------------------------------------------
(* Properties *)

\* The state has the types of the code, texts are within their limits, and the
\* focus is on an object of the screen.
TypeOK ==
  /\ settings \in Form
  /\ watchlist \in Seq(Symbols)
  /\ store \in [Symbols -> {"absent", "stale", "live"}]
  /\ deltas \subseteq Symbols /\ dropped \in BOOLEAN /\ batch \subseteq Symbols
  /\ wifiStarted \in BOOLEAN /\ wifiOnline \in BOOLEAN
  /\ connected \in BOOLEAN /\ streamOnline \in BOOLEAN
  /\ subscribed \subseteq Symbols
  /\ mode \in {"none", "setup", "watchlist"}
  /\ rows \in Seq([symbol : Symbols, live : BOOLEAN])
  /\ selected \in Nat
  /\ detail \in Symbols \cup {None}
  /\ form \in Form
  /\ input \in Seq(Chars) /\ Len(input) <= kInputMaxLength["symbol"]
  /\ focus \in Range(Objects(mode)) \cup {None}
  /\ edited \subseteq Inputs \cup {"endpoint"} /\ crossed \in BOOLEAN
  /\ main \in MainStates
  /\ after \in {"sleep", "setupShow", "remove", "refresh", "reset"}
  /\ failures \in Nat /\ acts \in Nat

\* The text beside the buttons describes the row that Remove would take: whatever
\* redraws and selections come in which order, the selection is a row of the table
\* and the description is of that row.
DescribesWhatIsRemoved ==
  mode = "watchlist" =>
    \/ rows = <<>> /\ detail = None
    \/ selected < Len(rows) /\ detail = rows[selected + 1].symbol

\* Between two rounds the table shows the rows of the watchlist in its order, each
\* as live or stale as the store has it: no handler changes list or store without
\* a redraw, except the reset, which shows the other screen.
TableShowsStore ==
  main = "sleep" /\ mode = "watchlist" => rows = OrderedSnapshots(store, watchlist)

\* A removal takes the symbol that was described beside the button when the user
\* pressed it, however much later it is handled, unless the table was empty or behind
\* or a removal or a reset under way at that moment.
RemovesTheChosen ==
  [][main = "remove" /\ main' = "removed" /\ taken["remove"].sure =>
       watchlist' = Removed(watchlist, taken["remove"].symbol)]_vars

\* Saving the setup changes only what the user changed on the screen, secrets included,
\* unless a setup was saved into a save or a reset under way.
UntouchedSettingsKept ==
  [][main = "setup" /\ main' = "setupSave" /\ ~crossed =>
       /\ \A i \in Inputs \ taken["setup"].edited : settings'.text[i] = settings.text[i]
       /\ "endpoint" \notin taken["setup"].edited => settings'.endpoint = settings.endpoint]_vars
===============================================================================
