# Verification of the Tab5 Longbridge stock terminal

TLA+ models, TLC runs and TLAPS proofs about the firmware of the Tab5 stock
terminal (`src/`): a device that joins a Wi-Fi network, connects to the
Longbridge quote gateway over one WebSocket, and shows a watchlist of live
quotes. The code is some 9 400 lines of C++; most of what can go wrong in it is
in how its tasks meet.

Contents: [the system](#the-system) · [modules](#modules) ·
[how the models correspond to the code](#how-the-models-correspond-to-the-code) ·
[runs](#runs) · [findings](#findings) · [fairness](#fairness) · [proofs](#proofs) ·
[what is only model-checked](#what-is-only-model-checked) ·
[what is not modelled](#what-is-not-modelled) · [plan](#plan)

To check: `tlc -config <run>.cfg <module>` for the runs listed below, and
`tlapm <module>.tla` for the modules named `...Proofs`.

## The system

### Tasks

| task | runs | shares with the main task |
| --- | --- | --- |
| main | `app_main`: boot, then one round per second of actions, deltas, Wi-Fi, stream, sweep, refresh | everything |
| `lb_quote_ws` | callbacks of `esp_websocket_client`: `handle_websocket_event` | the atomics, the event group and the pending answer of `LongbridgeClient`; `g_pending_quote_deltas` under `g_quote_delta_mutex`; `g_connection_status` unprotected |
| event task | `wifi_event_handler` | the event group `g_wifi_events` |
| LVGL | widgets and their callbacks | the pending actions under `g_action_mutex`; the widgets under `DisplayLock` |
| keyboard task, GPIO interrupt | reading keys over I2C | the key queue |
| httpd | the handlers of the SD file manager | the card, mounted per request |

### Components

| component | state | operations | what makes it correct |
| --- | --- | --- | --- |
| quote store (`quotes/quote_store.cpp`) | a snapshot per symbol, their order | merge, apply, mark stale, order | a row never goes back, never mixes two quotes, is not live when it is not known to be |
| quote pipeline (`main/app_main.cpp`) | pending deltas, dropped count, key of the subscription | queue, drain, pull, subscribe, add, remove | whatever arrives in whatever order, rows end equal to the exchange; only watched rows are shown |
| stream client (`longbridge/longbridge_client.cpp`) | connection flag, client handle, event bits, pending request and answer | connect, authenticate, request, answer, disconnect | an answer belongs to its request; a failure leaves nothing behind that blocks the next connection |
| frames and payloads (`longbridge/protocol.cpp`, `quote_codec.cpp`) | request id | encode, decode | decoding inverts encoding; ids are not 0 |
| API signing, endpoints (`longbridge/api_auth.cpp`, `endpoint.cpp`, `auth/sha256.cpp`) | none | sign, hash | equal to the published algorithms |
| symbols, watchlist (`quotes/symbol.cpp`) | at most 500 symbols | parse, add, remove, move, serialise | no duplicates, within the limit, what is saved is what is loaded |
| settings (`settings/*`, import in `main`) | NVS keys, the file on the card | load, save, reset, import | what runs is what was saved, also after a restart in between |
| main loop (`main/app_main.cpp`) | Wi-Fi bits and flags, backoffs, schedule, pending actions | start, reconnect, refresh, setup, reset | the terminal comes back on line; credentials and stream agree |
| SD file manager (`sd_file_manager/`) | the card, one session per request | list, create, save, upload, delete | no file is lost by replacing it |
| keyboard (`main/app_main.cpp`) | modifiers, key queue | read, translate, queue | keys keep their order |
| UI (`ui/terminal_ui.cpp`) | screen, rows, selection | show, select, edit | an action applies to the row the user chose |
| display (`esp_lcd_st7121`, `main`) | none to speak of | initialise | a fixed command sequence |

### How they interact

```
 user -> LVGL task --slots--> main task --settings--> NVS
                               |   ^  \
            g_wifi_events      |   |   \ requests          answers, pushes
 Wi-Fi driver -> event task ---+   |    +------> gateway -----> lb_quote_ws task
                                   |                              |  event group, pending answer
                     quote store <-+---- g_pending_quote_deltas <-+
```

### What is hard here

* A push races a pull: the snapshot on its way may be older or newer than the
  pushes that are pending, and the snapshot carries no sequence.
* Pushes of one symbol are merged before they are applied, so the order test of
  the store sees only the result.
* A request is answered in another task, through four separate variables. Its
  timeout, the answer, the end of the connection and the next request may all
  meet.
* `esp_websocket_client_stop` waits for a task that may be just setting the
  flag which says that there is a connection.
* The Wi-Fi bits are set by one task and read, cleared and waited for by
  another, and events tell the past.
* Whether anything is scheduled that brings the quotes back, after any
  sequence of failures.

The hazards with their lines are in `PROJECT.json` (`hazards`), each with the
properties that cover it, or with why none does yet.

## Modules

| module | models | size of the code it stands for |
| --- | --- | --- |
| `QuoteStore` | the quote store as operators on rows | `quote_store.cpp` |
| `QuoteTicker` | abstract: what the table promises | |
| `QuotePipeline` | exchange, WebSocket task and main task from push to row; EXTENDS `QuoteStore`; implements `QuoteTicker` | the quote functions of `app_main.cpp`, the message handler, presence of fields in `quote_codec.cpp` |
| `StreamClient` | `LongbridgeClient` and its two tasks, one step per access to shared state | `longbridge_client.cpp` |
| `Backoff` | `BackoffPolicy` as operators | `protocol.cpp` |
| `MainLoop` | Wi-Fi, settings, schedule and stream state of the main task, with driver and event task; EXTENDS `Backoff` | the Wi-Fi, setup and schedule functions of `app_main.cpp` |
| `SdFiles` | the SD file manager, one step per call of the file system | `sd_file_manager.cpp` |
| `Watchlist` | the watchlist as operators on sequences of symbols | `symbol.cpp` (`Watchlist`) |
| `AppSettings` | the settings as a function from NVS keys; EXTENDS `Watchlist` | `app_settings.hpp` |
| `SettingsFile` | the parser of the settings file, on lines; EXTENDS `AppSettings` | `settings_file.cpp` |
| `Settings` | load, save, reset, import and the user's changes, one step per NVS call of a save; EXTENDS `AppSettings` | `settings_store.cpp`, the import and the user's handlers of `app_main.cpp` |
| `Terminal` | the user, both screens and their redraws, the slots between the LVGL task and the main task, and a round of the main loop around them; EXTENDS `Watchlist` | `terminal_ui.cpp`, the slots and handlers of `app_main.cpp` |
| `Keyboard` | the keyboard on its bus, the task that polls it, the key queue and the callback that reads it, one step per register access or queue call | the keyboard functions of `app_main.cpp` |
| `Frames` | encoding and decoding of a frame, on bytes | `protocol.cpp` |
| `SecuritySymbol` | reading and writing of one symbol, on characters | `symbol.cpp` (`SecuritySymbol`) |
| `QuoteCodec` | the protobuf payloads, on bytes; EXTENDS `SecuritySymbol` | `quote_codec.cpp` |
| `Receiver` | what the client reads chunk by chunk and writes; EXTENDS `Frames`, `QuoteCodec` | the message handler of `longbridge_client.cpp` |
| `MCQuotePipeline`, `MCStreamClient`, `MCMainLoop`, `MCSdFiles`, `MCSettings`, `MCTerminal`, `MCKeyboard`, `MCReceiver` | instances for TLC; `MCSettings` gets its files from `SettingsFile` | |
| `QuotePipelineProofs`, `StreamClientProofs`, `MainLoopProofs`, `SdFilesProofs`, `SettingsProofs`, `KeyboardProofs`, `TerminalProofs`, `ReceiverProofs` | theorems | |

Three of the state machines cut the system by question. `StreamClient` asks what
one request can do and is given one that comes round. `QuotePipeline` asks what
happens to quotes, takes requests as sent, answered, late or lost, and lets the
main task call its operations in any order. `MainLoop` fixes that order and
asks when there are refreshes at all; a refresh is one step with the outcomes
that the other two show it to have. What one takes for granted the others
check: a late answer is dropped by its id (`DropLateReply`) as far as `OwnAnswer` holds, and
a refresh may leave the stream unused, connected or dropped (`RefreshFails`) as `StreamClient`
leaves it.

`Settings` is the other half of the user's handlers: `handle_setup_save`, `handle_add_symbol`,
`handle_remove_symbol` and `handle_reset_settings` store something and then act on the network.
`Settings` has the first part call by call; `MainLoop` and `QuotePipeline` have the second, and
take the save for one step that succeeds or fails. All three cover the same handlers, each
with what the others leave out. `Terminal` is what the user sees of them: which action is in
which slot when which screen is shown. It has the handlers once more, cut only where they block,
and of Wi-Fi, stream and quotes just enough for their redraws to come when they come in the code.
`Keyboard` ends where `Terminal` begins, with a key in the hands of LVGL. `Receiver` is the inside
of two steps of `StreamClient`: a frame arrives, a frame is sent. `SdFiles` stands apart: the file
manager shares nothing with the other tasks but the card.

## How the models correspond to the code

`PROJECT.json` (`map`) names the lines of every definition. The choices that a
reader should know:

**QuoteStore.** A row is a record of the optional fields of `QuoteSnapshot`;
`Fields` stands for the value fields (prices, volumes, session and so on), which the store treats
alike; where they come from differs (`QuotePipeline`). `None` is `std::nullopt`. Each C++ function is an operator from rows to
rows. The name and the market of a row are left out.

**QuotePipeline.** The exchange is external. The value of a field is the number
of the change that last altered it, so the model can tell of every row which
quote it shows. No message has all fields: a pull has no session (`decode_security_quote`) and a push no
previous close (`decode_push_quote`), so there are `PullFields` and `PushFields`, which share the rest.
What only a pull brings is taken to change together with something pushed: a new day begins with a quote.
The exchange is taken to send a field whatever its value, so that absence means "unchanged".
`wire` is what is on its way; `Arriving` is its head or, with
the fault "reorder", any message. `pending` and `dropped` are
`g_pending_quote_deltas` and its counter; a drain (`ProcessQuoteDeltas`) takes
all of it, applies it, marks all rows stale if something was dropped, and
redraws, in one step, because the map is taken under its mutex and only the
main task touches the store. A pull is three steps (sent, answered, applied),
between which pushes may arrive. `failures` counts faults. Symbols may be removed and added in between.

**StreamClient.** One step per access to an atomic, to the event group or to
the pending answer, in both tasks; `handler` and `main` say where they are. The
event group is modelled with what FreeRTOS does when bits are set while a task
waits: it is woken with the bits of that moment, and the bits it waited for are
cleared if it asked for that. `disconnect` is three steps, of which the last
waits for the callback to return. Ids count up to `IdModulus` and skip 0. The
connection, the socket token and the meaning of answers are external.

`SlowHandler` says whether a callback may be held up between comparing an id
and storing the answer until main has sent its next request. The callback does not wait in
between, so this takes another task, or an interrupt, that holds it up while
main runs on the other core; with `SlowHandler = FALSE` the next request waits
until the callback is done.

**MainLoop.** One step per access to the Wi-Fi bits, since the event task may
run in between, and one per blocking call. Times are counted in rounds and kept
as what is left of them; a deadline of 0 in the code ("as soon as possible") and one that has
passed are both 0. `Durations` are how long a blocking call may take, so that deadlines may
pass meanwhile. `station` and `events` are the driver's; a handler's clear and
set of the bits are two steps (`BeginEvent`, `EndEvent`). `attempts` and `since` are history for the backoff,
`saved` says whether the user was told that the settings are saved: where the
save fails the code gives up, and the user has to start again. Abstracted: the
text of errors and status lines, the watchlist (`QuotePipeline` has it), SNTP,
mDNS and the file manager, which only log.

**SdFiles.** The card is a function from paths to entries: nothing, a folder, a
file with a content, or a file written in part (`Torn`). Paths are of two kinds, those a
request may name and the temporary names at the root that
`make_root_temp_path` chooses among. One step per call of the VFS, in the order of
the handlers, because each may fail and the power may end after each; the card
is mounted per request, and httpd serves one request at a time. FATFS is
external: its rename does not replace a file that is there, which is why the code
moves the old file away first, and a rename is taken to be atomic. A failed lookup reads
as "no such file" (`path_exists`), as in the code. `kept`, `before` and
`unclean` are history: the content last stored under each path, what the request
found, and whether a call that was to clean up failed (the unmount, the removal of a temporary file or
of a backup, the moving back) or the power ended. Left out: reading and listing, the token, and
the receipt of the body, which ends before anything is written.

**Watchlist, AppSettings, SettingsFile.** Symbols and texts are opaque: `Value` is
`SecuritySymbol::value`, `Parse` is `SecuritySymbol::parse`, about which only
`Parse[Value[s]] = s` is assumed. `Deserialize` skips what cannot be read, what is
there already and what is too much, as the code does; `AddTexts` is a recursive function, about which
induction can say something. `Removed` takes out the one position of the symbol, since no list has a
symbol twice. `move` is not modelled: nothing calls it.
What `Parse` and `Value` do to characters is in `SecuritySymbol`. A
line of the settings file is a key, which stands for all its spellings, and a
trimmed value; warnings are left out.

**Settings.** NVS is external. `flash` has the fields by key, with `Blank` for a missing key, since
`get_string` returns an empty string for it. It does the same for a string that cannot be read
(`settings_store.cpp:36-44`), and `load` succeeds all the same: any of the strings that are there may be
missed so (fault "read"). If NVS cannot be opened at boot, all are (fault "open"); `app_main` goes on
with empty settings and tells nobody (`app_main.cpp:2721`). `unread` has the keys missed at this boot and not
yet written or erased. `flashList` is the string under "watchlist" by lines. A key that
was written stays written, whether or not `nvs_commit` follows, and a string
in NVS has at most 4000 bytes, here room for `MaxStored` symbols. `SaveSteps` are the
calls of `SettingsStore::save` in their order; each may fail, after which
`save` returns, and the power may end after each. The schema key, which nothing
reads, is left out. An erase that fails or is interrupted leaves any of the
keys. `card` is the first readable of the four files, parsed; it may change
whenever the power is off. `unread`, `unsaved`, `torn` and `mixed` are history: of the last three,
the first says that a save or reset failed and the user was told so, the others that NVS, and that
`g_settings`, may hold parts of two API keys or a part of one. `initialize`, which erases all of NVS where
it has no free pages or another version, is not modelled.

**Terminal.** `pending` has the five slots of `app_main.cpp`, `taken` what `process_pending_actions`
moved out of them and has not yet dealt with; an action of a kind that is waiting already is
replaced, as in the code, and one whose mutex is not obtained in 100 ms is lost. The handlers run
one after the other and are cut where they block (the save, the join, the disconnection, a call of
the server), so that the user acts in between. A redraw (`ShowSetup`, `ShowWatchlist`) builds all
widgets anew: it empties the input, fills the form from the settings, puts the focus where the code
does and moves the selection back into the table. `process_quote_deltas` is two steps, as it may redraw
twice, after an overflow and after applying the pushes (`batch`). Of a row the model keeps its symbol and whether it
is live. The text of an input is a sequence over one character, so it is its length that counts.
`edited`, `crossed` and `sure` are history: which fields the user changed since the form was filled,
whether a form was saved while an earlier one or a reset was under way, and whether the row the user
saw was the row at that index.

**Keyboard.** One step per access to a register of the device and per call on the queue. The device
is external: it appends an event and sets a status bit while the user types in Key mode, a change of
its mode empties its events, the register of another mode reads empty, and a read that fails may or
may not have taken the event. The interrupt is not modelled, as it only shortens the 20 ms wait
between two polls, nor are allocations that fail at boot. A key is sent with what the user meant by
it (`meant`), history that the driver does not look at; `unsure` has the modifiers about which the driver
may be wrong: an event of theirs was lost, none was made because the device was taken off or in another mode,
or they were active when `configure_tab5_keyboard_device` forgot them.

**Frames, SecuritySymbol, QuoteCodec, Receiver.** Bytes are numbers below 256, and encoding and
decoding are what the code does to them. Two widths are constants, scaled down in the run since TLC's
integers have 32 bits: varints to 16 bits and field numbers to 8, so that both are exceeded; the largest
payload has 22 bytes there. The theorems hold for the widths of the code too. The chain of comparisons of
field numbers in each decoder is a `schema`: the names of the fields, and which of them are decimals.
`strtod` is known for texts made of digits, a status or session stays a number. The
library hands over chunks, of up to three bytes in the run, with their offset in
the WebSocket frame; a message may be fragmented into two such frames. What the gateway sends is a sequence
of entries, and what it means by them (`Says`) is stated of the entries, without bytes: which
symbol a text names is `Spells`.

## Runs

All pass runs visit every reachable state of their instance; the largest has
some three million.

| run | question | bounds, and why they are enough |
| --- | --- | --- |
| `pipeline_ordered` | Is a live row always of one quote the exchange had, do fields never go back, do the rows implement `QuoteTicker`, over a connection that keeps up? | one symbol (rows do not interact but for the size of the map), three fields (one that both bring, one only pushed, one only pulled), four changes, two messages in transit, one failing pull: two pushes merged while a pull is out, on each side of it |
| `pipeline_faults` | What holds with every fault and every kind of push? | two symbols and a pending map of one, so that it overflows; two failures, so that one strikes during the recovery from another |
| `pipeline_liveness` | Do rows end equal to the exchange, but for a session that may be missing? | three fields as above, three changes, one failure of any kind |
| `pipeline_unsubscribed` | finding | the one fault it needs |
| `stream_requests` | Does each request take its own answer, does no flag or id outlive what it stands for, do refreshes succeed once failures are over, but for the flag that a connection made too late leaves set? | ids modulo 7, so that no id comes round while an answer to it may still arrive, starting at 0 and just before the wrap; two failures of any kind |
| `loop_online` | Do the bits end up telling the truth, is no failure lost, is the backoff kept, does a connected stream belong to the settings, is the terminal on line with a live stream again and again? | two failures of the access point, the driver, the join, the stream, a refresh or the flash, so that one strikes during the recovery from another; delays of 1, 2 and 3 rounds, so that the limit is reached; one action of the user, with two sets of credentials |
| `files` | Is a file ever lost or seen in part, does the answer tell what happened, is anything left behind though no clean-up failed? | three paths, one of them in a folder of another; three temporary names; three contents; three failing calls per request, enough for the save, the moving back and the clean-up to fail at once; the power cut anywhere |
| `settings` | Does a restart bring back what runs, unless the user was told otherwise or it could not be read at boot? Are API keys ever mixed, does an import keep the key it must not touch, is the watchlist proper wherever it comes from? | two setups that differ in every field; four kinds of files: complete, without an API key, with an OAuth token, with a part of a key; three symbols for a list of two, with two spellings of one and a text of none; one failing call, the power cut anywhere, and three boots, so that a save is interrupted, then imported over, then loaded; two actions of the user |
| `settings_full` | finding | a list of three, of which NVS can hold two; no fault |
| `terminal` | Is the row that is described the one Remove takes, and the one that is removed when the main task comes to it? Does the table show the store, does a saved setup change only what the user changed? | three gestures, so that one is made while an earlier one is handled and a third after it; one failure of any kind; a list of two out of three symbols; texts of up to two characters. The same holds with four gestures and with five without a failure, which takes longer than the run may |
| `keyboard` | Does a key keep the layer it was typed in and its place, does it arrive, is it lost only where the code drops it, is the status line right in the end? | two presses of a key that both layers change, two changes of modifiers and a poll of two events, so that an event is left for the next poll; a queue of one, so that it overflows; two failures, as many as it takes for the keyboard to count as lost; `RightKey` and `TypedInOrder` are proved for any set of keys |
| `formats` | Does the client make of every message what it says, or refuse it as a whole, does it make nothing of one in fragments, and does the gateway read what the client wrote? | some 200 payloads: every kind of field before and after the symbol, values of one and two bytes and of the full width, wrong types, cut ends, spellings; chunks of one to three bytes cut anywhere, two fragments cut anywhere, four kinds of damage, a close frame, a lost connection |

Every bound is a constant named in the module that declares it.

## Findings

Where the code does something else than its documents, comments or messages
say; each is a counterexample of a run.

| run | what happens |
| --- | --- |
| `pipeline_unsubscribed` | `fetch_quote_snapshots` reconnects by itself; `ensure_quote_stream` (`app_main.cpp:2335`) then takes the new connection for the old one and never subscribes. The 60 s pull still brings quotes, which is why `EventuallySynced` holds. |
| `settings_full` | The documented limit of 500 symbols does not fit into the one NVS string they are written to (`settings_store.cpp:172`): from some 400 symbols on every save fails, after having written all other keys. |

More that the models reach and no run is spent on, with the instance that shows it:

* A connection made just after its 15 s were over leaves `stream_connected_` set without a client
  (`longbridge_client.cpp:496`); every refresh fails from then on, until something else calls
  `disconnect`. `ConnectedHasClient` and `RefreshSucceeds` except exactly this flag (`late`,
  `FlagLeftSet`) and fail without the exception, with one failure.
* If the transport does not come up at boot, nothing tries it again (`app_main.cpp:2492`):
  `StreamComesLive` fails in `MainLoop` with the fault "hosted", one failure and no edit.
* A setup saved while connected reports a failure at once: the disconnection that `start_wifi_sta`
  causes sets the failure bit after it was cleared (`app_main.cpp:1439`). `JoinFailsForAReason`
  fails in `MainLoop` without any fault, with one edit.
* A callback held up after it matched an id stores its answer into the next request
  (`longbridge_client.cpp:675`): `OwnAnswer` fails with `SlowHandler = TRUE`.
* `merge_delta` (`quote_store.cpp:43`) lends an old push the sequence of a newer one, so that an
  older value overwrites a newer one: `FieldsNeverRegress` fails with the fault "reorder".
* Pending deltas survive the loss of the connection (`app_main.cpp:2209`) and are applied after the
  snapshot of the next, which has no sequence to stop them: `FieldsNeverRegress` fails with the
  fault "linkloss" too.
* Every pull, that is every 60 s, erases the session that a push had set: the answer has none
  (`quote_codec.cpp:187`), `apply_snapshot` replaces the row (`quote_store.cpp:113`), and the details of the row show
  nothing (`terminal_ui.cpp:527`) until a push brings the session again. `FieldsNeverRegress` and
  `EventuallySynced` fail with "session" in `Fields` if they do not except it, as they do.
* A push never brings the previous close (`quote_codec.cpp:338`): after the first push of a new day the
  change is reckoned from the close of the day before (`quote_store.cpp:29`) until the next pull, in a row
  that is shown as live. `LiveRowsAreQuotes` excepts this, too.
* A symbol added under a subscription and a Refresh tapped are both handled in one call of
  `process_pending_actions` (`app_main.cpp:2639`), before `process_quote_deltas` (`app_main.cpp:2756`):
  the second pull may bring a newer quote of another symbol than its pending push, whose first push was
  owed again by the new subscription; the old one is then applied over it, until the next push.
  `FieldsNeverRegress` fails in `pipeline_ordered` with two symbols and room for both; it holds, and is
  proved, as long as the list is edited only while nothing is subscribed.
* After the last symbol was removed, a pending push brings its row back (`quote_store.cpp:216`):
  `RowsAreWatched` fails with the fault "edit".

What the models of the user's side reach besides; where a property would fail on it, it is named
there as an exception:

* Remove queues an index (`app_main.cpp:2605`). Pressed again before the removal is handled, while a
  reset is under way, or on an empty table to which a symbol is just being added, it removes a
  symbol that the user did not see described.
* A string of the settings that cannot be read at boot counts as empty, and nobody is told
  (`settings_store.cpp:36`, `app_main.cpp:2721`): the terminal runs with a part of an API key, with no Wi-Fi, or with
  the default watchlist, and the next save, of an added symbol say, writes the empty string over the
  one that is stored. `CredentialsSurviveRestart`, `WatchlistSurvivesRestart` and `ApiKeyIsWhole` except
  what was not read (`unread`) and fail without the exception.
* A Save that is pressed while a reset or another save is under way sends the old settings of a form
  that was filled before, and undoes it.
* After a reset a redraw of the main loop shows the watchlist in place of the
  setup screen, though nothing is configured, and any redraw empties what the user is typing.
* Of two symbols entered within a round the first is lost (one slot), though its input was emptied.
* A key may be dropped from a full queue although its reader has made room meanwhile
  (`app_main.cpp:1789`). A keyboard taken off and put back within five polls is not noticed, and its
  modifiers stay as they were.
* A close frame with a code is decoded as a message and sets the error bit; a fragmented message is
  lost as a whole (`longbridge_client.cpp:644`).

## Fairness

* `QuotePipeline!FairSpec`: the main task keeps calling its operations, the
  WebSocket task takes what arrives, the exchange answers. The loop calls every
  operation in every round or on a deadline that comes, which `MainLoop` shows.
* `StreamClient!FairSpec`: weak fairness of both tasks. FreeRTOS is preemptive
  and all waits of the client have timeouts; the server answers or the
  connection ends. Nothing is assumed about failures: they are bounded, and
  what is claimed is what happens after the last.
* `MainLoop!FairSpec`: weak fairness of the main task, the event task and the
  driver (an attempt ends in a connection or an event), and of the WebSocket
  task noticing a dead connection, which its pings do.

* `Keyboard!FairSpec`: weak fairness of the keyboard task, which waits 20 ms at most and
  whose accesses have timeouts, and of the callback, which LVGL's timer calls.

`Terminal`, `Receiver`, `Settings` and `SdFiles` claim nothing that needs fairness. No action of a
user is fair, and no fault.

## Proofs

All proofs are checked for every value of the constants that satisfies the
assumption of the module (`PipelineAssumption`, `StreamAssumption`,
`LoopAssumption`, `FilesAssumption`, `SettingsAssumption`, `KeyboardAssumption`,
`TerminalAssumption`, `ReceiverAssumption` and the others of `Receiver`, `Frames` and
`QuoteCodec`). These ask for

* natural numbers, a base delay that is not 0, and policies as the constructor of
  `BackoffPolicy` makes them;
* symbols that are finitely many, since a ticker has at most 16 characters (`symbol.cpp:35`), and
  that are read as they are written; fields each of which a pull or a push brings;
* files as the parser returns them: `~touched` means no API key, "Ok" means complete, the list is a
  proper watchlist. TLC checks this of those that `SettingsFile` makes;
* names of inputs and slots that are not the mark for nothing, and a parser that accepts to be asked about any
  text the symbol's input can hold;
* varints of at least 7 bits and field numbers of at least 4 (`CodecAssumption`; the code has 64 and 32), a
  largest payload that its 24 bits can tell (`FramesAssumption`), ids of 32 bits, a token that
  fits into a frame and at most 500 symbols in a request (`ReceiverAssumption`);
* symbols as `SecuritySymbol::parse` makes them (`SymbolsAssumption`); payloads whose entries fit into
  their types, any entry that is cut off being the last (`PayloadsAssumption`), and which name no
  symbol but those in use, by the texts that spell it (`SpellingsAssumption`); and a mark for nothing that
  is neither a message nor something read (`MessagesAssumption`, `NoneAssumption`).

**QuotePipelineProofs.** `TypeCorrect`. `WatermarkNeverGoesBack`: the sequence
of a row never falls and no row disappears while no symbol is removed; the invariant is that
no row of a pull, on the wire or received, has a sequence. `OverflowNeverLooksLive`: once main
has seen that a push was dropped, its row is not live until it has been updated.

In the same module, `LiveRowsAreWhole`, `FieldsGoForward`, `PipelineFollowsTheTicker`: the pipeline
implements `QuoteTicker`, every step being a step of it or a stutter. The ticker promises that a row is, in
what is pushed, of the quote its timestamp names, but may lack what no pull brings (the session), and that
what only pulls bring is of that quote or an older one and never taken back. Two conditions, since without
either the code does not do it (see the findings). `Orderly`: the exchange numbers its pushes and the
connection delivers them in order and is kept, while pulls may fail at any of their steps.
`ListKept`: the list is edited only while nothing is subscribed. The invariant `TickerInv` relates, symbol
by symbol, three moments of the exchange's log: the one the row shows, the one of the last push that left
the wire, and the present. The row is of the quote of its moment (`RowInStep`, `ShowsAt`). What is pending for it spans
all moments the row may show until it is applied, so that laid over the row, whichever pull came in between,
it makes a row of its own moment (`PendingInStep`); so does each push in transit (`WireInStep`), and
none is missing for a subscriber (`NothingMissing`). Of an answer to a pull, in transit or received, the
pushes before it have told what it tells and those after it tell more (`AnswersInStep`, `ReplyInStep`).
All this
is about one symbol and proved without variables; the rest shows that each action does to every symbol
one of the things it is proved of.

**StreamClientProofs.** `TypeCorrect`. `PendingCorrect`: the pending id is that
of the request under way and not 0, also when ids wrap around. `AnswersAreOwn`:
without a slow handler, status and payload are those of the request's own
answer. The invariant follows the answer from the wire through the handler: a
handler that is storing has matched the id of the request that waits, and the
bit is set only by it. `ConnectedMeansClient`: the flag is left set without a client only if main gave up
the connection started last after its 15 s (`late`), whatever else fails. What makes it inductive
(`ConnectionInv`) is that a connection is only made, and its callback only runs, while main waits for it
(`Expected`), or after such a timeout while main is on its way through the `disconnect` that gives it up
(`GivenUp`); and that a `disconnect` which goes on to the next connection has none to give up.

**MainLoopProofs.** `TypeCorrect`, which includes that each delay and what is
left of it stay within the limit of its policy. `BitCorrect` and `FailureKept`:
once the event task has caught up, the Connected bit tells whether the station has its
connection, and an idle station has its Failed bit set when the loop sleeps. Neither is
inductive. `LinkInv` says why they hold: the last event posted tells the state
of the station, a handler of a disconnection has cleared the Connected bit,
and an idle station has its Failed bit set unless main is at one of five places
from which it either tries again or sets the bit. `StreamCorrect`: a connected
stream has the credentials of the settings; this one is inductive as it stands,
because whoever changes the credentials has dropped the stream in the same
step of the main task. `AttemptsAreSpaced`: the n-th attempt in a row to reconnect comes no sooner than
the (n-1)-th delay after the last, for every policy and however long calls block. The invariant
(`BackoffInv`) says that the delay is at least what the attempts so far call for, that what is left of it and
what has passed make up the whole, and that who is about to connect has nothing left to wait. That
the delays grow as they should is an induction over their number.

**SdFilesProofs.** `NothingIsLost`, `NoFileIsTorn`, `FilesTypeCorrect`. `NothingLost`
is not inductive: between the two renames of a save the old content is only in
the backup. `FilesInv` adds where the handler of a save is and what it holds
(`Locals`, `FilesOfSave`), and `Safe` says of each path that its content is under it or under a
temporary name that the request at work is not about to remove; the backup of
the save under way is a witness for its own path only. `AnswersAreTrue`: a success means the whole effect
and no other, an error none, unless two calls failed or a new file could not be closed; each step of each
handler finds the card as before, with the target moved away, or as asked (`Outcome`), and the new file
finds its folder where the old one was (`Trees`). `NothingIsLeft`: as long as no clean-up has failed,
whatever else did, the temporary names in use are those of the save at work, and the card is mounted by the request at
work (`Tidy`).

**SettingsProofs.** `TypeCorrect`, `CredentialsKept`, `ApiKeyWhole`, `KeyOmittedIsKept`. That a
restart brings back what runs is true at rest and false all through a save, so
`SettingsInv` says what each step of a save has reached: the fields before the next
step are in NVS (`Progress`), and a save of a setup or an edit writes what
runs (`SavesRunning`), which is what NVS holds, but for what was not read (`RunsRead`), unless the user was
told otherwise (`RunsStored`). An import starts from what was just loaded (`ImportsUponStored`); the key it writes is that of the
file, whole (`ImportsWholeKey`), or that in NVS where the file has none
(`ImportsKeyOmitted`), which makes rewriting it harmless. `WatchlistsAreProper` and
`WatchlistsSurviveRestart`, for lists of every length: `Deserialize` applied to what `Serialize` wrote is the
list again (`RoundTrip`), since after n lines the function has read the first n symbols, each of
which is new and within the limit (`ReadsBack`). The invariant `ListInv` then says
that NVS has the list of a save once its last key is written, and that a restart would bring back
the list in use all through boot and rest, unless it could not be read or a save failed.

**KeyboardProofs.** `KeyboardTypeCorrect`, and `KeysAreRight`: a key is reported in the layer the
user held when it was pressed, however long it waited, unless a modifier was lost or forgotten (`unsure`).
The driver's modifiers and the device's events are related by replaying: the layer of an event
is that of the driver changed by the events of modifiers before it, and after the last one it is
what the user holds (`LayersFollow`). `Control` says what is known at each place of the task, and
`EventsFitMode` that a device in another mode has no events of modifiers. `KeysKeepTheirOrder`: keys
are reported in the order they were pressed and none twice (`TypedInOrder`). The line is taken apart into
the last key, the queue, the key being sent and the events (`Ordered`); what makes it inductive is that
no number runs ahead of the user (`Counted`) and that the task reads an event only when no
key is on its way (`SendsOne`), so that a key never overtakes one that waits for room.
`KeysVanishNowhereElse`: a key that was pressed is in the device, in the queue or being sent until it is
reported, but for the named exceptions (`NothingVanishes`). For this, a number must belong to a key only, what is being
sent must be a key, and there must be room once the oldest was dropped (`Accounted`): the last is why
the second attempt to send never fails.

**TerminalProofs.** `UntouchedAreKept`: a setup changes nothing the user did not change on the
screen. The invariant (`SetupsFit`) follows a setup from the form over its slot to its handler:
wherever it is, it agrees with the settings in what was not edited, and one that waits in
its slot found no other setup and no reset under way. That is why no redraw can make the form forget what
was edited before that setup is handled, and why the screen still agrees with the settings afterwards.
`TableIsCurrent` and `SelectionIsDescribed`: the table shows the store at all times but between a change of the
list and the redraw in the same handler (`TableInv`, `Behind`), and the selection is moved back into the table by
every redraw. `TheChosenIsRemoved`: a removal that waits, chosen while no other and no reset was under way, still
points to its symbol (`Points` in `RemovalInv`), because until it is handled the list only grows at its end.

**ReceiverProofs.** Three theorems, on bytes.

`WrittenIsWhatWasAskedHolds`: what the client writes is read back as what it was written for. From the
inside out: a varint is read back as it was written, whatever stands before and after it (`At` says of
bytes that they stand at a place of others); so is a key, a text and a number (`ReadsAs`); so is a
sequence of them, field by field (`FieldsOfPieces`); a symbol's text is parsed to the symbol
(`PlainText`, `RegionTexts`); the numbers of a header are read back from their two, three or four bytes, and a
frame from what stands where in it (`FrameIs`, `FrameRead`).

`RxIsOfThisFrameHolds`: `RxInv` says that `websocket_rx_` has what was handed over of the WebSocket frame
that is being received. Each chunk is adjacent to what is kept (`NowIs`), because a frame that begins
empties it and a lost connection is followed by `connect_quote_stream`, which does.

`OutcomeIsWhatWasSentHolds`: with this, what is decoded at the end of a message in one WebSocket frame is
its bytes (`OutcomeInv`). A damaged frame is refused (`DamagedIsRefused`: what is read must have all that
`OkMeans`). In a payload every readable entry is read as its field, and the first that is not
spoils the whole: a key of 0, a wire type nobody knows, a varint that does not end within its width or within the
bytes, a text longer than what is left (`UnsoundIsNotRead`, `NoFieldsOfUnreadable`). Storing the fields one
after the other leaves in each place the last that was meant for it (`SoFarStores`, `QuoteSays`), which is how
`Says` puts it. `ParsedIsSpelled`: the text that stays is parsed to the symbol it
spells, for the last dot of the text is the one before the region.

**Induction.** The library's theorems of induction take the hypothesis as an operator, which the
provers cannot instantiate. `SetInduction` (in `SettingsProofs`, `MainLoopProofs` and `ReceiverProofs`)
takes it as a set of numbers, and follows from the order of the natural numbers being well founded. With it,
that a recursive function exists and satisfies its equations is proved for the functions that
proofs need (`AddTextsReads`, `GrownIs`). `ReceiverProofs` needs many, some of which go up, some down, and some
jump from field to field: `RecursionExists`, `RecursionUnique` and `DescentInduction` are proved of any recursion
that comes nearer to an end with every step. It is given by functions, not operators: where it ends, where it
goes next, and what is made of the value there.

## What is only model-checked

* Liveness: `EventuallySynced`, `RefreshSucceeds`, `StreamComesLive`, `KeysArrive`,
  `StatusSettles` (fairness is beyond the prover).
* `FragmentsMakeNothing`: of a message in two WebSocket frames the client decodes the second alone. That this is
  refused is a matter of its bytes: a message whose end happens to be a frame itself would be taken for one. None
  of the instance's is.

That leaves no other invariant and no action property to TLC alone. `LiveRowsAreWhole`, `FieldsGoForward` and
`PipelineFollowsTheTicker`, and `AnswersAreOwn` have conditions, which are stated in them:
the findings above say how the code breaks each property without them. `OutcomeIsWhatWasSent` is about messages that are
not fragmented, which is the other condition of that kind.

Type invariants that are proved (`StreamClient`, `SdFiles`, `Keyboard`) have no place in a run.

## What is not modelled

Listed with reasons in `PROJECT.json` (`components`). In short: the layout of
the UI, the texts of errors and status lines, HTML; pure functions without state that are tested
against published values (SHA-256, signing); the display driver (a fixed list
of commands); the reading requests of the file manager; and what is planned below. A file lookup
that fails for another reason than that there is no file (`sd_file_manager.cpp:900`) reads as "no such
file" in `SdFiles` as it does in the code; what a faulty card would then lose is not explored. A second frame in
one WebSocket message, which the code ignores, is never sent. Races on objects
that are undefined in C++ (a `std::string`, a `std::vector`, a `std::function` used by two tasks)
are listed as hazards; the models show when the accesses can meet, not what
the memory holds then.

## Plan

In the order in which they matter.

1. *Quote pipeline*: `QuoteStore`, `QuotePipeline`, `QuoteTicker`. Done.
2. *Stream client*: `StreamClient`, and `Receiver` for its bytes. Done; to come:
   the request for the token.
3. *Main loop*: `Backoff`, `MainLoop`. Done.
4. *Settings*: `AppSettings`, `SettingsFile`, `Settings`. Done; to come: an abstract store in
   which a save is one step, the parser against a reference definition.
5. *SD files*: `SdFiles`. Done; to come: path normalisation against a reference, reading requests.
6. *Selection and pending actions*: `Terminal`. Done.
7. *Symbols and watchlist*: `SecuritySymbol`, `Watchlist`. Done.
8. *Frames and payloads*: `Frames`, `QuoteCodec`. Done.
9. *Keys*: `Keyboard`. Done.
10. *Proofs*: every invariant and action property but `FragmentsMakeNothing`. To come: the store of settings
    against its abstract one.
