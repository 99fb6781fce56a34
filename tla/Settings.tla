------------------------------- MODULE Settings -------------------------------
(***************************************************************************)
(* The settings: SettingsStore, which keeps them in NVS key by key, and    *)
(* what the main task does with them at boot and for the user.             *)
(*                                                                         *)
(* One step per NVS call of a save, because each may fail and the power    *)
(* may end after each.  NVS is external: a key that was written stays      *)
(* written, whether or not nvs_commit follows, and a string is at most     *)
(* 4000 bytes long, here MaxStored symbols.  The schema key, which nothing *)
(* reads, is left out; nvs_open and its write are the step "open".         *)
(*                                                                         *)
(* The file on the card is what parse_settings_file makes of it.           *)
(***************************************************************************)
EXTENDS AppSettings

CONSTANTS
  Setups,       \* what the user may enter in the setup form
  Files,        \* what the card may hold, parsed
  DefaultTexts, \* of seed_default_watchlist
  MaxStored,    \* how many symbols the key "watchlist" has room for
  Faults,       \* what may go wrong: see FaultNames
  MaxFaults,    \* bound: how often
  MaxBoots,     \* bound: how often the power comes
  MaxEdits      \* bound: what the user asks for

\* "open": NVS cannot be opened at boot; "read": it is opened, but some of the
\* strings cannot be read; "write": an NVS call of a save or of a reset fails.
FaultNames == {"open", "read", "write"}

\* No card, no file on it, or one that cannot be read or is too long.
NoFile == [status |-> "Absent", settings |-> NewSettings, watchlist |-> <<>>,
           touched |-> FALSE]
FileStatuses == {"Ok", "Empty", "MissingRequired", "InvalidWatchlist", "InvalidEndpoint"}

IsSettings(settings) ==
  settings \in [Fields -> Values] /\ settings["lb_region"] # Blank

ASSUME SettingsAssumption ==
  /\ \A setup \in Setups : IsSettings(setup)
  /\ \A file \in Files :
       /\ IsSettings(file.settings)
       /\ file.watchlist \in Seq(Symbols) /\ IsWatchlist(file.watchlist)
       /\ file.status \in FileStatuses
       /\ file.touched \in BOOLEAN
       /\ ~file.touched => ApiKey(file.settings) = NoApiKey
       /\ file.status = "Ok" => OnboardingComplete(file.settings, file.watchlist)
  /\ DefaultTexts \in Seq(Texts)
  /\ MaxStored \in Nat
  /\ Faults \subseteq FaultNames
  /\ MaxFaults \in Nat /\ MaxBoots \in Nat /\ MaxEdits \in Nat

\* The calls of SettingsStore::save.
SaveSteps == <<"open", "wifi_ssid", "wifi_pass", "lb_region", "api_key", "api_secret",
               "api_token", "legacy", "watchlist", "commit">>

VARIABLES
  flash,     \* NVS: the fields; Blank stands for a missing key, too
  flashList, \* NVS: the lines under "watchlist"
  legacy,    \* NVS: keys of the former OAuth login are there
  settings,  \* g_settings, but for the watchlist
  watchlist, \* g_settings.watchlist
  card,      \* the file on the card
  main,      \* "off"; boot: "load", "import", "seed"; "idle"; "save"; "erase"
  save,      \* the save under way: for whom, of what, and its next step
  imported,  \* import_settings_from_sd_card has returned true
  faults,    \* how many of the MaxFaults have happened
  boots,     \* how many of the MaxBoots
  edits,     \* how many of the MaxEdits
  unread,    \* history: the keys of NVS that could not be read at this boot, and
             \* were not written or erased since; nobody is told
  unsaved,   \* history: NVS may hold other settings than g_settings because a save
             \* or a reset failed, and the user was told so
  torn,      \* history: NVS may hold parts of two API keys, or a part of one
  mixed      \* history: g_settings may

nvsVars     == <<flash, flashList, legacy>>
runVars     == <<settings, watchlist>>
boundVars   == <<faults, boots, edits>>
historyVars == <<unread, unsaved, torn, mixed>>
vars == <<nvsVars, runVars, card, main, save, imported, boundVars, historyVars>>

NoSave == [by |-> "nobody", settings |-> NewSettings, watchlist |-> <<>>, next |-> 1]

Fault(name) ==
  /\ name \in Faults
  /\ faults < MaxFaults
  /\ faults' = faults + 1
  /\ UNCHANGED <<boots, edits>>

Edit ==
  /\ edits < MaxEdits
  /\ edits' = edits + 1
  /\ UNCHANGED <<faults, boots>>

NoFault == UNCHANGED boundVars

-------------------------------------------------------------------------------
(* Boot *)

PowerOn ==
  /\ main = "off"
  /\ boots < MaxBoots
  /\ boots' = boots + 1
  /\ main' = "load"
  /\ card' \in Files \cup {NoFile}
  /\ UNCHANGED <<nvsVars, runVars, save, imported, faults, edits, historyVars>>

\* Mutant: a region that is missing is taken as it is.
ReadFieldsBare(keys) ==
  [field \in Fields |-> IF field \in keys THEN flash[field] ELSE Blank]

\* What is read if only these keys can be: get_string makes an empty string of one
\* that is missing or cannot be read, and endpoint_region_from_string makes Global
\* of that.
ReadFields(keys) ==
  [field \in Fields |-> IF field \in keys /\ flash[field] # Blank THEN flash[field]
                        ELSE NewSettings[field]]

ReadList(keys) == Deserialize(IF "watchlist" \in keys THEN flashList ELSE <<>>)

StringKeys == Fields \cup {"watchlist"}

\* The string keys that are there.
Stored ==
  {field \in Fields : flash[field] # Blank} \cup {key \in {"watchlist"} : flashList # <<>>}

\* What a restart makes of NVS when all goes well.
Loaded == ReadFields(StringKeys)

\* A failure to erase the legacy keys is only logged, one to read a string not even
\* that, and app_main goes on without a word when NVS cannot be opened.
Load ==
  /\ main = "load"
  /\ main' = "import"
  /\ \/ unread' = {} /\ legacy' = FALSE /\ NoFault
     \/ unread' = {} /\ UNCHANGED legacy /\ Fault("write")
     \/ unread' \in (SUBSET Stored) \ {{}} /\ legacy' \in {legacy, FALSE} /\ Fault("read")
     \/ unread' = Stored /\ UNCHANGED legacy /\ Fault("open")
  /\ settings' = ReadFields(StringKeys \ unread')
  /\ watchlist' = ReadList(StringKeys \ unread')
  /\ unsaved' = FALSE
  /\ mixed' = (torn \/ (unread' \cap ApiFields # {} /\ ApiKey(settings') # NoApiKey))
  /\ UNCHANGED <<flash, flashList, card, save, imported, torn>>

\* Mutant: what is missing in the file is taken from the existing key.
PreservedPiecewise(file) ==
  [field \in Fields |->
     IF field \in ApiFields /\ file.settings[field] = Blank THEN settings[field]
     ELSE file.settings[field]]

\* preserve_existing_api_key_if_safe
Preserved(file) ==
  IF ~file.touched /\ ApiComplete(settings)
  THEN [field \in Fields |-> IF field \in ApiFields THEN settings[field]
                             ELSE file.settings[field]]
  ELSE file.settings

Accepted(file) ==
  \/ file.status = "Ok"
  \/ file.status = "MissingRequired" /\ OnboardingComplete(Preserved(file), file.watchlist)

StartSave(by, settings0, watchlist0) ==
  /\ main' = "save"
  /\ save' = [by |-> by, settings |-> settings0, watchlist |-> watchlist0, next |-> 1]

\* Mutant: the key is preserved for the check only.
ImportSettingsAsParsed ==
  /\ main = "import"
  /\ IF Accepted(card)
     THEN StartSave("import", card.settings, card.watchlist)
     ELSE main' = "seed" /\ UNCHANGED save
  /\ UNCHANGED <<nvsVars, runVars, card, imported, boundVars, historyVars>>

\* Of the files looked for, card is the first that can be read.
ImportSettings ==
  /\ main = "import"
  /\ IF Accepted(card)
     THEN StartSave("import", Preserved(card), card.watchlist)
     ELSE main' = "seed" /\ UNCHANGED save
  /\ UNCHANGED <<nvsVars, runVars, card, imported, boundVars, historyVars>>

Seeded(list) == IF list = <<>> THEN AddTexts(list, DefaultTexts) ELSE list

\* What is left of the boot shows one of the screens and joins the network.
SeedDefaultWatchlist ==
  /\ main = "seed"
  /\ main' = "idle"
  /\ watchlist' = Seeded(watchlist)
  /\ UNCHANGED <<nvsVars, settings, card, save, imported, boundVars, historyVars>>

-------------------------------------------------------------------------------
(* SettingsStore::save *)

AfterSave == IF save.by = "import" THEN "seed" ELSE "idle"

SaveFails ==
  /\ main' = AfterSave
  /\ save' = NoSave
  /\ unsaved' = TRUE
  /\ UNCHANGED <<nvsVars, runVars, imported, unread, torn, mixed>>

Proceed == save' = [save EXCEPT !.next = @ + 1] /\ UNCHANGED main

WriteField(field) ==
  /\ flash' = [flash EXCEPT ![field] = save.settings[field]]
  /\ torn' = (torn \/ (field \in ApiFields /\ save.settings[field] # flash[field]))
  /\ Proceed
  /\ UNCHANGED <<flashList, legacy, runVars, imported, unread, unsaved, mixed>>

EraseLegacy ==
  /\ legacy' = FALSE
  /\ Proceed
  /\ UNCHANGED <<flash, flashList, runVars, imported, historyVars>>

Fits(list) == Len(list) <= MaxStored

\* Mutant: nothing is written for an empty list.
WriteWatchlistUnlessEmpty ==
  /\ flashList' = (IF save.watchlist = <<>> THEN flashList ELSE Serialize(save.watchlist))
  /\ Proceed
  /\ UNCHANGED <<flash, legacy, runVars, imported, historyVars>>

WriteWatchlist ==
  /\ flashList' = Serialize(save.watchlist)
  /\ Proceed
  /\ UNCHANGED <<flash, legacy, runVars, imported, historyVars>>

\* Mutant: g_settings keeps what was loaded.
CommitForgetsImport ==
  /\ main' = AfterSave
  /\ save' = NoSave
  /\ imported' = (imported \/ save.by = "import")
  /\ unread' = {}
  /\ unsaved' = FALSE
  /\ torn' = FALSE
  /\ UNCHANGED <<nvsVars, runVars, mixed>>

\* An import moves the parsed settings to g_settings.
Commit ==
  LET stillMixed == mixed /\ ~(save.by = "import" /\ card.touched) IN
  /\ main' = AfterSave
  /\ save' = NoSave
  /\ imported' = (imported \/ save.by = "import")
  /\ settings' = save.settings
  /\ watchlist' = save.watchlist
  /\ unread' = {}
  /\ unsaved' = FALSE
  /\ torn' = stillMixed
  /\ mixed' = stillMixed
  /\ UNCHANGED nvsVars

SaveStep ==
  /\ main = "save"
  /\ LET step == SaveSteps[save.next] IN
     \/ /\ NoFault
        /\ \/ step = "open" /\ Proceed /\ UNCHANGED <<nvsVars, runVars, imported, historyVars>>
           \/ step \in Fields /\ WriteField(step)
           \/ step = "legacy" /\ EraseLegacy
           \/ step = "watchlist" /\ Fits(save.watchlist) /\ WriteWatchlist
           \/ step = "watchlist" /\ ~Fits(save.watchlist) /\ SaveFails
           \/ step = "commit" /\ Commit
     \/ Fault("write") /\ SaveFails
  /\ UNCHANGED card

-------------------------------------------------------------------------------
(* The user *)

\* handle_setup_save; the connection that follows is in MainLoop.
SaveSetup(setup) ==
  /\ main = "idle"
  /\ Edit
  /\ settings' = setup
  /\ StartSave("setup", setup, watchlist)
  /\ unsaved' = TRUE
  /\ mixed' = FALSE
  /\ UNCHANGED <<nvsVars, watchlist, card, imported, unread, torn>>

ChangeWatchlist(list) ==
  /\ main = "idle"
  /\ Edit
  /\ watchlist' = list
  /\ StartSave("edit", settings, list)
  /\ unsaved' = TRUE
  /\ UNCHANGED <<nvsVars, settings, card, imported, unread, torn, mixed>>

\* Mutant: only a symbol that is there already is refused.
AddSymbolBeyondLimit(text) ==
  /\ Parse[text] # Invalid
  /\ AddResult(watchlist, Parse[text]) # "AlreadyExists"
  /\ ChangeWatchlist(Append(watchlist, Parse[text]))

\* handle_add_symbol; what is no symbol, or is there, or is too much changes nothing.
AddSymbol(text) ==
  /\ Parse[text] # Invalid
  /\ AddResult(watchlist, Parse[text]) = "Added"
  /\ ChangeWatchlist(Added(watchlist, Parse[text]))

RemoveSymbol(index) ==
  /\ index \in DOMAIN watchlist
  /\ ChangeWatchlist(Removed(watchlist, watchlist[index]))

ResetSettings ==
  /\ main = "idle"
  /\ Edit
  /\ main' = "erase"
  /\ UNCHANGED <<nvsVars, runVars, card, save, imported, historyVars>>

NvsKeys == Fields \cup {"legacy", "watchlist"}

\* nvs_erase_all, in part where it is interrupted
Erase(keys) ==
  /\ flash' = [field \in Fields |-> IF field \in keys THEN Blank ELSE flash[field]]
  /\ legacy' = (legacy /\ "legacy" \notin keys)
  /\ flashList' = IF "watchlist" \in keys THEN <<>> ELSE flashList

EraseAll ==
  /\ main = "erase"
  /\ main' = "idle"
  /\ \/ /\ NoFault
        /\ Erase(NvsKeys)
        /\ settings' = NewSettings
        /\ watchlist' = Seeded(<<>>)
        /\ unread' = {} /\ unsaved' = FALSE /\ torn' = FALSE /\ mixed' = FALSE
     \/ /\ Fault("write")
        /\ \E keys \in SUBSET NvsKeys : Erase(keys)
        /\ unsaved' = TRUE /\ torn' = TRUE
        /\ UNCHANGED <<runVars, unread, mixed>>
  /\ UNCHANGED <<card, save, imported>>

\* External: the power ends, whatever the terminal is doing.
PowerCut ==
  /\ main # "off"
  /\ main' = "off"
  /\ settings' = NewSettings /\ watchlist' = <<>> /\ save' = NoSave /\ imported' = FALSE
  /\ unread' = {} /\ unsaved' = FALSE /\ mixed' = FALSE
  /\ \/ main # "erase" /\ UNCHANGED <<nvsVars, torn>>
     \/ main = "erase" /\ torn' = TRUE /\ \E keys \in SUBSET NvsKeys : Erase(keys)
  /\ UNCHANGED <<card, boundVars>>

-------------------------------------------------------------------------------
Init ==
  /\ flash = [field \in Fields |-> Blank]
  /\ flashList = <<>>
  /\ legacy \in BOOLEAN
  /\ settings = NewSettings /\ watchlist = <<>>
  /\ card = NoFile
  /\ main = "off"
  /\ save = NoSave
  /\ imported = FALSE
  /\ faults = 0 /\ boots = 0 /\ edits = 0
  /\ unread = {} /\ unsaved = FALSE /\ torn = FALSE /\ mixed = FALSE

Next ==
  \/ PowerOn \/ Load \/ ImportSettings \/ SeedDefaultWatchlist
  \/ SaveStep \/ EraseAll \/ PowerCut
  \/ \E setup \in Setups : SaveSetup(setup)
  \/ \E text \in Texts : AddSymbol(text)
  \/ \E index \in 1..kMaxSymbols : RemoveSymbol(index)
  \/ ResetSettings

Spec == Init /\ [][Next]_vars

-------------------------------------------------------------------------------
(* Correctness *)

TypeOK ==
  /\ flash \in [Fields -> Values]
  /\ legacy \in BOOLEAN
  /\ IsSettings(settings)
  /\ card \in Files \cup {NoFile}
  /\ main \in {"off", "load", "import", "seed", "idle", "save", "erase"}
  /\ save = [by |-> save.by, settings |-> save.settings, watchlist |-> save.watchlist,
             next |-> save.next]
  /\ save.by \in {"nobody", "setup", "edit", "import"}
  /\ (save.by = "nobody") = (main # "save")
  /\ IsSettings(save.settings)
  /\ save.next \in 1..Len(SaveSteps)
  /\ imported \in BOOLEAN
  /\ faults \in 0..MaxFaults /\ boots \in 0..MaxBoots /\ edits \in 0..MaxEdits
  /\ unread \subseteq StringKeys
  /\ unsaved \in BOOLEAN /\ torn \in BOOLEAN /\ mixed \in BOOLEAN

\* Wherever a watchlist comes from, the user, NVS or a file, it has no symbol twice
\* and no more than the stream may subscribe.
WatchlistIsProper == IsWatchlist(watchlist) /\ IsWatchlist(save.watchlist)

\* Unless the user was told that they are not saved, a restart brings back the
\* credentials, the Wi-Fi and the endpoint the terminal runs with, but for what could
\* not be read at this boot: that is empty (or the global endpoint) until it is saved,
\* and it is saved as such.
CredentialsSurviveRestart ==
  main = "idle" /\ ~unsaved =>
    \A field \in Fields :
      settings[field] = (IF field \in unread THEN NewSettings ELSE Loaded)[field]

\* It also brings back the watchlist, but for an empty one, which is replaced by
\* the default, and for one that could not be read at this boot.
WatchlistSurvivesRestart ==
  main = "idle" /\ ~unsaved /\ "watchlist" \notin unread =>
    Seeded(watchlist) = Seeded(Deserialize(flashList))

\* The API keys somebody entered as a whole.
KeysEntered ==
  {NoApiKey} \cup {ApiKey(setup) : setup \in Setups} \cup {ApiKey(file.settings) : file \in Files}

\* The terminal never runs with parts of two API keys or a part of one, nor keeps
\* them in NVS, unless a save or a reset that changes the key was interrupted or
\* failed, or a part of the key could not be read at boot, and was perhaps saved so.
ApiKeyIsWhole ==
  /\ ~mixed => ApiKey(settings) \in KeysEntered
  /\ ~torn => ApiKey(flash) \in KeysEntered

\* A file without an API key leaves a complete one in NVS as it is, at every step of
\* the import.
OmittedKeyIsKept ==
  [][main = "save" /\ save.by = "import" /\ ~card.touched /\ ApiComplete(flash)
       => ApiKey(flash') = ApiKey(flash)]_vars

\* Where nothing goes wrong, a save succeeds.
SaveFailsForAReason == faults = 0 /\ main = "idle" => ~unsaved
===============================================================================
