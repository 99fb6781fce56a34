---------------------------- MODULE SettingsProofs ----------------------------
(***************************************************************************)
(* Theorems about Settings, for all setups, files, faults and bounds: what *)
(* a restart brings back of credentials and watchlist, that no two API keys*)
(* are mixed, and that a watchlist is proper wherever it comes from.       *)
(***************************************************************************)
EXTENDS Settings, TLAPS, SequenceTheorems, WellFoundedInduction

\* The six fields are written in the steps 2 to 7, each in one.
LEMMA StepFacts ==
  /\ Len(SaveSteps) = 10
  /\ \A i \in 2..7 : SaveSteps[i] \in Fields
  /\ \A i \in 1..10 : SaveSteps[i] \in Fields => i \in 2..7
  /\ \A field \in Fields : \E i \in 2..7 : SaveSteps[i] = field
  /\ \A i, j \in 1..10 : SaveSteps[i] = SaveSteps[j] => i = j
  /\ SaveSteps[10] = "commit"
<1>1. /\ Len(SaveSteps) = 10
      /\ SaveSteps[1] = "open" /\ SaveSteps[2] = "wifi_ssid" /\ SaveSteps[3] = "wifi_pass"
      /\ SaveSteps[4] = "lb_region" /\ SaveSteps[5] = "api_key" /\ SaveSteps[6] = "api_secret"
      /\ SaveSteps[7] = "api_token" /\ SaveSteps[8] = "legacy" /\ SaveSteps[9] = "watchlist"
      /\ SaveSteps[10] = "commit"
  BY DEF SaveSteps
<1>2. \A i \in 1..10 : i = 1 \/ i = 2 \/ i = 3 \/ i = 4 \/ i = 5 \/ i = 6 \/ i = 7 \/ i = 8
                         \/ i = 9 \/ i = 10
  OBVIOUS
<1>3. \A i \in 2..7 : SaveSteps[i] \in Fields
  BY <1>1 DEF Fields, ApiFields
<1>4. \A i \in 1..10 : SaveSteps[i] \in Fields => i \in 2..7
  BY <1>1, <1>2 DEF Fields, ApiFields
<1>5. \A field \in Fields : \E i \in 2..7 : SaveSteps[i] = field
  BY <1>1 DEF Fields, ApiFields
<1>6. \A i, j \in 1..10 : SaveSteps[i] = SaveSteps[j] => i = j
  BY <1>1, <1>2
<1>7. QED
  BY <1>1, <1>3, <1>4, <1>5, <1>6

LEMMA NewSettingsType == IsSettings(NewSettings)
BY AppSettingsAssumption DEF IsSettings, NewSettings, Fields, ApiFields

\* A card holds one of the files, or none.
LEMMA FileType ==
  ASSUME NEW file \in Files \cup {NoFile}
  PROVE  /\ IsSettings(file.settings)
         /\ file.touched \in BOOLEAN
         /\ ~file.touched => ApiKey(file.settings) = NoApiKey
         /\ ApiKey(file.settings) \in KeysEntered
<1>1. CASE file \in Files
  BY <1>1, SettingsAssumption DEF KeysEntered
<1>2. CASE file = NoFile
  <2>1. file.settings = NewSettings /\ file.touched = FALSE
    BY <1>2 DEF NoFile
  <2>2. ApiKey(NewSettings) = NoApiKey
    BY DEF ApiKey, NewSettings, NoApiKey, Fields, ApiFields
  <2>3. QED
    BY <2>1, <2>2, NewSettingsType DEF KeysEntered
<1>3. QED
  BY <1>1, <1>2

\* What is read is settings; if it has a complete API key it is the one that is there.
LEMMA ReadFieldsType ==
  ASSUME flash \in [Fields -> Values], NEW keys
  PROVE  /\ IsSettings(ReadFields(keys))
         /\ ApiFields \subseteq keys => ApiKey(ReadFields(keys)) = ApiKey(flash)
         /\ ApiComplete(ReadFields(keys)) => ApiKey(ReadFields(keys)) = ApiKey(flash)
<1>1. IsSettings(ReadFields(keys))
  BY AppSettingsAssumption DEF IsSettings, ReadFields, NewSettings, Fields, ApiFields
<1>2. ASSUME NEW field \in ApiFields
      PROVE  ReadFields(keys)[field] = IF field \in keys THEN flash[field] ELSE Blank
  BY DEF ReadFields, NewSettings, Fields, ApiFields
<1>3. ASSUME ApiFields \subseteq keys
      PROVE  ApiKey(ReadFields(keys)) = ApiKey(flash)
  BY <1>2, <1>3 DEF ApiKey
<1>4. ASSUME ApiComplete(ReadFields(keys))
      PROVE  ApiKey(ReadFields(keys)) = ApiKey(flash)
  <2>1. ApiFields \subseteq keys
    BY <1>2, <1>4 DEF ApiComplete
  <2>2. QED
    BY <1>3, <2>1
<1>5. QED
  BY <1>1, <1>3, <1>4

LEMMA PreservedType ==
  ASSUME NEW file \in Files \cup {NoFile}, IsSettings(settings)
  PROVE  IsSettings(Preserved(file))
<1>1. IsSettings(file.settings)
  BY FileType
<1>2. QED
  BY <1>1 DEF IsSettings, Preserved, Fields, ApiFields

-------------------------------------------------------------------------------
(* Types *)

\* What a step that starts a save, or one that ends it, leaves in save.
LEMMA StartedType ==
  ASSUME NEW by \in {"setup", "edit", "import"}, NEW fields, NEW list,
         IsSettings(fields), StartSave(by, fields, list)
  PROVE  /\ main' = "save" /\ save'.by = by /\ save'.settings = fields /\ save'.next = 1
         /\ save' = [by |-> save'.by, settings |-> save'.settings,
                     watchlist |-> save'.watchlist, next |-> save'.next]
BY DEF StartSave

LEMMA NoSaveType ==
  /\ NoSave.by = "nobody" /\ NoSave.settings = NewSettings /\ NoSave.next = 1
  /\ NoSave = [by |-> NoSave.by, settings |-> NoSave.settings,
               watchlist |-> NoSave.watchlist, next |-> NoSave.next]
BY DEF NoSave

LEMMA ProceedType ==
  ASSUME TypeOK, main = "save", save.next # 10, Proceed
  PROVE  /\ main' = "save" /\ save'.by = save.by /\ save'.settings = save.settings
         /\ save'.next = save.next + 1 /\ save'.next \in 1..10
         /\ save' = [by |-> save'.by, settings |-> save'.settings,
                     watchlist |-> save'.watchlist, next |-> save'.next]
<1>1. save.next \in 1..10
  BY StepFacts DEF TypeOK
<1>2. save = [by |-> save.by, settings |-> save.settings, watchlist |-> save.watchlist,
             next |-> save.next]
  BY DEF TypeOK
<1>3. save' = [by |-> save.by, settings |-> save.settings, watchlist |-> save.watchlist,
              next |-> save.next + 1]
  BY <1>2 DEF Proceed
<1>4. /\ save'.by = save.by /\ save'.settings = save.settings
      /\ save'.watchlist = save.watchlist /\ save'.next = save.next + 1
  BY <1>3
<1>5. save.next + 1 \in 1..10
  BY <1>1
<1>6. QED
  BY <1>3, <1>4, <1>5 DEF Proceed

\* The types of the bounds.
BoundType == faults \in 0..MaxFaults /\ boots \in 0..MaxBoots /\ edits \in 0..MaxEdits

LEMMA BoundStep ==
  ASSUME BoundType, Next
  PROVE  BoundType'
<1> USE SettingsAssumption DEF BoundType, NoFault, Fault, Edit, boundVars
<1>1. CASE PowerOn \/ ImportSettings \/ SeedDefaultWatchlist
  BY <1>1 DEF PowerOn, ImportSettings, SeedDefaultWatchlist
<1>2. CASE Load
  <2>1. NoFault \/ Fault("write") \/ Fault("read") \/ Fault("open")
    BY <1>2 DEF Load
  <2>2. QED
    BY <2>1
<1>3. CASE SaveStep \/ EraseAll \/ PowerCut
  BY <1>3 DEF SaveStep, EraseAll, PowerCut
<1>4. CASE \/ \E setup \in Setups : SaveSetup(setup)
           \/ \E text \in Texts : AddSymbol(text)
           \/ \E index \in 1..kMaxSymbols : RemoveSymbol(index)
           \/ ResetSettings
  BY <1>4 DEF SaveSetup, AddSymbol, RemoveSymbol, ChangeWatchlist, ResetSettings
<1>5. QED
  BY <1>1, <1>2, <1>3, <1>4 DEF Next

\* The types of the rest.
StoreType ==
  /\ flash \in [Fields -> Values]
  /\ legacy \in BOOLEAN
  /\ unsaved \in BOOLEAN /\ torn \in BOOLEAN /\ mixed \in BOOLEAN /\ imported \in BOOLEAN
  /\ unread \subseteq StringKeys
  /\ card \in Files \cup {NoFile}

RunType ==
  /\ IsSettings(settings)
  /\ main \in {"off", "load", "import", "seed", "idle", "save", "erase"}
  /\ save = [by |-> save.by, settings |-> save.settings, watchlist |-> save.watchlist,
             next |-> save.next]
  /\ save.by \in {"nobody", "setup", "edit", "import"}
  /\ (save.by = "nobody") = (main # "save")
  /\ IsSettings(save.settings)
  /\ save.next \in 1..Len(SaveSteps)

LEMMA TypeParts == TypeOK <=> BoundType /\ StoreType /\ RunType
BY DEF TypeOK, BoundType, StoreType, RunType

LEMMA EraseType ==
  ASSUME flash \in [Fields -> Values], legacy \in BOOLEAN, NEW keys, Erase(keys)
  PROVE  flash' \in [Fields -> Values] /\ legacy' \in BOOLEAN
BY AppSettingsAssumption DEF Erase

LEMMA StoreStep ==
  ASSUME TypeOK, Next
  PROVE  StoreType'
<1> USE DEF StoreType, TypeOK, nvsVars, runVars, boundVars, historyVars
<1>1. CASE PowerOn \/ Load \/ ImportSettings \/ SeedDefaultWatchlist
  <2>1. Stored \subseteq StringKeys
    BY DEF Stored, StringKeys
  <2>2. QED
    BY <1>1, <2>1 DEF PowerOn, Load, ImportSettings, SeedDefaultWatchlist
<1>2. CASE SaveStep
  <2>1. ASSUME NEW field \in Fields, WriteField(field)
        PROVE  flash' \in [Fields -> Values] /\ torn' \in BOOLEAN
    BY <2>1 DEF WriteField, IsSettings
  <2>2. PICK step : step = SaveSteps[save.next]
    OBVIOUS
  <2>3. CASE step \in Fields /\ WriteField(step) /\ card' = card
    BY <2>1, <2>3 DEF WriteField
  <2>4. CASE /\ card' = card
             /\ \/ Proceed /\ UNCHANGED <<nvsVars, runVars, imported, historyVars>>
                \/ EraseLegacy \/ WriteWatchlist \/ SaveFails \/ Commit
    BY <2>4 DEF EraseLegacy, WriteWatchlist, SaveFails, Commit
  <2>5. QED
    BY <1>2, <2>2, <2>3, <2>4 DEF SaveStep
<1>3. CASE EraseAll \/ PowerCut
  <2>1. ASSUME NEW keys, Erase(keys)
        PROVE  flash' \in [Fields -> Values] /\ legacy' \in BOOLEAN
    BY <2>1, EraseType
  <2>2. flash' \in [Fields -> Values] /\ legacy' \in BOOLEAN
    BY <1>3, <2>1 DEF EraseAll, PowerCut
  <2>3. QED
    BY <1>3, <2>2 DEF EraseAll, PowerCut
<1>4. CASE \/ \E setup \in Setups : SaveSetup(setup)
           \/ \E text \in Texts : AddSymbol(text)
           \/ \E index \in 1..kMaxSymbols : RemoveSymbol(index)
           \/ ResetSettings
  BY <1>4 DEF SaveSetup, AddSymbol, RemoveSymbol, ChangeWatchlist, ResetSettings
<1>5. QED
  BY <1>1, <1>2, <1>3, <1>4 DEF Next

LEMMA RunStep ==
  ASSUME TypeOK, Next
  PROVE  RunType'
<1>1. IsSettings(settings) /\ IsSettings(save.settings) /\ save.next \in 1..10
  BY StepFacts DEF TypeOK
<1>2. CASE PowerOn \/ Load \/ SeedDefaultWatchlist
  <2>1. IsSettings(settings')
    BY <1>1, <1>2, ReadFieldsType
    DEF TypeOK, PowerOn, Load, SeedDefaultWatchlist, runVars
  <2>2. QED
    BY <1>2, <2>1 DEF TypeOK, RunType, PowerOn, Load, SeedDefaultWatchlist
<1>3. CASE ImportSettings
  <2>1. IsSettings(Preserved(card))
    BY <1>1, PreservedType DEF TypeOK
  <2>2. CASE Accepted(card)
    BY <1>1, <1>3, <2>1, <2>2, StartedType, StepFacts
    DEF TypeOK, RunType, ImportSettings, runVars
  <2>3. CASE ~Accepted(card)
    BY <1>3, <2>3 DEF TypeOK, RunType, ImportSettings, runVars
  <2>4. QED
    BY <2>2, <2>3
<1>4. CASE SaveStep
  <2>1. main = "save"
    BY <1>4 DEF SaveStep
  <2>2. CASE SaveFails
    BY <1>1, <2>2, NewSettingsType, NoSaveType, StepFacts
    DEF TypeOK, RunType, SaveFails, AfterSave, runVars
  <2>3. CASE Commit
    BY <1>1, <2>3, NewSettingsType, NoSaveType, StepFacts
    DEF TypeOK, RunType, Commit, AfterSave
  <2>4. CASE Proceed /\ UNCHANGED runVars /\ save.next # 10
    BY <1>1, <2>1, <2>4, ProceedType, StepFacts DEF TypeOK, RunType, runVars
  <2>5. save.next = 10 => SaveSteps[save.next] = "commit"
    BY StepFacts
  <2>6. "commit" \notin Fields
    BY DEF Fields, ApiFields
  <2>7. QED
    BY <1>4, <2>2, <2>3, <2>4, <2>5, <2>6
    DEF SaveStep, WriteField, EraseLegacy, WriteWatchlist
<1>5. CASE EraseAll \/ PowerCut
  BY <1>1, <1>5, NewSettingsType, NoSaveType, StepFacts
  DEF TypeOK, RunType, EraseAll, PowerCut, runVars
<1>6. ASSUME NEW setup \in Setups, SaveSetup(setup)
      PROVE  RunType'
  <2>1. IsSettings(setup)
    BY SettingsAssumption
  <2>2. QED
    BY <1>6, <2>1, StartedType, StepFacts DEF SaveSetup, RunType
<1>7. ASSUME NEW list, ChangeWatchlist(list)
      PROVE  RunType'
  BY <1>1, <1>7, StartedType, StepFacts DEF ChangeWatchlist, RunType
<1>8. CASE ResetSettings
  BY <1>8 DEF TypeOK, RunType, ResetSettings, runVars
<1>9. QED
  BY <1>2, <1>3, <1>4, <1>5, <1>6, <1>7, <1>8 DEF Next, AddSymbol, RemoveSymbol

\* Every variable keeps its type, in every run of the terminal.
THEOREM TypeCorrect == Spec => []TypeOK
<1>1. Init => TypeOK
  <2> SUFFICES ASSUME Init PROVE TypeOK
    OBVIOUS
  <2>1. RunType
    BY NewSettingsType, NoSaveType, StepFacts DEF Init, RunType
  <2>2. BoundType
    BY SettingsAssumption DEF Init, BoundType
  <2>3. StoreType
    BY AppSettingsAssumption DEF Init, StoreType
  <2>4. QED
    BY <2>1, <2>2, <2>3, TypeParts
<1>2. TypeOK /\ [Next]_vars => TypeOK'
  <2> SUFFICES ASSUME TypeOK, [Next]_vars PROVE TypeOK'
    OBVIOUS
  <2>1. CASE Next
    <3>1. BoundType' /\ StoreType' /\ RunType'
      BY <2>1, TypeParts, BoundStep, StoreStep, RunStep
    <3>2. QED
      BY <3>1 DEF TypeOK, BoundType, StoreType, RunType
  <2>2. CASE UNCHANGED vars
    BY <2>2 DEF TypeOK, vars, nvsVars, runVars, boundVars, historyVars, IsSettings
  <2>3. QED
    BY <2>1, <2>2
<1>3. QED
  BY <1>1, <1>2, PTL DEF Spec

-------------------------------------------------------------------------------
(* What a restart brings back, and whole API keys *)

\* The fields of the save under way that are written.
Progress ==
  main = "save" =>
    \A i \in 2..7 : i < save.next => flash[SaveSteps[i]] = save.settings[SaveSteps[i]]

\* The user's saves are of what the terminal runs with.
SavesRunning == main = "save" /\ save.by # "import" => settings = save.settings

\* What is in NVS, as far as it was read.
RunsRead == settings = ReadFields(StringKeys \ unread)

\* What the terminal runs with from the boot on, unless a save failed.
RunsStored == main \in {"import", "seed", "idle"} /\ ~unsaved => RunsRead

ImportsUponStored == main = "import" => RunsRead

\* The API key of an import is entered as a whole, or it is the one that is there.
ImportsWholeKey ==
  main = "save" /\ save.by = "import" /\ (card.touched \/ ~mixed)
    => ApiKey(save.settings) \in KeysEntered

ImportsKeyOmitted ==
  main = "save" /\ save.by = "import" /\ ~card.touched
    => ApiKey(save.settings) = ApiKey(flash)

SettingsInv ==
  /\ Progress /\ SavesRunning /\ RunsStored /\ ImportsUponStored
  /\ ImportsWholeKey /\ ImportsKeyOmitted /\ ApiKeyIsWhole

\* Once all fields are written NVS has the settings of the save.
LEMMA AllWritten ==
  ASSUME TypeOK, Progress, main = "save", save.next = 10
  PROVE  flash = save.settings /\ ReadFields(StringKeys) = save.settings
<1>1. \A field \in Fields : flash[field] = save.settings[field]
  BY StepFacts DEF Progress
<1>2. flash \in [Fields -> Values] /\ save.settings \in [Fields -> Values]
      /\ save.settings["lb_region"] # Blank
  BY DEF TypeOK, IsSettings
<1>3. flash = save.settings
  BY <1>1, <1>2
<1>4. \A field \in Fields : ReadFields(StringKeys)[field] = flash[field]
  BY <1>2, <1>3 DEF ReadFields, NewSettings, StringKeys
<1>5. ReadFields(StringKeys) = [field \in Fields |-> ReadFields(StringKeys)[field]]
  BY DEF ReadFields
<1>6. QED
  BY <1>2, <1>3, <1>4, <1>5

LEMMA SameRun ==
  ASSUME UNCHANGED <<settings, flash, unread>>
  PROVE  RunsRead => RunsRead'
BY DEF RunsRead, ReadFields

LEMMA NewSettingsKey == ApiKey(NewSettings) \in KeysEntered
BY DEF ApiKey, NewSettings, NoApiKey, KeysEntered, Fields, ApiFields

\* The key of a file that is accepted is its own or the one that is there; a file
\* without one is accepted only beside a complete one.
LEMMA PreservedKey ==
  ASSUME TypeOK, Accepted(card)
  PROVE  /\ card.touched => ApiKey(Preserved(card)) \in KeysEntered
         /\ ~card.touched => /\ ApiComplete(settings)
                             /\ ApiKey(Preserved(card)) = ApiKey(settings)
<1>1. card \in Files \cup {NoFile}
  BY DEF TypeOK
<1>2. card.touched => ApiKey(Preserved(card)) \in KeysEntered
  BY <1>1, FileType DEF Preserved
<1>3. ASSUME ~card.touched
      PROVE  ApiComplete(settings)
  <2>1. ~ApiComplete(card.settings)
    BY <1>1, <1>3, FileType DEF ApiComplete, ApiKey, NoApiKey, ApiFields
  <2>2. card.status # "Ok"
    BY <1>1, <2>1, SettingsAssumption DEF OnboardingComplete, NoFile
  <2>3. ApiComplete(Preserved(card))
    BY <2>2 DEF Accepted, OnboardingComplete
  <2>4. QED
    BY <2>1, <2>3 DEF Preserved
<1>4. ASSUME ~card.touched
      PROVE  ApiKey(Preserved(card)) = ApiKey(settings)
  BY <1>3, <1>4 DEF Preserved, ApiKey, Fields
<1>5. QED
  BY <1>2, <1>3, <1>4

LEMMA BootStep ==
  ASSUME TypeOK, SettingsInv, PowerOn \/ Load \/ ImportSettings \/ SeedDefaultWatchlist
  PROVE  SettingsInv'
<1> USE DEF SettingsInv, Progress, SavesRunning, RunsStored, ImportsUponStored,
            ImportsWholeKey, ImportsKeyOmitted
<1>1. CASE PowerOn
  BY <1>1 DEF PowerOn, ApiKeyIsWhole, nvsVars, runVars, historyVars
<1>2. CASE Load
  <2>1. /\ main' = "import" /\ flash' = flash /\ torn' = torn
        /\ settings' = ReadFields(StringKeys \ unread')
        /\ mixed' = (torn \/ (unread' \cap ApiFields # {} /\ ApiKey(settings') # NoApiKey))
    BY <1>2 DEF Load
  <2>2. RunsRead'
    BY <2>1 DEF RunsRead, ReadFields
  <2>3. ASSUME ~mixed'
        PROVE  ~torn /\ (ApiKey(settings') = ApiKey(flash) \/ ApiKey(settings') = NoApiKey)
    <3>1. unread' \cap ApiFields = {} => ApiFields \subseteq StringKeys \ unread'
      BY DEF StringKeys, Fields
    <3>2. unread' \cap ApiFields = {} => ApiKey(settings') = ApiKey(flash)
      BY <2>1, <3>1, ReadFieldsType DEF TypeOK
    <3>3. QED
      BY <2>1, <2>3, <3>2
  <2>4. (~torn' => ApiKey(flash') \in KeysEntered) /\ NoApiKey \in KeysEntered
    BY <2>1 DEF ApiKeyIsWhole, KeysEntered
  <2>5. ApiKeyIsWhole'
    BY <2>1, <2>3, <2>4 DEF ApiKeyIsWhole, KeysEntered
  <2>6. QED
    BY <2>1, <2>2, <2>5
<1>3. CASE ImportSettings
  <2>1. /\ main = "import" /\ UNCHANGED <<flash, settings, card, unread, unsaved, torn, mixed>>
    BY <1>3 DEF ImportSettings, nvsVars, runVars, historyVars
  <2>2. ApiKeyIsWhole'
    BY <2>1 DEF ApiKeyIsWhole, KeysEntered
  <2>3. CASE Accepted(card)
    <3>1. main' = "save" /\ save'.by = "import" /\ save'.settings = Preserved(card)
          /\ save'.next = 1
      BY <1>3, <2>3 DEF ImportSettings, StartSave
    <3>2. ~card.touched => ApiKey(Preserved(card)) = ApiKey(flash)
      <4>1. settings = ReadFields(StringKeys \ unread)
        BY <2>1 DEF RunsRead
      <4>2. ApiComplete(settings) => ApiKey(settings) = ApiKey(flash)
        BY <4>1, ReadFieldsType DEF TypeOK
      <4>3. QED
        BY <2>3, <4>2, PreservedKey
    <3>3. card.touched \/ ~mixed => ApiKey(Preserved(card)) \in KeysEntered
      BY <2>3, PreservedKey DEF ApiKeyIsWhole
    <3>4. QED
      BY <2>1, <2>2, <3>1, <3>2, <3>3 DEF KeysEntered
  <2>4. CASE ~Accepted(card)
    BY <1>3, <2>1, <2>2, <2>4, SameRun DEF ImportSettings
  <2>5. QED
    BY <2>3, <2>4
<1>4. CASE SeedDefaultWatchlist
  BY <1>4, SameRun DEF SeedDefaultWatchlist, ApiKeyIsWhole, nvsVars, historyVars
<1>5. QED
  BY <1>1, <1>2, <1>3, <1>4

LEMMA WriteFieldStep ==
  ASSUME TypeOK, SettingsInv, main = "save", SaveSteps[save.next] \in Fields,
         WriteField(SaveSteps[save.next]), card' = card
  PROVE  SettingsInv'
<1> DEFINE field == SaveSteps[save.next]
<1>1. /\ save.next \in 2..7 /\ main' = "save" /\ save'.by = save.by
      /\ save'.settings = save.settings /\ save'.next = save.next + 1
  BY StepFacts, ProceedType DEF TypeOK, WriteField
<1>2. /\ flash' = [flash EXCEPT ![field] = save.settings[field]]
      /\ UNCHANGED <<settings, mixed, card>>
  BY DEF WriteField, runVars
<1>3. flash \in [Fields -> Values] /\ save.settings \in [Fields -> Values]
  BY DEF TypeOK, IsSettings
<1>4. Progress'
  <2> SUFFICES ASSUME NEW i \in 2..7, i < save.next + 1
               PROVE  flash'[SaveSteps[i]] = save.settings[SaveSteps[i]]
    BY <1>1 DEF Progress
  <2>1. CASE i = save.next
    BY <1>2, <1>3, <2>1
  <2>2. CASE i # save.next
    BY <1>1, <1>2, <1>3, <2>2, StepFacts DEF SettingsInv, Progress
  <2>3. QED
    BY <2>1, <2>2
<1>5. field \notin ApiFields \/ save.settings[field] = flash[field]
        => ApiKey(flash') = ApiKey(flash)
  BY <1>2, <1>3 DEF ApiKey, Fields
<1>6. ApiKeyIsWhole'
  <2>1. ~torn' => ~torn /\ (field \notin ApiFields \/ save.settings[field] = flash[field])
    BY DEF WriteField
  <2>2. QED
    BY <1>2, <1>5, <2>1 DEF SettingsInv, ApiKeyIsWhole, KeysEntered
<1>7. ImportsKeyOmitted'
  <2>1. ASSUME ApiKey(save.settings) = ApiKey(flash)
        PROVE  ApiKey(flash') = ApiKey(flash)
    <3>1. field \in ApiFields => save.settings[field] = flash[field]
      <4>1. ASSUME field \in ApiFields
            PROVE  ApiKey(save.settings)[field] = save.settings[field]
                   /\ ApiKey(flash)[field] = flash[field]
        BY <4>1 DEF ApiKey
      <4>2. QED
        BY <2>1, <4>1
    <3>2. QED
      BY <1>5, <3>1
  <2>2. QED
    BY <1>1, <1>2, <2>1 DEF SettingsInv, ImportsKeyOmitted
<1>8. SavesRunning' /\ ImportsWholeKey' /\ RunsStored' /\ ImportsUponStored'
  BY <1>1, <1>2 DEF SettingsInv, SavesRunning, ImportsWholeKey, RunsStored, ImportsUponStored,
                    KeysEntered
<1>9. QED
  BY <1>4, <1>6, <1>7, <1>8 DEF SettingsInv

\* The steps of a save that write no field and do not end it.
LEMMA OtherWriteStep ==
  ASSUME TypeOK, SettingsInv, main = "save", SaveSteps[save.next] \notin Fields,
         SaveSteps[save.next] # "commit", Proceed,
         UNCHANGED <<flash, settings, card, torn, mixed>>
  PROVE  SettingsInv'
<1>1. /\ save.next \in 1..10 /\ save.next \notin 2..7 /\ main' = "save" /\ save'.by = save.by
      /\ save'.settings = save.settings /\ save'.next = save.next + 1
  BY StepFacts, ProceedType DEF TypeOK
<1>2. Progress'
  BY <1>1 DEF SettingsInv, Progress
<1>3. QED
  BY <1>1, <1>2 DEF SettingsInv, SavesRunning, ImportsWholeKey, ImportsKeyOmitted, RunsStored,
                    ImportsUponStored, ApiKeyIsWhole, KeysEntered

LEMMA SaveFailsStep ==
  ASSUME TypeOK, SettingsInv, SaveFails
  PROVE  SettingsInv'
BY DEF SettingsInv, Progress, SavesRunning, RunsStored, ImportsUponStored, ImportsWholeKey,
       ImportsKeyOmitted, ApiKeyIsWhole, KeysEntered, SaveFails, AfterSave, nvsVars, runVars

LEMMA CommitStep ==
  ASSUME TypeOK, SettingsInv, main = "save", save.next = 10, Commit, card' = card
  PROVE  SettingsInv'
<1>1. flash = save.settings /\ ReadFields(StringKeys) = save.settings
  BY AllWritten DEF SettingsInv
<1>2. /\ main' \in {"seed", "idle"} /\ settings' = save.settings /\ flash' = flash
      /\ torn' = (mixed /\ ~(save.by = "import" /\ card.touched)) /\ mixed' = torn'
  BY DEF Commit, AfterSave, nvsVars
<1>3. RunsRead'
  <2>1. unread' = {} /\ StringKeys \ {} = StringKeys
    BY DEF Commit
  <2>2. ReadFields(StringKeys)' = ReadFields(StringKeys)
    BY <1>2 DEF ReadFields, StringKeys
  <2>3. StringKeys' = StringKeys
    BY DEF StringKeys
  <2>4. QED
    BY <1>1, <1>2, <2>1, <2>2, <2>3 DEF RunsRead
<1>4. ~torn' => ApiKey(save.settings) \in KeysEntered
  BY <1>2 DEF SettingsInv, ImportsWholeKey, SavesRunning, ApiKeyIsWhole
<1>5. ApiKeyIsWhole'
  BY <1>1, <1>2, <1>4 DEF ApiKeyIsWhole, KeysEntered
<1>6. QED
  BY <1>1, <1>2, <1>3, <1>5 DEF SettingsInv, Progress, SavesRunning, RunsStored,
     ImportsUponStored, ImportsWholeKey, ImportsKeyOmitted

LEMMA SaveStepStep ==
  ASSUME TypeOK, SettingsInv, SaveStep
  PROVE  SettingsInv'
<1>1. main = "save" /\ card' = card
  BY DEF SaveStep
<1>2. CASE SaveSteps[save.next] \in Fields /\ WriteField(SaveSteps[save.next])
  BY <1>1, <1>2, WriteFieldStep
<1>3. CASE SaveFails
  BY <1>3, SaveFailsStep
<1>4. CASE SaveSteps[save.next] = "commit" /\ Commit
  <2>1. save.next = 10
    BY <1>4, StepFacts DEF TypeOK
  <2>2. QED
    BY <1>1, <1>4, <2>1, CommitStep
<1>5. CASE /\ SaveSteps[save.next] \in {"open", "legacy", "watchlist"}
           /\ \/ Proceed /\ UNCHANGED <<nvsVars, runVars, imported, historyVars>>
              \/ EraseLegacy \/ WriteWatchlist
  <2>1. SaveSteps[save.next] \notin Fields /\ SaveSteps[save.next] # "commit"
    BY <1>5 DEF Fields, ApiFields
  <2>2. Proceed /\ UNCHANGED <<flash, settings, torn, mixed>>
    BY <1>5 DEF EraseLegacy, WriteWatchlist, nvsVars, runVars, historyVars
  <2>3. QED
    BY <1>1, <2>1, <2>2, OtherWriteStep
<1>6. QED
  BY <1>2, <1>3, <1>4, <1>5 DEF SaveStep

LEMMA EraseStep ==
  ASSUME TypeOK, SettingsInv, EraseAll \/ PowerCut
  PROVE  SettingsInv'
<1> USE DEF SettingsInv, Progress, SavesRunning, RunsStored, ImportsUponStored,
            ImportsWholeKey, ImportsKeyOmitted
<1>1. CASE main' = "off" /\ PowerCut
  <2>1. ApiKeyIsWhole'
    BY <1>1, NewSettingsKey DEF PowerCut, ApiKeyIsWhole, nvsVars, KeysEntered
  <2>2. QED
    BY <1>1, <2>1
<1>2. CASE EraseAll /\ unsaved'
  BY <1>2 DEF EraseAll, ApiKeyIsWhole, runVars
<1>3. CASE EraseAll /\ ~unsaved'
  <2>1. /\ main' = "idle" /\ settings' = NewSettings
        /\ flash' = [field \in Fields |-> Blank]
    BY <1>3 DEF EraseAll, Erase, NvsKeys
  <2>2. RunsRead'
    BY <2>1 DEF RunsRead, ReadFields, NewSettings
  <2>3. ApiKey(flash') = NoApiKey
    BY <2>1 DEF ApiKey, NoApiKey, Fields
  <2>4. ApiKeyIsWhole'
    BY <2>1, <2>3, NewSettingsKey DEF ApiKeyIsWhole, KeysEntered
  <2>5. QED
    BY <2>1, <2>2, <2>4
<1>4. QED
  BY <1>1, <1>2, <1>3 DEF PowerCut

LEMMA UserStep ==
  ASSUME TypeOK, SettingsInv,
         \/ \E setup \in Setups : SaveSetup(setup)
         \/ \E text \in Texts : AddSymbol(text)
         \/ \E index \in 1..kMaxSymbols : RemoveSymbol(index)
         \/ ResetSettings
  PROVE  SettingsInv'
<1> USE DEF SettingsInv, Progress, SavesRunning, RunsStored, ImportsUponStored,
            ImportsWholeKey, ImportsKeyOmitted
<1>1. ASSUME NEW setup \in Setups, SaveSetup(setup)
      PROVE  SettingsInv'
  <2>1. /\ main' = "save" /\ save'.by = "setup" /\ save'.settings = setup /\ save'.next = 1
        /\ settings' = setup /\ flash' = flash /\ torn' = torn
    BY <1>1 DEF SaveSetup, StartSave, nvsVars
  <2>2. ApiKey(setup) \in KeysEntered
    BY DEF KeysEntered
  <2>3. ApiKeyIsWhole'
    BY <2>1, <2>2 DEF ApiKeyIsWhole, KeysEntered
  <2>4. QED
    BY <2>1, <2>3
<1>2. ASSUME NEW list, ChangeWatchlist(list)
      PROVE  SettingsInv'
  <2>1. /\ main' = "save" /\ save'.by = "edit" /\ save'.settings = settings /\ save'.next = 1
        /\ UNCHANGED <<flash, settings, torn, mixed>>
    BY <1>2 DEF ChangeWatchlist, StartSave, nvsVars
  <2>2. ApiKeyIsWhole'
    BY <2>1 DEF ApiKeyIsWhole, KeysEntered
  <2>3. QED
    BY <2>1, <2>2
<1>3. CASE ResetSettings
  BY <1>3 DEF ResetSettings, ApiKeyIsWhole, KeysEntered, nvsVars, runVars, historyVars
<1>4. QED
  BY <1>1, <1>2, <1>3 DEF AddSymbol, RemoveSymbol

LEMMA SettingsInvariant == Spec => [](TypeOK /\ SettingsInv)
<1>1. Init => SettingsInv
  <2> SUFFICES ASSUME Init PROVE SettingsInv
    OBVIOUS
  <2>1. ApiKey(settings) \in KeysEntered
    BY NewSettingsKey DEF Init
  <2>2. ApiKey(flash) \in KeysEntered
    BY DEF Init, ApiKey, NoApiKey, KeysEntered, Fields
  <2>3. QED
    BY <2>1, <2>2 DEF Init, SettingsInv, Progress, SavesRunning, RunsStored, ImportsUponStored,
       ImportsWholeKey, ImportsKeyOmitted, ApiKeyIsWhole
<1>2. TypeOK /\ SettingsInv /\ [Next]_vars => SettingsInv'
  <2> SUFFICES ASSUME TypeOK, SettingsInv, [Next]_vars PROVE SettingsInv'
    OBVIOUS
  <2>1. CASE Next
    BY <2>1, BootStep, SaveStepStep, EraseStep, UserStep DEF Next
  <2>2. CASE UNCHANGED vars
    BY <2>2 DEF vars, nvsVars, runVars, historyVars, SettingsInv, Progress, SavesRunning,
       RunsStored, ImportsUponStored, ImportsWholeKey, ImportsKeyOmitted, ApiKeyIsWhole,
       KeysEntered, RunsRead, ReadFields
  <2>3. QED
    BY <2>1, <2>2
<1>3. QED
  BY <1>1, <1>2, TypeCorrect, PTL DEF Spec

\* A restart brings back the Wi-Fi, the endpoint and the API key the terminal runs
\* with, unless a save or a reset failed since they changed; what could not be read
\* at this boot, which nobody is told, is empty until it is saved.
THEOREM CredentialsKept == Spec => []CredentialsSurviveRestart
<1>1. SettingsInv => CredentialsSurviveRestart
  <2> SUFFICES ASSUME SettingsInv, main = "idle", ~unsaved, NEW field \in Fields
               PROVE  settings[field] = (IF field \in unread THEN NewSettings ELSE Loaded)[field]
    BY DEF CredentialsSurviveRestart
  <2>1. settings = ReadFields(StringKeys \ unread)
    BY DEF SettingsInv, RunsStored, RunsRead
  <2>2. QED
    BY <2>1 DEF Loaded, ReadFields, StringKeys
<1>2. QED
  BY <1>1, SettingsInvariant, PTL

\* Only a save or a reset that is interrupted or fails can mix two API keys, and only
\* a key that was read in part at boot can be incomplete.
THEOREM ApiKeyWhole == Spec => []ApiKeyIsWhole
<1>1. SettingsInv => ApiKeyIsWhole
  BY DEF SettingsInv
<1>2. QED
  BY <1>1, SettingsInvariant, PTL

\* The import of a file without an API key leaves the key in NVS as it is.
THEOREM KeyOmittedIsKept == Spec => OmittedKeyIsKept
<1>1. TypeOK /\ SettingsInv /\ TypeOK' /\ SettingsInv' /\ [Next]_vars
        => [main = "save" /\ save.by = "import" /\ ~card.touched /\ ApiComplete(flash)
              => ApiKey(flash') = ApiKey(flash)]_vars
  <2> SUFFICES ASSUME TypeOK, SettingsInv, Next, main = "save", save.by = "import",
                      ~card.touched
               PROVE  ApiKey(flash') = ApiKey(flash)
    OBVIOUS
  <2>1. ApiKey(save.settings) = ApiKey(flash)
    BY DEF SettingsInv, ImportsKeyOmitted
  <2>2. \/ flash' = flash
        \/ \E field \in Fields : flash' = [flash EXCEPT ![field] = save.settings[field]]
    BY DEF Next, PowerOn, Load, ImportSettings, SeedDefaultWatchlist, SaveStep, WriteField,
           EraseLegacy, WriteWatchlist, SaveFails, Commit, EraseAll, PowerCut, SaveSetup,
           AddSymbol, RemoveSymbol, ChangeWatchlist, ResetSettings, nvsVars
  <2>3. ASSUME NEW field \in ApiFields
        PROVE  save.settings[field] = flash[field]
    <3>1. /\ ApiKey(save.settings)[field] = save.settings[field]
          /\ ApiKey(flash)[field] = flash[field]
      BY DEF ApiKey
    <3>2. QED
      BY <2>1, <3>1
  <2>4. flash \in [Fields -> Values]
    BY DEF TypeOK
  <2>5. QED
    BY <2>2, <2>3, <2>4 DEF ApiKey, Fields
<1>2. QED
  BY <1>1, SettingsInvariant, PTL DEF Spec, OmittedKeyIsKept
-------------------------------------------------------------------------------
(* Induction over the natural numbers, and over what was read of the texts: the *)
(* theorems of the library take the induction hypothesis as an operator; here   *)
(* it is the set of the numbers for which it holds.                             *)

LEMMA SetInduction ==
  ASSUME NEW T, 0 \in T, \A n \in Nat : n \in T => n + 1 \in T
  PROVE  Nat \subseteq T
<1> SUFFICES ASSUME Nat \ T # {} PROVE FALSE
  OBVIOUS
<1>1. PICK n \in Nat \ T : \A m \in Nat \ T : <<m, n>> \notin OpToRel(<, Nat)
  <2> HIDE DEF OpToRel
  <2>1. Nat \ T \subseteq Nat
    OBVIOUS
  <2> QED
    BY <2>1, NatLessThanWellFounded, WFMin
<1>2. \A m \in Nat \ T : ~(m < n)
  BY <1>1 DEF OpToRel
<1>3. n # 0 /\ n - 1 \in Nat /\ n - 1 < n /\ (n - 1) + 1 = n
  OBVIOUS
<1> QED
  BY <1>2, <1>3

\* f tells what AddTexts has after each of the first n texts.
Reads(f, n, list, texts) ==
  f = [k \in 0..n |-> IF k = 0 THEN list ELSE AddText(f[k - 1], texts[k])]

LEMMA ReadsOneMore ==
  ASSUME NEW list, NEW texts, NEW n \in Nat, NEW f, Reads(f, n, list, texts)
  PROVE  \E g : Reads(g, n + 1, list, texts)
<1> DEFINE g == [k \in 0..n + 1 |-> IF k = n + 1 THEN AddText(f[n], texts[n + 1]) ELSE f[k]]
<1>1. ASSUME NEW k \in 0..n + 1
      PROVE  g[k] = IF k = 0 THEN list ELSE AddText(g[k - 1], texts[k])
  <2>1. CASE k = 0
    BY <2>1 DEF Reads
  <2>2. CASE k # 0 /\ k # n + 1
    <3>1. k \in 0..n /\ k - 1 \in 0..n /\ k - 1 # n + 1 /\ k - 1 \in 0..n + 1
      BY <2>2
    <3>2. g[k] = f[k] /\ g[k - 1] = f[k - 1]
      BY <2>2, <3>1
    <3>3. f[k] = AddText(f[k - 1], texts[k])
      BY <2>2, <3>1 DEF Reads
    <3> QED
      BY <2>2, <3>2, <3>3
  <2>3. CASE k = n + 1
    <3>1. n + 1 # 0 /\ n \in 0..n + 1 /\ n # n + 1 /\ (n + 1) - 1 = n
      OBVIOUS
    <3>2. g[k] = AddText(f[n], texts[n + 1]) /\ g[n] = f[n]
      BY <2>3, <3>1
    <3> QED
      BY <2>3, <3>1, <3>2
  <2> QED
    BY <2>1, <2>2, <2>3
<1>2. g = [k \in 0..n + 1 |-> g[k]]
  OBVIOUS
<1> HIDE DEF g
<1>3. Reads(g, n + 1, list, texts)
  BY <1>1, <1>2 DEF Reads
<1> QED
  BY <1>3

LEMMA ReadsExist ==
  ASSUME NEW list, NEW texts, NEW n \in Nat
  PROVE  \E f : Reads(f, n, list, texts)
<1> DEFINE T == {m \in Nat : \E f : Reads(f, m, list, texts)}
<1>1. 0 \in T
  <2> DEFINE g == [k \in 0..0 |-> list]
  <2>1. Reads(g, 0, list, texts)
    BY DEF Reads
  <2> QED
    BY <2>1
<1>2. \A m \in Nat : m \in T => m + 1 \in T
  BY ReadsOneMore
<1> HIDE DEF T
<1>3. Nat \subseteq T
  BY <1>1, <1>2, SetInduction
<1> QED
  BY <1>3 DEF T

\* What AddTexts makes of the texts, one by one.
LEMMA AddTextsReads ==
  ASSUME NEW list, NEW texts, Len(texts) \in Nat
  PROVE  \E f : /\ f[0] = list
                /\ \A n \in 1..Len(texts) : f[n] = AddText(f[n - 1], texts[n])
                /\ AddTexts(list, texts) = f[Len(texts)]
<1> DEFINE f == CHOOSE f : f = [k \in 0..Len(texts) |->
                                  IF k = 0 THEN list ELSE AddText(f[k - 1], texts[k])]
<1>1. \E g : g = [k \in 0..Len(texts) |->
                    IF k = 0 THEN list ELSE AddText(g[k - 1], texts[k])]
  <2>1. PICK g : Reads(g, Len(texts), list, texts)
    BY ReadsExist
  <2>2. g = [k \in 0..Len(texts) |-> IF k = 0 THEN list ELSE AddText(g[k - 1], texts[k])]
    BY <2>1 DEF Reads
  <2> HIDE DEF f
  <2> QED
    BY <2>2
<1>2. f = [k \in 0..Len(texts) |-> IF k = 0 THEN list ELSE AddText(f[k - 1], texts[k])]
  BY <1>1
<1>3. AddTexts(list, texts) = f[Len(texts)]
  BY DEF AddTexts
<1> HIDE DEF f
<1>4. f[0] = list
  BY <1>2
<1>5. \A n \in 1..Len(texts) : f[n] = AddText(f[n - 1], texts[n])
  BY <1>2
<1> QED
  BY <1>3, <1>4, <1>5

-------------------------------------------------------------------------------
(* Watchlists *)

ProperList(list) == list \in Seq(Symbols) /\ IsWatchlist(list)

LEMMA EmptyProper == ProperList(<<>>)
BY WatchlistAssumption DEF ProperList, IsWatchlist

LEMMA AddedProper ==
  ASSUME NEW list, ProperList(list), NEW symbol \in Symbols
  PROVE  ProperList(Added(list, symbol))
<1>1. CASE AddResult(list, symbol) = "Added"
  <2>1. ~Contains(list, symbol) /\ ~(Len(list) >= kMaxSymbols)
    BY <1>1 DEF AddResult
  <2>2. list \in Seq(Symbols) /\ Len(list) \in Nat /\ kMaxSymbols \in Nat
    BY WatchlistAssumption DEF ProperList
  <2>3. /\ Append(list, symbol) \in Seq(Symbols)
        /\ Len(Append(list, symbol)) = Len(list) + 1
        /\ \A i \in 1..Len(list) : Append(list, symbol)[i] = list[i]
        /\ Append(list, symbol)[Len(list) + 1] = symbol
    BY <2>2
  <2>4. Len(list) + 1 <= kMaxSymbols
    BY <2>1, <2>2
  <2>5. \A i \in 1..Len(list) + 1 : i \in 1..Len(list) \/ i = Len(list) + 1
    BY <2>2
  <2>6. DOMAIN Append(list, symbol) = 1..Len(list) + 1 /\ DOMAIN list = 1..Len(list)
    BY <2>2, <2>3
  <2>7. \A i, j \in 1..Len(list) + 1 : Append(list, symbol)[i] = Append(list, symbol)[j] => i = j
    BY <2>1, <2>3, <2>5, <2>6 DEF ProperList, IsWatchlist, Contains
  <2> QED
    BY <1>1, <2>3, <2>4, <2>6, <2>7 DEF Added, ProperList, IsWatchlist
<1>2. CASE AddResult(list, symbol) # "Added"
  BY <1>2 DEF Added
<1> QED
  BY <1>1, <1>2

LEMMA RemovedProper ==
  ASSUME NEW list, ProperList(list), NEW symbol
  PROVE  ProperList(Removed(list, symbol))
<1>1. CASE Contains(list, symbol)
  <2>1. list \in Seq(Symbols) /\ DOMAIN list = 1..Len(list) /\ Len(list) \in Nat
    BY DEF ProperList
  <2>2. PICK k \in 1..Len(list) : Removed(list, symbol) = RemoveAt(list, k)
    BY <1>1, <2>1 DEF Removed, Contains
  <2> DEFINE r == RemoveAt(list, k)
  <2>3. /\ r \in Seq(Symbols) /\ Len(r) = Len(list) - 1
        /\ \A i \in 1..Len(r) : r[i] = list[IF i < k THEN i ELSE i + 1]
    <3> DEFINE s == SubSeq(list, 1, k - 1)
               u == SubSeq(list, k + 1, Len(list))
    <3>1. \A i \in 1..Len(list) : list[i] \in Symbols
      BY <2>1
    <3>2. s \in Seq(Symbols) /\ Len(s) = k - 1 /\ \A i \in 1..k - 1 : s[i] = list[i]
      <4>1. \A i \in 1..k - 1 : list[i] \in Symbols
        BY <2>1, <3>1
      <4>2. /\ s \in Seq(Symbols) /\ Len(s) = IF 1 <= k - 1 THEN (k - 1) - 1 + 1 ELSE 0
            /\ \A i \in 1..(k - 1) - 1 + 1 : s[i] = list[1 + i - 1]
        BY <4>1, SubSeqProperties
      <4> HIDE DEF s
      <4> QED
        BY <4>2
    <3>3. /\ u \in Seq(Symbols) /\ Len(u) = Len(list) - k
          /\ \A i \in 1..Len(list) - k : u[i] = list[k + i]
      <4>1. \A i \in k + 1..Len(list) : list[i] \in Symbols
        BY <2>1, <3>1
      <4>2. /\ u \in Seq(Symbols)
            /\ Len(u) = IF k + 1 <= Len(list) THEN Len(list) - (k + 1) + 1 ELSE 0
            /\ \A i \in 1..Len(list) - (k + 1) + 1 : u[i] = list[(k + 1) + i - 1]
        BY <2>1, <4>1, SubSeqProperties
      <4> HIDE DEF u
      <4>3. Len(list) - (k + 1) + 1 = Len(list) - k /\ k \in Int /\ Len(list) \in Int
        BY <2>1
      <4>4. ASSUME NEW i \in 1..Len(list) - k
            PROVE  (k + 1) + i - 1 = k + i
        BY <2>1
      <4>5. Len(u) = Len(list) - k
        <5>1. Len(u) = IF k + 1 <= Len(list) THEN Len(list) - (k + 1) + 1 ELSE 0
          BY <4>2
        <5>2. Len(list) \in Nat /\ k \in Nat /\ k <= Len(list)
          BY <2>1
        <5>3. k + 1 <= Len(list) \/ k = Len(list)
          BY <5>2
        <5> QED
          BY <5>1, <5>2, <5>3
      <4> QED
        BY <4>2, <4>3, <4>4, <4>5
    <3>4. r = s \o u
      BY DEF RemoveAt
    <3> HIDE DEF r, s, u
    <3>5. /\ s \o u \in Seq(Symbols) /\ Len(s \o u) = Len(s) + Len(u)
          /\ \A i \in 1..Len(s) + Len(u) :
               (s \o u)[i] = IF i <= Len(s) THEN s[i] ELSE u[i - Len(s)]
      BY <3>2, <3>3, ConcatProperties
    <3>6. Len(s) + Len(u) = Len(list) - 1
      BY <2>1, <3>2, <3>3
    <3>7. ASSUME NEW i \in 1..Len(list) - 1
          PROVE  r[i] = list[IF i < k THEN i ELSE i + 1]
      <4>1. CASE i < k
        BY <2>1, <3>2, <3>4, <3>5, <3>6, <4>1
      <4>2. CASE ~(i < k)
        <5>1. /\ ~(i <= Len(s)) /\ i - Len(s) \in 1..Len(list) - k
              /\ k + (i - Len(s)) = i + 1
          BY <2>1, <3>2, <4>2
        <5> QED
          BY <3>3, <3>4, <3>5, <3>6, <4>2, <5>1
      <4> QED
        BY <4>1, <4>2
    <3> QED
      BY <3>4, <3>5, <3>6, <3>7
  <2> HIDE DEF r
  <2>4. DOMAIN r = 1..Len(list) - 1
    BY <2>3
  <2>5. \A i \in 1..Len(list) - 1 :
          (IF i < k THEN i ELSE i + 1) \in 1..Len(list)
    BY <2>1
  <2>6. \A i, j \in 1..Len(list) - 1 :
          (IF i < k THEN i ELSE i + 1) = (IF j < k THEN j ELSE j + 1) => i = j
    BY <2>1
  <2>7. \A i, j \in DOMAIN r : r[i] = r[j] => i = j
    BY <2>1, <2>3, <2>4, <2>5, <2>6 DEF ProperList, IsWatchlist
  <2>8. Len(r) <= kMaxSymbols
    BY <2>1, <2>3, WatchlistAssumption DEF ProperList, IsWatchlist
  <2> QED
    BY <2>2, <2>3, <2>7, <2>8 DEF r, ProperList, IsWatchlist
<1>2. CASE ~Contains(list, symbol)
  BY <1>2 DEF Removed
<1> QED
  BY <1>1, <1>2

LEMMA AddTextProper ==
  ASSUME NEW list, ProperList(list), NEW text \in Texts
  PROVE  ProperList(AddText(list, text))
BY AddedProper, WatchlistAssumption DEF AddText

\* However many texts are read, and whatever they are.
LEMMA AddTextsProper ==
  ASSUME NEW list, ProperList(list), NEW texts \in Seq(Texts)
  PROVE  ProperList(AddTexts(list, texts))
<1>1. Len(texts) \in Nat /\ \A n \in 1..Len(texts) : texts[n] \in Texts
  OBVIOUS
<1>2. PICK f : /\ f[0] = list
               /\ \A n \in 1..Len(texts) : f[n] = AddText(f[n - 1], texts[n])
               /\ AddTexts(list, texts) = f[Len(texts)]
  BY <1>1, AddTextsReads
<1> DEFINE T == {n \in Nat : n <= Len(texts) => ProperList(f[n])}
<1>3. 0 \in T
  BY <1>2
<1>4. ASSUME NEW n \in Nat, n \in T
      PROVE  n + 1 \in T
  <2> SUFFICES ASSUME n + 1 <= Len(texts)
               PROVE  ProperList(f[n + 1])
    OBVIOUS
  <2>1. n <= Len(texts) /\ n + 1 \in 1..Len(texts) /\ (n + 1) - 1 = n
    BY <1>1
  <2>2. ProperList(f[n]) /\ texts[n + 1] \in Texts
    BY <1>1, <1>4, <2>1
  <2>3. f[n + 1] = AddText(f[n], texts[n + 1])
    BY <1>2, <2>1
  <2> QED
    BY <2>2, <2>3, AddTextProper
<1> HIDE DEF T
<1>5. Nat \subseteq T
  BY <1>3, <1>4, SetInduction
<1>6. ProperList(f[Len(texts)])
  BY <1>1, <1>5 DEF T
<1> QED
  BY <1>2, <1>6

LEMMA SerializeType ==
  ASSUME NEW list \in Seq(Symbols)
  PROVE  /\ Serialize(list) \in Seq(Texts) /\ Len(Serialize(list)) = Len(list)
         /\ \A i \in 1..Len(list) : Serialize(list)[i] = Value[list[i]]
<1>1. DOMAIN list = 1..Len(list) /\ Len(list) \in Nat
      /\ \A i \in 1..Len(list) : Value[list[i]] \in Texts
  BY WatchlistAssumption
<1>2. Serialize(list) = [i \in 1..Len(list) |-> Value[list[i]]]
  BY <1>1 DEF Serialize
<1> QED
  BY <1>1, <1>2

\* What was read of the lines of a watchlist is its beginning.
LEMMA ReadsBack ==
  ASSUME NEW list, ProperList(list), NEW f, f[0] = <<>>,
         \A n \in 1..Len(list) : f[n] = AddText(f[n - 1], Serialize(list)[n])
  PROVE  \A n \in 0..Len(list) : f[n] = SubSeq(list, 1, n)
<1>1. list \in Seq(Symbols) /\ Len(list) \in Nat
  BY DEF ProperList
<1> DEFINE T == {n \in Nat : n <= Len(list) => f[n] = SubSeq(list, 1, n)}
<1>2. 0 \in T
  <2>1. SubSeq(list, 1, 0) = <<>>
    BY SubSeqEmpty
  <2> QED
    BY <2>1
<1>3. ASSUME NEW n \in Nat, n \in T
      PROVE  n + 1 \in T
  <2> SUFFICES ASSUME n + 1 <= Len(list)
               PROVE  f[n + 1] = SubSeq(list, 1, n + 1)
    OBVIOUS
  <2> DEFINE s == SubSeq(list, 1, n)
             symbol == list[n + 1]
  <2>1. n <= Len(list) /\ n + 1 \in 1..Len(list) /\ (n + 1) - 1 = n /\ f[n] = s
    BY <1>1, <1>3
  <2>2. s \in Seq(Symbols) /\ Len(s) = n /\ \A i \in 1..n : s[i] = list[i]
    <3>1. \A i \in 1..n : list[i] \in Symbols
      BY <1>1, <2>1
    <3>2. /\ s \in Seq(Symbols) /\ Len(s) = IF 1 <= n THEN n - 1 + 1 ELSE 0
          /\ \A i \in 1..n - 1 + 1 : s[i] = list[1 + i - 1]
      BY <3>1, SubSeqProperties
    <3> HIDE DEF s
    <3> QED
      BY <3>2
  <2>3. SubSeq(list, 1, n + 1) = Append(s, symbol)
    <3>1. SubSeq(list, 1, n + 1) = SubSeq(list, 1, (n + 1) - 1) \o <<list[n + 1]>>
      BY <1>1, <2>1, SubSeqRecursiveSecond
    <3>2. symbol \in Symbols
      BY <1>1, <2>1
    <3> HIDE DEF s
    <3>3. Append(s, symbol) = s \o <<symbol>>
      BY <2>2, <3>2
    <3> QED
      BY <2>1, <3>1, <3>3 DEF s
  <2>4. symbol \in Symbols /\ Serialize(list)[n + 1] = Value[symbol]
    BY <1>1, <2>1, SerializeType
  <2>5. f[n + 1] = AddText(s, Value[symbol])
    BY <2>1, <2>4
  <2>6. AddText(s, Value[symbol]) = Added(s, symbol)
    BY <2>4, WatchlistAssumption DEF AddText
  <2>7. AddResult(s, symbol) = "Added"
    <3> HIDE DEF s, symbol
    <3>1. ~(Len(s) >= kMaxSymbols)
      BY <1>1, <2>1, <2>2, WatchlistAssumption DEF ProperList, IsWatchlist
    <3>2. ~Contains(s, symbol)
      <4>1. ASSUME NEW i \in 1..n PROVE list[i] # list[n + 1]
        <5>1. i \in DOMAIN list /\ n + 1 \in DOMAIN list /\ i # n + 1
          BY <1>1, <2>1
        <5> QED
          BY <5>1 DEF ProperList, IsWatchlist
      <4> QED
        BY <2>2, <4>1 DEF Contains, symbol
    <3> QED
      BY <3>1, <3>2 DEF AddResult
  <2> QED
    BY <2>3, <2>5, <2>6, <2>7 DEF Added
<1> HIDE DEF T
<1>4. Nat \subseteq T
  BY <1>2, <1>3, SetInduction
<1> QED
  BY <1>1, <1>4 DEF T

\* What is read of what was written is what was written.
LEMMA RoundTrip ==
  ASSUME NEW list, ProperList(list)
  PROVE  Deserialize(Serialize(list)) = list
<1>1. list \in Seq(Symbols) /\ Len(list) \in Nat
  BY DEF ProperList
<1>2. Len(Serialize(list)) = Len(list)
  BY <1>1, SerializeType
<1>3. PICK f : /\ f[0] = <<>>
               /\ \A n \in 1..Len(list) : f[n] = AddText(f[n - 1], Serialize(list)[n])
               /\ AddTexts(<<>>, Serialize(list)) = f[Len(list)]
  BY <1>1, <1>2, AddTextsReads
<1>4. f[Len(list)] = SubSeq(list, 1, Len(list))
  BY <1>1, <1>3, ReadsBack
<1> QED
  BY <1>1, <1>3, <1>4, SubSeqFull DEF Deserialize

-------------------------------------------------------------------------------
(* What becomes of the watchlist *)

\* The lists and what NVS has of them.
ListTypes ==
  /\ ProperList(watchlist) /\ ProperList(save.watchlist)
  /\ flashList \in Seq(Texts)

\* A restart would bring back what the terminal has, but for the seed.
Restorable == Seeded(watchlist) = Seeded(Deserialize(flashList))

\* Once the key of the list is written NVS has the list of the save; and the terminal
\* has what is in NVS from the boot on, unless it could not be read at boot or saved.
ListInv ==
  /\ ListTypes
  /\ main = "save" /\ save.next = 10 => flashList = Serialize(save.watchlist)
  /\ main \in {"import", "seed", "idle"} /\ ~unsaved /\ "watchlist" \notin unread => Restorable

LEMMA SeededProper ==
  ASSUME NEW list, ProperList(list)
  PROVE  ProperList(Seeded(list)) /\ Seeded(Seeded(list)) = Seeded(list)
BY AddTextsProper, SettingsAssumption DEF Seeded

\* The lists that a step leaves alone stay what they are.
LEMMA SameLists ==
  ASSUME ListTypes, UNCHANGED <<watchlist, flashList>>, ProperList(save'.watchlist)
  PROVE  ListTypes' /\ (Restorable => Restorable')
BY DEF ListTypes, Restorable

LEMMA ListOfCard ==
  ASSUME TypeOK
  PROVE  ProperList(card.watchlist)
<1>1. card \in Files \cup {NoFile}
  BY DEF TypeOK
<1>2. NoFile.watchlist = <<>>
  BY DEF NoFile
<1> QED
  BY <1>1, <1>2, EmptyProper, SettingsAssumption DEF ProperList

LEMMA BootLists ==
  ASSUME TypeOK, ListInv, PowerOn \/ Load \/ ImportSettings \/ SeedDefaultWatchlist
  PROVE  ListInv'
<1> USE DEF ListInv
<1>1. CASE PowerOn
  BY <1>1, SameLists DEF PowerOn, nvsVars, runVars, ListTypes
<1>2. CASE Load
  <2>1. main' = "import" /\ UNCHANGED <<flashList, save>>
    BY <1>2 DEF Load
  <2>2. /\ watchlist' = ReadList(StringKeys \ unread')
        /\ "watchlist" \notin unread' => watchlist' = Deserialize(flashList)
    BY <1>2 DEF Load, ReadList, StringKeys
  <2>3. ProperList(watchlist')
    <3>1. <<>> \in Seq(Texts)
      OBVIOUS
    <3>2. QED
      BY <2>2, <3>1, EmptyProper, AddTextsProper DEF ReadList, Deserialize, ListTypes
  <2> QED
    BY <2>1, <2>2, <2>3, EmptyProper DEF ListTypes, Restorable
<1>3. CASE ImportSettings
  <2>1. main = "import" /\ UNCHANGED <<flashList, watchlist, unread, unsaved>>
    BY <1>3 DEF ImportSettings, nvsVars, runVars, historyVars
  <2>2. \/ main' = "save" /\ save'.next = 1 /\ save'.watchlist = card.watchlist
        \/ main' = "seed" /\ UNCHANGED save
    BY <1>3 DEF ImportSettings, StartSave
  <2>3. ProperList(save'.watchlist)
    BY <2>2, ListOfCard DEF ListTypes
  <2> QED
    BY <2>1, <2>2, <2>3, SameLists
<1>4. CASE SeedDefaultWatchlist
  <2>1. /\ main = "seed" /\ main' = "idle" /\ watchlist' = Seeded(watchlist)
        /\ UNCHANGED <<flashList, save, unread, unsaved>>
    BY <1>4 DEF SeedDefaultWatchlist, nvsVars, historyVars
  <2>2. ProperList(Seeded(watchlist)) /\ Seeded(watchlist') = Seeded(watchlist)
    BY <2>1, SeededProper DEF ListTypes
  <2> QED
    BY <2>1, <2>2 DEF ListTypes, Restorable
<1> QED
  BY <1>1, <1>2, <1>3, <1>4

LEMMA SaveLists ==
  ASSUME TypeOK, ListInv, SaveStep
  PROVE  ListInv'
<1> USE DEF ListInv
<1>1. main = "save" /\ save.next \in 1..10
  BY StepFacts DEF TypeOK, SaveStep
<1>2. ProperList(NoSave.watchlist)
  BY EmptyProper DEF NoSave
<1>3. CASE SaveFails
  <2>1. /\ main' \in {"seed", "idle"} /\ unsaved' /\ save' = NoSave
        /\ UNCHANGED <<flashList, watchlist>>
    BY <1>3 DEF SaveFails, AfterSave, nvsVars, runVars
  <2> QED
    BY <1>2, <2>1, SameLists
<1>4. CASE Commit /\ save.next = 10
  <2>1. /\ main' \in {"seed", "idle"} /\ save' = NoSave /\ watchlist' = save.watchlist
        /\ UNCHANGED flashList
    BY <1>4 DEF Commit, AfterSave, nvsVars
  <2>2. ProperList(save.watchlist) /\ Deserialize(flashList) = save.watchlist
    BY <1>1, <1>4, RoundTrip DEF ListTypes
  <2> QED
    BY <1>2, <2>1, <2>2 DEF ListTypes, Restorable
<1>5. ASSUME Proceed, UNCHANGED watchlist,
             \/ UNCHANGED flashList /\ SaveSteps[save.next] # "watchlist"
             \/ flashList' = Serialize(save.watchlist) /\ SaveSteps[save.next] = "watchlist",
             save.next # 10
      PROVE  ListInv'
  <2>1. /\ main' = "save" /\ save'.watchlist = save.watchlist /\ save'.next = save.next + 1
    <3>1. save = [by |-> save.by, settings |-> save.settings, watchlist |-> save.watchlist,
                  next |-> save.next]
      BY DEF TypeOK
    <3>2. save' = [by |-> save.by, settings |-> save.settings, watchlist |-> save.watchlist,
                   next |-> save.next + 1]
      BY <1>5, <3>1 DEF Proceed
    <3>3. save'.watchlist = save.watchlist /\ save'.next = save.next + 1
      BY <3>2
    <3> QED
      BY <1>1, <1>5, <3>3 DEF Proceed
  <2>2. SaveSteps[9] = "watchlist"
    BY DEF SaveSteps
  <2>3. save.next + 1 = 10 => save.next = 9
    BY <1>1
  <2>4. flashList' \in Seq(Texts)
    BY <1>5, SerializeType DEF ListTypes, ProperList
  <2> QED
    BY <1>5, <2>1, <2>2, <2>3, <2>4 DEF ListTypes
<1>6. /\ save.next = 10 => SaveSteps[save.next] = "commit"
      /\ SaveSteps[save.next] = "commit" => save.next = 10
  BY <1>1, StepFacts
<1>7. "commit" \notin Fields /\ "watchlist" \notin Fields
  BY DEF Fields, ApiFields
<1> QED
  BY <1>3, <1>4, <1>5, <1>6, <1>7
  DEF SaveStep, WriteField, EraseLegacy, WriteWatchlist, nvsVars, runVars

\* What the user, or the end of the power, does.
LEMMA OtherLists ==
  ASSUME TypeOK, ListInv,
         \/ EraseAll \/ PowerCut \/ ResetSettings
         \/ \E setup \in Setups : SaveSetup(setup)
         \/ \E text \in Texts : AddSymbol(text)
         \/ \E index \in 1..kMaxSymbols : RemoveSymbol(index)
  PROVE  ListInv'
<1> USE DEF ListInv
<1>1. ASSUME NEW keys, Erase(keys)
      PROVE  flashList' \in Seq(Texts)
  BY <1>1 DEF Erase, ListTypes
<1>2. CASE EraseAll
  <2>1. main' = "idle" /\ UNCHANGED save
    BY <1>2 DEF EraseAll
  <2>2. CASE /\ Erase(NvsKeys) /\ watchlist' = Seeded(<<>>)
    <3>1. flashList' = <<>>
      BY <2>2 DEF Erase, NvsKeys
    <3>2. Deserialize(<<>>) = <<>>
      <4>1. ProperList(<<>>) /\ Serialize(<<>>) = <<>>
        <5>1. <<>> \in Seq(Symbols) /\ Len(<<>>) = 0
          OBVIOUS
        <5>2. Serialize(<<>>) \in Seq(Texts) /\ Len(Serialize(<<>>)) = 0
          BY <5>1, SerializeType
        <5> QED
          BY <5>2, EmptyProper
      <4> QED
        BY <4>1, RoundTrip
    <3> QED
      BY <2>1, <2>2, <3>1, <3>2, EmptyProper, SeededProper DEF ListTypes, Restorable
  <2>3. CASE unsaved' /\ UNCHANGED watchlist /\ \E keys \in SUBSET NvsKeys : Erase(keys)
    BY <1>1, <2>1, <2>3 DEF ListTypes
  <2> QED
    BY <1>2, <2>2, <2>3 DEF EraseAll, runVars
<1>3. CASE PowerCut
  <2>1. main' = "off" /\ watchlist' = <<>> /\ save' = NoSave
    BY <1>3 DEF PowerCut
  <2>2. flashList' \in Seq(Texts)
    BY <1>1, <1>3 DEF PowerCut, nvsVars, ListTypes
  <2>3. NoSave.watchlist = <<>>
    BY DEF NoSave
  <2> QED
    BY <2>1, <2>2, <2>3, EmptyProper DEF ListTypes
<1>4. CASE ResetSettings
  BY <1>4, SameLists DEF ResetSettings, nvsVars, runVars, ListTypes
<1>5. ASSUME NEW setup \in Setups, SaveSetup(setup)
      PROVE  ListInv'
  <2>1. /\ main' = "save" /\ save'.next = 1 /\ save'.watchlist = watchlist
        /\ UNCHANGED <<flashList, watchlist>>
    BY <1>5 DEF SaveSetup, StartSave, nvsVars
  <2> QED
    BY <2>1 DEF ListTypes
<1>6. ASSUME NEW list, ProperList(list), ChangeWatchlist(list)
      PROVE  ListInv'
  <2>1. /\ main' = "save" /\ save'.next = 1 /\ save'.watchlist = list /\ watchlist' = list
        /\ UNCHANGED flashList
    BY <1>6 DEF ChangeWatchlist, StartSave, nvsVars
  <2> QED
    BY <1>6, <2>1 DEF ListTypes
<1>7. ASSUME NEW text \in Texts, AddSymbol(text)
      PROVE  ListInv'
  <2>1. Parse[text] \in Symbols
    BY <1>7, WatchlistAssumption DEF AddSymbol
  <2> QED
    BY <1>6, <1>7, <2>1, AddedProper DEF AddSymbol, ListTypes
<1>8. ASSUME NEW index, RemoveSymbol(index)
      PROVE  ListInv'
  BY <1>6, <1>8, RemovedProper DEF RemoveSymbol, ListTypes
<1> QED
  BY <1>2, <1>3, <1>4, <1>5, <1>7, <1>8

LEMMA ListsInvariant == Spec => [](TypeOK /\ ListInv)
<1>1. Init => ListInv
  <2> SUFFICES ASSUME Init PROVE ListInv
    OBVIOUS
  <2>1. watchlist = <<>> /\ save.watchlist = <<>> /\ flashList = <<>> /\ main = "off"
    BY DEF Init, NoSave
  <2> QED
    BY <2>1, EmptyProper DEF ListInv, ListTypes
<1>2. TypeOK /\ ListInv /\ [Next]_vars => ListInv'
  <2> SUFFICES ASSUME TypeOK, ListInv, [Next]_vars PROVE ListInv'
    OBVIOUS
  <2>1. CASE UNCHANGED vars
    BY <2>1 DEF vars, nvsVars, runVars, historyVars, ListInv, ListTypes, Restorable
  <2> QED
    BY <2>1, BootLists, SaveLists, OtherLists DEF Next
<1> QED
  BY <1>1, <1>2, TypeCorrect, PTL DEF Spec

\* However many symbols the user adds and removes, whatever texts NVS or a file has,
\* and wherever a save is interrupted: no watchlist has a symbol twice or more than
\* the stream may subscribe.
THEOREM WatchlistsAreProper == Spec => []WatchlistIsProper
<1>1. ListInv => WatchlistIsProper
  BY DEF ListInv, ListTypes, ProperList, WatchlistIsProper
<1> QED
  BY <1>1, ListsInvariant, PTL

\* What is written of a watchlist of any length is read as the same list, so that a
\* restart brings it back unless the user was told that it is not saved, or it could
\* not be read at this boot.
THEOREM WatchlistsSurviveRestart == Spec => []WatchlistSurvivesRestart
<1>1. ListInv => WatchlistSurvivesRestart
  BY DEF ListInv, Restorable, WatchlistSurvivesRestart
<1> QED
  BY <1>1, ListsInvariant, PTL

===============================================================================
