---------------------------- MODULE TerminalProofs ----------------------------
(***************************************************************************)
(* Theorems about Terminal, for forms and tables of every length and any   *)
(* number of gestures, redraws and failures: saving the setup changes only *)
(* what the user changed on the screen; the screen describes the row that  *)
(* Remove would take, the table shows the store, and what is removed is    *)
(* the symbol that was chosen.                                             *)
(***************************************************************************)
EXTENDS Terminal, TLAPS, SequenceTheorems, FiniteSetTheorems

Entry == [form : Form, edited : SUBSET (Inputs \cup {"endpoint"})]

IsEntry(setup) == setup # None => setup \in Entry

\* The types of what a setup goes through, from the screen to the settings.
SetupTypes ==
  /\ settings \in Form /\ form \in Form
  /\ edited \subseteq Inputs \cup {"endpoint"}
  /\ pending = [kind \in Kinds |-> pending[kind]] /\ IsEntry(pending["setup"])
  /\ taken = [kind \in Kinds |-> taken[kind]] /\ IsEntry(taken["setup"])

\* The main task is in handle_setup_save, after the settings were replaced.
InSetup ==
  \/ main \in {"setupSave", "setupShow"}
  \/ main \in {"pull", "pulling", "subscribe"} /\ after = "setupShow"

\* Where the main task is says whether a setup was taken, and the focus on what
\* screen it is.
Control ==
  /\ InSetup => taken["setup"] # None
  /\ taken["setup"] # None => InSetup \/ main = "setup"
  /\ main = "erase" => taken["reset"] # None
  /\ main = "boot" => /\ after = "sleep" /\ mode = "none" /\ focus = None
                      /\ pending["setup"] = None
  /\ after \in {"sleep", "setupShow", "remove", "refresh", "reset"}
  /\ focus \in Inputs \cup {"save"} => mode = "setup"

\* A form agrees with the settings in all that was not edited.
Agrees(f, changed) ==
  /\ \A i \in Inputs \ changed : f.text[i] = settings.text[i]
  /\ "endpoint" \notin changed => f.endpoint = settings.endpoint

\* So does a setup on its way; and while its screen is shown, what was edited in it
\* still counts as edited.
Fits(setup) ==
  /\ Agrees(setup.form, setup.edited)
  /\ mode = "setup" => setup.edited \subseteq edited

\* Wherever a setup is, it agrees with the settings, unless one has crossed another or a
\* reset; a setup that waits found no other and no reset under way.
SetupsFit ==
  ~crossed =>
    /\ mode = "setup" => Agrees(form, edited)
    /\ pending["setup"] # None =>
         /\ taken["setup"] = None /\ taken["reset"] = None
         /\ Fits(pending["setup"])
    /\ main = "setup" /\ taken["setup"] # None => Fits(taken["setup"])

TerminalInv == SetupTypes /\ Control /\ SetupsFit

-------------------------------------------------------------------------------
(* What the steps do to the screen, the slots and the place of the main task *)

\* Nothing on the screen that concerns the setup has changed, or the watchlist is
\* shown.
Redrawn ==
  \/ UNCHANGED <<mode, form, edited, focus>>
  \/ mode' = "watchlist" /\ form' = NewForm /\ edited' = {} /\ focus' = "symbol"

\* The slots are as they were, but for one that is not of a setup.
OthersDone ==
  /\ UNCHANGED <<pending, crossed>>
  /\ \/ UNCHANGED taken
     \/ \E kind \in Kinds \ {"setup"} : taken' = [taken EXCEPT ![kind] = None]

\* The main task stays outside of handle_setup_save or inside of it.
Elsewhere ==
  /\ main # "boot" /\ main' \notin {"boot", "setup", "setupSave"}
  /\ after' \in {"sleep", "setupShow", "remove", "refresh", "reset"}
  /\ taken["setup"] # None => InSetup'
  /\ InSetup' => InSetup
  /\ main' = "erase" => taken["reset"] # None /\ UNCHANGED taken

LEMMA RedrawRedraws == ASSUME NEW s, RedrawWatchlist(s) PROVE Redrawn
BY DEF RedrawWatchlist, ShowWatchlist, ResetContent, Redrawn

LEMMA SameScreen == ASSUME UNCHANGED screenVars PROVE Redrawn
BY DEF screenVars, entryVars, Redrawn

LEMMA DoneOther ==
  ASSUME NEW kind \in Kinds \ {"setup"}, Done(kind)
  PROVE  OthersDone
BY DEF Done, OthersDone

LEMMA SameActions == ASSUME UNCHANGED actionVars PROVE OthersDone
BY DEF actionVars, OthersDone

\* The steps of the main task that leave setup and settings alone.
OtherActions ==
  \/ Skip("setup", "add") \/ Skip("add", "remove") \/ Skip("remove", "refresh")
  \/ Skip("refresh", "reset") \/ Skip("reset", "deltas")
  \/ HandleAdd \/ SaveAdded \/ HandleRemove \/ SaveRemoved \/ HandleRefresh \/ HandleReset
  \/ ProcessQuoteDeltas \/ HandleWifi \/ HandleStream \/ Sweep \/ RunScheduledRefresh
  \/ StartPull \/ Pull \/ Subscribe

LEMMA OthersRedraw ==
  ASSUME OtherActions
  PROVE  Redrawn /\ UNCHANGED settings
<1>1. CASE Skip("setup", "add") \/ Skip("add", "remove") \/ Skip("remove", "refresh")
           \/ Skip("refresh", "reset") \/ Skip("reset", "deltas")
  BY <1>1, SameScreen DEF Skip, dataVars
<1>2. CASE HandleAdd \/ HandleRemove \/ HandleRefresh \/ HandleReset
  BY <1>2, SameScreen DEF HandleAdd, HandleRemove, HandleRefresh, HandleReset, dataVars
<1>3. CASE SaveAdded \/ SaveRemoved
  BY <1>3, RedrawRedraws DEF SaveAdded, SaveRemoved, dataVars
<1>4. CASE ProcessQuoteDeltas
  BY <1>4, RedrawRedraws, SameScreen DEF ProcessQuoteDeltas, TakeQuoteDeltas,
         ApplyQuoteDeltas, dataVars
<1>5. CASE HandleWifi \/ HandleStream
  BY <1>5, RedrawRedraws, SameScreen DEF HandleWifi, HandleStream, dataVars
<1>6. CASE Sweep \/ RunScheduledRefresh \/ Subscribe
  BY <1>6, RedrawRedraws, SameScreen DEF Sweep, RunScheduledRefresh, Subscribe, dataVars
<1>7. CASE StartPull \/ Pull
  BY <1>7, RedrawRedraws, SameScreen DEF StartPull, Pull, dataVars
<1> QED
  BY <1>1, <1>2, <1>3, <1>4, <1>5, <1>6, <1>7 DEF OtherActions

LEMMA OthersKeepSetup ==
  ASSUME OtherActions
  PROVE  OthersDone
<1> USE DEF Kinds
<1>1. CASE Skip("setup", "add") \/ Skip("add", "remove") \/ Skip("remove", "refresh")
           \/ Skip("refresh", "reset") \/ Skip("reset", "deltas")
  BY <1>1, SameActions DEF Skip
<1>2. CASE HandleAdd \/ SaveAdded
  BY <1>2, SameActions, DoneOther DEF HandleAdd, SaveAdded
<1>3. CASE HandleRemove \/ SaveRemoved
  BY <1>3, SameActions, DoneOther DEF HandleRemove, SaveRemoved
<1>4. CASE HandleRefresh \/ HandleReset
  BY <1>4, SameActions, DoneOther DEF HandleRefresh, HandleReset
<1>5. CASE ProcessQuoteDeltas \/ HandleWifi \/ HandleStream \/ Sweep \/ RunScheduledRefresh
  BY <1>5, SameActions DEF ProcessQuoteDeltas, TakeQuoteDeltas, ApplyQuoteDeltas, HandleWifi,
         HandleStream, Sweep,
                           RunScheduledRefresh
<1>6. CASE StartPull \/ Pull \/ Subscribe
  BY <1>6, SameActions DEF StartPull, Pull, Subscribe
<1> QED
  BY <1>1, <1>2, <1>3, <1>4, <1>5, <1>6 DEF OtherActions

LEMMA OthersAreElsewhere ==
  ASSUME Control, OtherActions
  PROVE  Elsewhere
<1> USE DEF Control, Elsewhere, InSetup
<1>1. CASE Skip("setup", "add") \/ Skip("add", "remove") \/ Skip("remove", "refresh")
           \/ Skip("refresh", "reset") \/ Skip("reset", "deltas")
  BY <1>1 DEF Skip, Goto
<1>2. CASE HandleAdd \/ SaveAdded
  BY <1>2 DEF HandleAdd, SaveAdded, Goto
<1>3. CASE HandleRemove \/ SaveRemoved
  BY <1>3 DEF HandleRemove, SaveRemoved, Goto
<1>4. CASE HandleRefresh \/ HandleReset
  BY <1>4 DEF HandleRefresh, HandleReset, Goto, actionVars
<1>5. CASE ProcessQuoteDeltas \/ HandleWifi \/ HandleStream \/ Sweep
  BY <1>5 DEF ProcessQuoteDeltas, TakeQuoteDeltas, ApplyQuoteDeltas, HandleWifi,
         HandleStream, Sweep, Goto
<1>6. CASE RunScheduledRefresh
  BY <1>6 DEF RunScheduledRefresh, Goto
<1>7. CASE StartPull
  BY <1>7 DEF StartPull, Goto, Return
<1>8. CASE Pull \/ Subscribe
  BY <1>8 DEF Pull, Subscribe, Goto, Return
<1> QED
  BY <1>1, <1>2, <1>3, <1>4, <1>5, <1>6, <1>7, <1>8 DEF OtherActions

-------------------------------------------------------------------------------
(* The other steps of the main task *)

LEMMA OthersPreserve ==
  ASSUME TerminalInv, OtherActions
  PROVE  TerminalInv'
<1>1. Redrawn /\ UNCHANGED settings /\ OthersDone /\ Elsewhere
  BY OthersRedraw, OthersKeepSetup, OthersAreElsewhere DEF TerminalInv
<1>2. /\ taken' = [kind \in Kinds |-> taken'[kind]]
      /\ taken'["setup"] = taken["setup"]
      /\ taken["reset"] = None => taken'["reset"] = None
  BY <1>1 DEF TerminalInv, SetupTypes, OthersDone, Kinds
<1>3. SetupTypes'
  <2>1. NewForm \in Form
    BY DEF NewForm, Form, Inputs, Regions
  <2> QED
    BY <1>1, <1>2, <2>1 DEF TerminalInv, SetupTypes, IsEntry, OthersDone, Redrawn
<1>4. Control'
  BY <1>1, <1>2 DEF TerminalInv, Control, InSetup, OthersDone, Redrawn, Elsewhere, Inputs
<1>5. SetupsFit'
  BY <1>1, <1>2 DEF TerminalInv, SetupsFit, Fits, Agrees, OthersDone, Redrawn, Elsewhere
<1> QED
  BY <1>3, <1>4, <1>5 DEF TerminalInv

-------------------------------------------------------------------------------
(* The steps of the main task that have to do with a setup *)

LEMMA ShownType ==
  ASSUME NEW f \in Form, ShowSetup(f)
  PROVE  /\ mode' = "setup" /\ form' = f /\ edited' = {} /\ focus' = "ssid"
         /\ form' \in Form
BY DEF ShowSetup, ResetContent, Filled

LEMMA BootPreserves ==
  ASSUME TerminalInv, Boot
  PROVE  TerminalInv'
<1> USE DEF TerminalInv
<1>1. UNCHANGED <<settings, pending, taken, crossed, after>> /\ main = "boot"
  BY DEF Boot, dataVars, actionVars, Goto
<1>2. pending["setup"] = None /\ taken["setup"] = None /\ after = "sleep"
  BY <1>1 DEF Control, InSetup
<1>3. CASE Redrawn /\ mode' = "watchlist" /\ main' = "pull"
  <2>1. NewForm \in Form
    BY DEF NewForm, Form, Inputs, Regions
  <2>2. SetupTypes'
    BY <1>1, <1>3, <2>1 DEF SetupTypes, IsEntry, Redrawn
  <2>3. Control'
    BY <1>1, <1>2, <1>3 DEF Control, InSetup, Redrawn, Inputs
  <2>4. SetupsFit'
    BY <1>1, <1>2, <1>3 DEF SetupsFit
  <2> QED
    BY <2>2, <2>3, <2>4
<1>4. CASE ShowSetup(settings) /\ main' = "sleep"
  <2>1. mode' = "setup" /\ form' = settings /\ edited' = {} /\ focus' = "ssid"
    BY <1>4, ShownType DEF SetupTypes
  <2>2. SetupTypes'
    BY <1>1, <2>1 DEF SetupTypes, IsEntry
  <2>3. Control'
    BY <1>1, <1>2, <1>4, <2>1 DEF Control, InSetup
  <2>4. SetupsFit'
    BY <1>1, <1>2, <2>1 DEF SetupsFit, Agrees
  <2> QED
    BY <2>2, <2>3, <2>4
<1>5. RedrawWatchlist(store) => mode' = "watchlist"
  BY DEF RedrawWatchlist, ShowWatchlist
<1> QED
  BY <1>3, <1>4, <1>5, RedrawRedraws DEF Boot, Goto

LEMMA TakePreserves ==
  ASSUME TerminalInv, TakeActions
  PROVE  TerminalInv'
<1> USE DEF TerminalInv
<1>1. /\ UNCHANGED <<settings, form, edited, mode, focus, crossed, after>>
      /\ main = "sleep" /\ main' = "setup"
  BY DEF TakeActions, Goto, dataVars, screenVars, entryVars
<1>2. taken["setup"] = None
  BY <1>1 DEF Control, InSetup
<1>3. NoActions = [kind \in Kinds |-> NoActions[kind]] /\ NoActions["setup"] = None
  BY DEF NoActions, Kinds
<1>4. \/ taken' = pending /\ pending' = NoActions
      \/ UNCHANGED <<pending, taken>>
  BY DEF TakeActions
<1>5. SetupTypes'
  BY <1>1, <1>3, <1>4 DEF SetupTypes, IsEntry
<1>6. Control'
  BY <1>1, <1>2, <1>3, <1>4 DEF Control, InSetup
<1>7. SetupsFit'
  BY <1>1, <1>2, <1>3, <1>4 DEF SetupsFit, Fits, Agrees
<1> QED
  BY <1>5, <1>6, <1>7

\* The settings become what was entered, with which the screen still agrees.
LEMMA HandleSetupPreserves ==
  ASSUME TerminalInv, HandleSetup
  PROVE  TerminalInv'
<1> USE DEF TerminalInv
<1>1. /\ UNCHANGED <<form, edited, mode, focus, crossed, after, pending, taken>>
      /\ main = "setup" /\ main' = "setupSave"
      /\ taken["setup"] # None /\ settings' = taken["setup"].form
  BY DEF HandleSetup, Goto, screenVars, entryVars, actionVars
<1>2. SetupTypes'
  BY <1>1 DEF SetupTypes, IsEntry, Entry
<1>3. Control'
  BY <1>1 DEF Control, InSetup
<1>4. ASSUME ~crossed
      PROVE  /\ mode = "setup" => Agrees(form, edited)'
             /\ pending["setup"] = None
  BY <1>1, <1>4 DEF SetupsFit, Fits, Agrees
<1>5. SetupsFit'
  BY <1>1, <1>4 DEF SetupsFit
<1> QED
  BY <1>2, <1>3, <1>5

LEMMA DoneSetup ==
  ASSUME SetupTypes, Done("setup")
  PROVE  /\ UNCHANGED <<pending, crossed>>
         /\ taken'["setup"] = None
         /\ taken' = [kind \in Kinds |-> taken'[kind]]
         /\ taken'["reset"] = taken["reset"]
BY DEF SetupTypes, Done, Kinds

LEMMA SaveSetupPreserves ==
  ASSUME TerminalInv, SaveSetup
  PROVE  TerminalInv'
<1> USE DEF TerminalInv
<1>1. UNCHANGED <<settings, form, edited, mode, focus>> /\ main = "setupSave"
  BY DEF SaveSetup, dataVars, screenVars, entryVars
<1>2. CASE Done("setup") /\ Goto("add")
  <2>1. SetupTypes'
    BY <1>1, <1>2, DoneSetup DEF SetupTypes, IsEntry
  <2>2. Control'
    BY <1>1, <1>2, DoneSetup DEF Control, InSetup, Goto
  <2>3. SetupsFit'
    BY <1>1, <1>2, DoneSetup DEF SetupsFit, Fits, Agrees, Goto
  <2> QED
    BY <2>1, <2>2, <2>3
<1>3. CASE UNCHANGED actionVars /\ (Goto("setupShow") \/ (main' = "pull" /\ after' = "setupShow"))
  <2>1. SetupTypes'
    BY <1>1, <1>3 DEF SetupTypes, IsEntry, actionVars
  <2>2. Control'
    BY <1>1, <1>3 DEF Control, InSetup, Goto, actionVars
  <2>3. SetupsFit'
    BY <1>1, <1>3 DEF SetupsFit, Fits, Agrees, Goto, actionVars
  <2> QED
    BY <2>1, <2>2, <2>3
<1> QED
  BY <1>2, <1>3 DEF SaveSetup

LEMMA ShowSavedSetupPreserves ==
  ASSUME TerminalInv, ShowSavedSetup
  PROVE  TerminalInv'
<1> USE DEF TerminalInv
<1>1. /\ UNCHANGED settings /\ main = "setupShow" /\ main' = "add" /\ UNCHANGED after
      /\ mode' = "setup" /\ form' = settings /\ edited' = {} /\ focus' = "ssid"
  BY ShownType DEF ShowSavedSetup, SetupTypes, Goto, dataVars
<1>2. /\ UNCHANGED <<pending, crossed>>
      /\ taken'["setup"] = None
      /\ taken' = [kind \in Kinds |-> taken'[kind]]
      /\ taken'["reset"] = taken["reset"]
  BY DoneSetup DEF ShowSavedSetup
<1>3. SetupTypes'
  BY <1>1, <1>2 DEF SetupTypes, IsEntry
<1>4. Control'
  BY <1>1, <1>2 DEF Control, InSetup
<1>5. taken["setup"] # None
  BY <1>1 DEF Control, InSetup
<1>6. SetupsFit'
  BY <1>1, <1>2, <1>5 DEF SetupsFit, Agrees
<1> QED
  BY <1>3, <1>4, <1>6

\* A setup that waits while a reset is under way has crossed it.
LEMMA EraseSettingsPreserves ==
  ASSUME TerminalInv, EraseSettings
  PROVE  TerminalInv'
<1> USE DEF TerminalInv
<1>1. main = "erase" /\ main' = "deltas" /\ UNCHANGED <<after, pending, crossed>>
  BY DEF EraseSettings, Goto, Done
<1>2. /\ taken'["setup"] = taken["setup"] /\ taken["setup"] = None
      /\ taken' = [kind \in Kinds |-> taken'[kind]]
      /\ taken["reset"] # None
  BY <1>1 DEF EraseSettings, Done, SetupTypes, Kinds, Control, InSetup
<1>3. CASE settings' = NewForm /\ ShowSetup(NewForm)
  <2>1. NewForm \in Form
    BY DEF NewForm, Form, Inputs, Regions
  <2>2. mode' = "setup" /\ form' = NewForm /\ edited' = {} /\ focus' = "ssid"
    BY <1>3, <2>1, ShownType
  <2>3. SetupTypes'
    BY <1>1, <1>2, <1>3, <2>1, <2>2 DEF SetupTypes, IsEntry
  <2>4. Control'
    BY <1>1, <1>2, <2>2 DEF Control, InSetup
  <2>5. SetupsFit'
    BY <1>1, <1>2, <1>3, <2>2 DEF SetupsFit, Agrees
  <2> QED
    BY <2>3, <2>4, <2>5
<1>4. CASE UNCHANGED <<settings, form, edited, mode, focus>>
  <2>1. SetupTypes'
    BY <1>1, <1>2, <1>4 DEF SetupTypes, IsEntry
  <2>2. Control'
    BY <1>1, <1>2, <1>4 DEF Control, InSetup
  <2>3. SetupsFit'
    BY <1>1, <1>2, <1>4 DEF SetupsFit, Agrees
  <2> QED
    BY <2>1, <2>2, <2>3
<1> QED
  BY <1>3, <1>4 DEF EraseSettings, dataVars, screenVars, entryVars

-------------------------------------------------------------------------------
(* The user *)

LEMMA ObjectsOfScreens ==
  /\ Range(Objects("watchlist")) \cap (Inputs \cup {"save"}) = {}
  /\ mode \notin {"setup", "watchlist"} => Range(Objects(mode)) = {}
BY DEF Objects, WatchlistObjects, Range, Inputs

LEMMA SetupObject ==
  ASSUME NEW object \in Range(Objects(mode)), object \in Inputs \cup {"save"}
  PROVE  mode = "setup"
BY ObjectsOfScreens

\* MoveFocus stays on the screen.
LEMMA FocusStays ==
  ASSUME NEW i \in DOMAIN Objects(mode), NEW step \in {1, Len(Objects(mode)) - 1}
  PROVE  Objects(mode)[((i - 1 + step) % Len(Objects(mode))) + 1] \in Range(Objects(mode))
<1>1. CASE mode = "setup"
  <2>1. Len(Objects(mode)) = 8 /\ DOMAIN Objects(mode) = 1..8
    BY <1>1 DEF Objects, SetupObjects
  <2>2. (i - 1 + step) % 8 \in 0..7
    BY <2>1
  <2>3. ((i - 1 + step) % Len(Objects(mode))) + 1 \in DOMAIN Objects(mode)
    BY <2>1, <2>2
  <2> QED
    BY <2>3 DEF Range
<1>2. CASE mode = "watchlist"
  <2>1. Len(Objects(mode)) = 6 /\ DOMAIN Objects(mode) = 1..6
    BY <1>2 DEF Objects, WatchlistObjects
  <2>2. (i - 1 + step) % 6 \in 0..5
    BY <2>1
  <2>3. ((i - 1 + step) % Len(Objects(mode))) + 1 \in DOMAIN Objects(mode)
    BY <2>1, <2>2
  <2> QED
    BY <2>3 DEF Range
<1>3. CASE mode \notin {"setup", "watchlist"}
  BY <1>3 DEF Objects
<1> QED
  BY <1>1, <1>2, <1>3

\* Only a setup that is saved from its own screen is queued, and it fits unless it
\* crosses another.
Queued ==
  \/ UNCHANGED pending /\ (crossed => crossed')
  \/ /\ \E kind \in Kinds \ {"setup"} : \E value : pending' = [pending EXCEPT ![kind] = value]
     /\ UNCHANGED crossed
  \/ /\ mode = "setup"
     /\ pending' = [pending EXCEPT !["setup"] = Entered]
     /\ crossed' = (crossed \/ taken["setup"] # None \/ taken["reset"] # None)

LEMMA ActivateQueues ==
  ASSUME NEW object, Activate(object), object \in Inputs \cup {"save"} => mode = "setup"
  PROVE  Queued
BY DEF Activate, Queue, Queued, Kinds

\* What a gesture does to the form keeps the rest of it.
Typing ==
  \/ UNCHANGED <<form, edited>>
  \/ /\ mode = "setup" /\ edited \subseteq edited' /\ edited' \subseteq Inputs \cup {"endpoint"}
     /\ form' \in Form
     /\ \A i \in Inputs \ edited' : form'.text[i] = form.text[i]
     /\ "endpoint" \notin edited' => form'.endpoint = form.endpoint

Gestured ==
  /\ Queued /\ Typing
  /\ UNCHANGED <<settings, mode, taken, main, after>>
  /\ focus' \in Inputs \cup {"save"} => mode = "setup"
  /\ main = "boot" => focus' = None

LEMMA GestureKeeps ==
  ASSUME Gesture
  PROVE  UNCHANGED <<settings, mode, taken, main, after>>
BY DEF Gesture, dataVars, controlVars

LEMMA EnterGestures ==
  ASSUME Control, PressEnter
  PROVE  Gestured
<1>1. Queued
  BY ActivateQueues DEF PressEnter, Control
<1> QED
  BY <1>1, GestureKeeps DEF PressEnter, Gestured, Typing, Control

LEMMA TapGestures ==
  ASSUME Control, Tap
  PROVE  Gestured
<1>1. PICK object \in Range(Objects(mode)) :
        /\ focus' = object
        /\ Activate(object) \/ UNCHANGED <<pending, crossed>>
  BY DEF Tap
<1>2. object \in Inputs \cup {"save"} => mode = "setup"
  BY SetupObject
<1>3. Queued
  BY <1>1, <1>2, ActivateQueues DEF Queued
<1>4. main # "boot"
  BY ObjectsOfScreens DEF Control
<1> QED
  BY <1>1, <1>2, <1>3, <1>4, GestureKeeps DEF Tap, Gestured, Typing

LEMMA MoveGestures ==
  ASSUME Control, MoveFocus
  PROVE  Gestured
<1>1. focus' \in Range(Objects(mode))
  BY FocusStays DEF MoveFocus
<1>2. focus' \in Inputs \cup {"save"} => mode = "setup"
  BY <1>1, SetupObject
<1>3. main # "boot"
  BY <1>1, ObjectsOfScreens DEF Control
<1> QED
  BY <1>2, <1>3, GestureKeeps DEF MoveFocus, Gestured, Queued, Typing

\* Typing in one input leaves the others.
LEMMA TypeGestures ==
  ASSUME SetupTypes, Control, Type
  PROVE  Gestured
<1>1. UNCHANGED <<pending, crossed, focus>>
  BY DEF Type
<1>2. CASE UNCHANGED <<form, edited>>
  BY <1>1, <1>2, GestureKeeps DEF Type, Gestured, Queued, Typing, Control
<1>3. ASSUME focus \in Inputs,
             NEW text \in Typed(focus, form.text[focus]) \cup Erased(form.text[focus]),
             form' = [form EXCEPT !.text[focus] = text],
             edited' = edited \cup {focus}
      PROVE  Gestured
  <2>1. form.text[focus] \in Seq(Chars)
    BY <1>3 DEF SetupTypes, Form
  <2>2. text \in Seq(Chars)
    <3>1. CASE text \in Typed(focus, form.text[focus])
      BY <2>1, <3>1 DEF Typed
    <3>2. CASE text \in Erased(form.text[focus])
      <4>1. <<>> \in Seq(Chars)
        OBVIOUS
      <4>2. ASSUME NEW s \in Seq(Chars), s # <<>>
            PROVE  SubSeq(s, 1, Len(s) - 1) \in Seq(Chars)
        BY <4>2
      <4> QED
        BY <2>1, <3>2, <4>1, <4>2 DEF Erased, Front
    <3> QED
      BY <1>3, <3>1, <3>2
  <2>3. /\ form' \in Form
        /\ \A i \in Inputs \ {focus} : form'.text[i] = form.text[i]
        /\ form'.endpoint = form.endpoint
    BY <1>3, <2>2 DEF SetupTypes, Form
  <2>4. Typing
    BY <1>3, <2>3 DEF Typing, SetupTypes, Control
  <2> QED
    BY <1>1, <2>4, GestureKeeps DEF Type, Gestured, Queued, Control
<1> QED
  BY <1>2, <1>3 DEF Type

LEMMA ChooseGestures ==
  ASSUME SetupTypes, Control, ChooseEndpoint
  PROVE  Gestured
<1>1. /\ form' \in Form /\ \A i \in Inputs : form'.text[i] = form.text[i]
      /\ edited' = edited \cup {"endpoint"}
  BY DEF ChooseEndpoint, SetupTypes, Form
<1>2. mode = "setup" /\ focus' = "endpoint" /\ UNCHANGED <<pending, crossed>>
  BY DEF ChooseEndpoint
<1> QED
  BY <1>1, <1>2, GestureKeeps
  DEF ChooseEndpoint, Gestured, Queued, Typing, SetupTypes, Control

LEMMA SelectGestures ==
  ASSUME Control, SelectRow
  PROVE  Gestured
BY GestureKeeps DEF SelectRow, Gestured, Queued, Typing, Control, Inputs

LEMMA UserPreserves ==
  ASSUME TerminalInv, User
  PROVE  TerminalInv'
<1> USE DEF TerminalInv
<1>1. Gestured
  BY EnterGestures, TapGestures, MoveGestures, TypeGestures, ChooseGestures, SelectGestures
  DEF User
<1>2. /\ pending' = [kind \in Kinds |-> pending'[kind]]
      /\ \/ pending'["setup"] = pending["setup"] /\ (crossed => crossed')
         \/ /\ mode = "setup" /\ pending'["setup"] = Entered
            /\ crossed' = (crossed \/ taken["setup"] # None \/ taken["reset"] # None)
  BY <1>1 DEF Gestured, Queued, SetupTypes, Kinds
<1>3. SetupTypes'
  <2>1. Entered \in Entry
    BY DEF Entered, Entry, SetupTypes
  <2> QED
    BY <1>1, <1>2, <2>1 DEF Gestured, Typing, SetupTypes, IsEntry
<1>4. Control'
  BY <1>1, <1>2 DEF Gestured, Control, InSetup
<1>5. SetupsFit'
  <2> SUFFICES ASSUME ~crossed'
               PROVE  SetupsFit'
    BY DEF SetupsFit
  <2>1. ~crossed
    BY <1>2
  <2>2. mode' = "setup" => Agrees(form, edited)'
    BY <1>1, <2>1 DEF Gestured, Typing, SetupsFit, Agrees
  <2>3. ASSUME NEW setup, Fits(setup)
        PROVE  Fits(setup)'
    BY <1>1, <2>3 DEF Gestured, Typing, Fits, Agrees
  <2>4. Fits(Entered) \/ mode # "setup"
    BY <2>1 DEF Fits, Agrees, Entered, SetupsFit
  <2>5. pending'["setup"] # None =>
          /\ taken["setup"] = None /\ taken["reset"] = None
          /\ Fits(pending'["setup"])
    <3>1. CASE pending'["setup"] = pending["setup"]
      BY <2>1, <3>1 DEF SetupsFit
    <3>2. CASE /\ mode = "setup" /\ pending'["setup"] = Entered
               /\ crossed' = (crossed \/ taken["setup"] # None \/ taken["reset"] # None)
      <4>1. taken["setup"] = None /\ taken["reset"] = None
        BY <3>2
      <4>2. Fits(Entered)
        BY <2>4, <3>2
      <4> QED
        BY <3>2, <4>1, <4>2
    <3> QED
      BY <1>2, <3>1, <3>2
  <2>6. main = "setup" /\ taken["setup"] # None => Fits(taken["setup"])
    BY <2>1 DEF SetupsFit
  <2> HIDE DEF Fits
  <2>7. pending'["setup"] # None => Fits(pending["setup"])'
    BY <2>3, <2>5 DEF Fits, Agrees
  <2>8. main = "setup" /\ taken["setup"] # None => Fits(taken["setup"])'
    BY <1>1, <2>3, <2>6 DEF Gestured
  <2> QED
    BY <1>1, <2>2, <2>5, <2>7, <2>8 DEF SetupsFit, Gestured
<1> QED
  BY <1>3, <1>4, <1>5

-------------------------------------------------------------------------------
(* The theorem *)

LEMMA InitFits == Init => TerminalInv
<1> SUFFICES ASSUME Init PROVE TerminalInv
  OBVIOUS
<1>1. NewForm \in Form
  BY DEF NewForm, Form, Inputs, Regions
<1>2. NoActions = [kind \in Kinds |-> NoActions[kind]] /\ NoActions["setup"] = None
  BY DEF NoActions, Kinds
<1>3. SetupTypes
  BY <1>1, <1>2, TerminalAssumption DEF Init, SetupTypes, IsEntry
<1>4. Control
  BY <1>2, TerminalAssumption DEF Init, Control, InSetup
<1>5. SetupsFit
  BY <1>2 DEF Init, SetupsFit
<1> QED
  BY <1>3, <1>4, <1>5 DEF TerminalInv

LEMMA StepFits == TerminalInv /\ [Next]_vars => TerminalInv'
<1> SUFFICES ASSUME TerminalInv, [Next]_vars PROVE TerminalInv'
  OBVIOUS
<1>1. CASE User
  BY <1>1, UserPreserves
<1>2. CASE Boot \/ TakeActions
  BY <1>2, BootPreserves, TakePreserves
<1>3. CASE HandleSetup \/ SaveSetup \/ ShowSavedSetup
  BY <1>3, HandleSetupPreserves, SaveSetupPreserves, ShowSavedSetupPreserves
<1>4. CASE EraseSettings
  BY <1>4, EraseSettingsPreserves
<1>5. CASE OtherActions
  BY <1>5, OthersPreserve
<1>6. CASE Push \/ StreamEnds \/ UNCHANGED vars
  <2>1. UNCHANGED <<settings, mode, form, edited, focus, pending, taken, crossed, main, after>>
    BY <1>6 DEF Push, StreamEnds, vars, dataVars, screenVars, entryVars, actionVars, controlVars
  <2> QED
    BY <2>1 DEF TerminalInv, SetupTypes, IsEntry, Control, InSetup, SetupsFit, Fits, Agrees
<1>7. MainTask => \/ Boot \/ TakeActions \/ HandleSetup \/ SaveSetup \/ ShowSavedSetup
                  \/ EraseSettings \/ OtherActions
  BY DEF MainTask, PendingActions, OtherActions
<1> QED
  BY <1>1, <1>2, <1>3, <1>4, <1>5, <1>6, <1>7 DEF Next

\* However many redraws, saves and failures come between the gestures of the user, a
\* setup that is handled changes nothing that was not changed on the screen, unless it
\* was saved into a save or a reset under way.
THEOREM UntouchedAreKept == Spec => UntouchedSettingsKept
<1>1. Init => TerminalInv
  BY InitFits
<1>2. TerminalInv /\ [Next]_vars => TerminalInv'
  BY StepFits
<1>3. TerminalInv /\ [Next]_vars =>
        [main = "setup" /\ main' = "setupSave" /\ ~crossed =>
           /\ \A i \in Inputs \ taken["setup"].edited : settings'.text[i] = settings.text[i]
           /\ "endpoint" \notin taken["setup"].edited =>
                settings'.endpoint = settings.endpoint]_vars
  <2> SUFFICES ASSUME TerminalInv, Next, main = "setup", main' = "setupSave", ~crossed
               PROVE  /\ \A i \in Inputs \ taken["setup"].edited :
                           settings'.text[i] = settings.text[i]
                      /\ "endpoint" \notin taken["setup"].edited =>
                           settings'.endpoint = settings.endpoint
    OBVIOUS
  <2>1. HandleSetup
    <3>1. ~User /\ ~Push /\ ~StreamEnds
      BY GestureKeeps DEF User, PressEnter, Tap, MoveFocus, Type, ChooseEndpoint, SelectRow,
                          Push, StreamEnds, controlVars
    <3>2. ~Boot /\ ~TakeActions /\ ~SaveSetup /\ ~ShowSavedSetup /\ ~EraseSettings
      BY DEF Boot, TakeActions, SaveSetup, ShowSavedSetup, EraseSettings
    <3>3. ~OtherActions
      BY OthersAreElsewhere DEF TerminalInv, Elsewhere
    <3> QED
      BY <3>1, <3>2, <3>3 DEF Next, MainTask, PendingActions, OtherActions
  <2>2. taken["setup"] # None /\ settings' = taken["setup"].form
    BY <2>1 DEF HandleSetup
  <2> QED
    BY <2>2 DEF TerminalInv, SetupsFit, Fits, Agrees
<1> QED
  BY <1>1, <1>2, <1>3, PTL DEF Spec, UntouchedSettingsKept

-------------------------------------------------------------------------------
(* The table *)

Marks == {"absent", "stale", "live"}
Row   == [symbol : Symbols, live : BOOLEAN]

\* The types of what the table is made of.
TableTypes ==
  /\ watchlist \in Seq(Symbols) /\ store \in [Symbols -> Marks]
  /\ rows \in Seq(Row) /\ selected \in Nat

\* A handler has changed the list and not yet redrawn the table.
Behind == main \in {"addSave", "removed"}

TableInv ==
  /\ TableTypes
  /\ DescribesWhatIsRemoved
  /\ mode = "watchlist" /\ ~Behind => rows = OrderedSnapshots(store, watchlist)

LEMMA SetToSeqType ==
  ASSUME NEW S \in SUBSET Symbols
  PROVE  SetToSeq(S) \in Seq(Symbols)
<1>1. IsFiniteSet(S)
  BY FS_Subset, TerminalAssumption
<1>2. Cardinality(S) \in Nat /\ ExistsBijection(1..Cardinality(S), S)
  BY <1>1, FS_CardinalityType
<1>3. \E f \in [1..Cardinality(S) -> S] : IsInjective(f)
  BY <1>2 DEF ExistsBijection, Bijection, Injection
<1>4. SetToSeq(S) \in [1..Cardinality(S) -> S]
  BY <1>3 DEF SetToSeq
<1>5. SetToSeq(S) \in [1..Cardinality(S) -> Symbols]
  BY <1>4
<1> QED
  BY <1>2, <1>5

LEMMA SnapshotsType ==
  ASSUME NEW list \in Seq(Symbols), NEW s \in [Symbols -> Marks]
  PROVE  OrderedSnapshots(s, list) \in Seq(Row)
<1> DEFINE order == IF list = <<>> THEN SetToSeq(Known(s)) ELSE list
<1>1. order \in Seq(Symbols)
  BY SetToSeqType DEF Known
<1> HIDE DEF order
<1>2. DOMAIN order = 1..Len(order) /\ Len(order) \in Nat /\ \A i \in 1..Len(order) : order[i] \in Symbols
  BY <1>1
<1>3. \A i \in 1..Len(order) : [symbol |-> order[i], live |-> s[order[i]] = "live"] \in Row
  BY <1>2 DEF Row
<1>4. [i \in 1..Len(order) |-> [symbol |-> order[i], live |-> s[order[i]] = "live"]] \in Seq(Row)
  BY <1>2, <1>3
<1> QED
  BY <1>2, <1>4 DEF OrderedSnapshots, order

LEMMA StoreTypes ==
  ASSUME NEW s \in [Symbols -> Marks], NEW symbols, NEW list
  PROVE  /\ MarkStale(s, symbols) \in [Symbols -> Marks]
         /\ Enliven(s, symbols) \in [Symbols -> Marks]
         /\ SetWatchlist(s, list) \in [Symbols -> Marks]
BY DEF Marks, MarkStale, Enliven, SetWatchlist

\* The list of the watchlist after a removal.
LEMMA RemovedType ==
  ASSUME NEW list \in Seq(Symbols), NEW symbol
  PROVE  Removed(list, symbol) \in Seq(Symbols)
<1>1. CASE Contains(list, symbol)
  <2>1. DOMAIN list = 1..Len(list) /\ Len(list) \in Nat
    OBVIOUS
  <2>2. PICK k \in 1..Len(list) : Removed(list, symbol) = RemoveAt(list, k)
    BY <1>1, <2>1 DEF Removed, Contains
  <2>3. \A i \in 1..Len(list) : list[i] \in Symbols
    OBVIOUS
  <2>4. SubSeq(list, 1, k - 1) \in Seq(Symbols)
    <3>1. \A i \in 1..k - 1 : list[i] \in Symbols
      BY <2>1, <2>3
    <3> QED
      BY <2>1, <3>1, SubSeqProperties
  <2>5. SubSeq(list, k + 1, Len(list)) \in Seq(Symbols)
    <3>1. \A i \in k + 1..Len(list) : list[i] \in Symbols
      BY <2>1, <2>3
    <3> QED
      BY <2>1, <3>1, SubSeqProperties
  <2> QED
    BY <2>2, <2>4, <2>5, ConcatProperties DEF RemoveAt
<1>2. CASE ~Contains(list, symbol)
  BY <1>2 DEF Removed
<1> QED
  BY <1>1, <1>2

\* What a step makes of the table: nothing; another row is selected; all is shown
\* anew; the setup is shown; or the list is changed, and the table left behind.
Untouched ==
  UNCHANGED <<mode, rows, selected, detail, store, watchlist>>

Selected ==
  /\ UNCHANGED <<mode, rows, store, watchlist>>
  /\ \E row \in DOMAIN rows : selected' = row - 1 /\ detail' = Detail(rows, row - 1)

Redraws == \E s \in [Symbols -> Marks] : RedrawWatchlist(s) /\ UNCHANGED watchlist

SetupShown ==
  /\ mode' = "setup" /\ UNCHANGED <<rows, selected, store>>
  /\ watchlist' \in Seq(Symbols)

LeftBehind ==
  /\ UNCHANGED <<mode, rows, selected, detail>>
  /\ watchlist' \in Seq(Symbols) /\ store' \in [Symbols -> Marks]
  /\ Behind'

LEMMA DetailIsOfRow ==
  ASSUME NEW table \in Seq(Row), selected \in Nat
  PROVE  LET index == SelectionIn(table)
         IN  /\ index \in Nat
             /\ \/ table = <<>> /\ Detail(table, index) = None
                \/ index < Len(table) /\ Detail(table, index) = table[index + 1].symbol
<1>1. Len(table) \in Nat /\ (table # <<>> => Len(table) > 0)
  BY EmptySeq
<1>2. CASE table = <<>>
  BY <1>1, <1>2 DEF SelectionIn, Detail
<1>3. CASE table # <<>>
  <2>1. SelectionIn(table) \in Nat /\ SelectionIn(table) < Len(table)
    BY <1>1, <1>3 DEF SelectionIn
  <2> QED
    BY <1>3, <2>1 DEF Detail
<1> QED
  BY <1>2, <1>3

LEMMA TableKept ==
  ASSUME TableInv,
         \/ Untouched /\ (Behind => Behind')
         \/ Selected /\ (Behind => Behind')
         \/ Redraws \/ SetupShown \/ LeftBehind
  PROVE  TableInv'
<1> USE DEF TableInv
<1>1. CASE Untouched /\ (Behind => Behind')
  BY <1>1 DEF Untouched, TableTypes, DescribesWhatIsRemoved
<1>2. CASE Selected /\ (Behind => Behind')
  <2>1. PICK row \in DOMAIN rows : selected' = row - 1 /\ detail' = Detail(rows, row - 1)
    BY <1>2 DEF Selected
  <2>2. row \in 1..Len(rows) /\ rows # <<>> /\ Len(rows) \in Nat
    BY EmptySeq DEF TableTypes
  <2>3. selected' \in Nat /\ selected' < Len(rows) /\ detail' = rows[selected' + 1].symbol
    BY <2>1, <2>2 DEF Detail
  <2> QED
    BY <1>2, <2>3 DEF Selected, TableTypes, DescribesWhatIsRemoved
<1>3. CASE Redraws
  <2>1. PICK s \in [Symbols -> Marks] : RedrawWatchlist(s) /\ UNCHANGED watchlist
    BY <1>3 DEF Redraws
  <2>2. /\ store' = SetWatchlist(s, watchlist) /\ mode' = "watchlist"
        /\ rows' = OrderedSnapshots(store', watchlist)
        /\ selected' = SelectionIn(rows') /\ detail' = Detail(rows', selected')
        /\ UNCHANGED watchlist
    BY <2>1 DEF RedrawWatchlist, ShowWatchlist
  <2>3. store' \in [Symbols -> Marks] /\ rows' \in Seq(Row)
    BY <2>2, StoreTypes, SnapshotsType DEF TableTypes
  <2>4. /\ selected' \in Nat
        /\ \/ rows' = <<>> /\ detail' = None
           \/ selected' < Len(rows') /\ detail' = rows'[selected' + 1].symbol
    BY <2>2, <2>3, DetailIsOfRow DEF TableTypes
  <2> QED
    BY <2>2, <2>3, <2>4 DEF TableTypes, DescribesWhatIsRemoved
<1>4. CASE SetupShown
  BY <1>4 DEF SetupShown, TableTypes, DescribesWhatIsRemoved
<1>5. CASE LeftBehind
  BY <1>5 DEF LeftBehind, TableTypes, DescribesWhatIsRemoved
<1> QED
  BY <1>1, <1>2, <1>3, <1>4, <1>5

-------------------------------------------------------------------------------
(* The slots and the input of the watchlist *)

\* What a gesture puts into a slot.
GestureSlots ==
  /\ UNCHANGED taken
  /\ \/ UNCHANGED pending
     \/ pending' = [pending EXCEPT !["setup"] = Entered]
     \/ pending' = [pending EXCEPT !["add"] = input]
     \/ pending' = [pending EXCEPT !["remove"] = Chosen] /\ mode = "watchlist"
     \/ \E kind \in {"refresh", "reset"} : pending' = [pending EXCEPT ![kind] = TRUE]

\* What the main task does with the slots.
MainSlots ==
  \/ UNCHANGED <<pending, taken>>
  \/ UNCHANGED pending /\ \E kind \in Kinds : taken' = [taken EXCEPT ![kind] = None]
  \/ main = "sleep" /\ pending' = NoActions /\ taken' = pending

\* The input holds what Parse is asked about, and so do the slots.
EntryInv ==
  /\ input \in Seq(Chars) /\ Len(input) <= kInputMaxLength["symbol"]
  /\ pending["add"] # None => pending["add"] \in Texts
  /\ taken["add"] # None => taken["add"] \in Texts
  /\ focus = "remove" => mode = "watchlist"

LEMMA ActivateSlots ==
  ASSUME NEW object, Activate(object), object = "remove" => mode = "watchlist", UNCHANGED taken
  PROVE  GestureSlots
BY DEF Activate, Queue, GestureSlots

LEMMA RemoveIsOnWatchlist ==
  ASSUME "remove" \in Range(Objects(mode))
  PROVE  mode = "watchlist"
BY DEF Objects, SetupObjects, Range

LEMMA UserSlots ==
  ASSUME EntryInv, User
  PROVE  GestureSlots
<1>1. UNCHANGED taken
  BY DEF User, PressEnter, Tap, MoveFocus, Type, ChooseEndpoint, SelectRow, Gesture
<1>2. CASE PressEnter
  BY <1>1, <1>2, ActivateSlots DEF PressEnter, EntryInv
<1>3. CASE Tap
  <2>1. PICK object \in Range(Objects(mode)) : Activate(object) \/ UNCHANGED pending
    BY <1>3 DEF Tap
  <2>2. object = "remove" => mode = "watchlist"
    BY RemoveIsOnWatchlist
  <2> QED
    BY <1>1, <2>1, <2>2, ActivateSlots DEF GestureSlots
<1>4. CASE MoveFocus \/ Type \/ ChooseEndpoint \/ SelectRow
  BY <1>1, <1>4 DEF MoveFocus, Type, ChooseEndpoint, SelectRow, GestureSlots
<1> QED
  BY <1>2, <1>3, <1>4 DEF User

LEMMA MainTaskSlots ==
  ASSUME MainTask
  PROVE  MainSlots
<1> USE DEF MainSlots, Done, Kinds, actionVars
<1>1. CASE Boot \/ ProcessQuoteDeltas \/ HandleWifi \/ HandleStream \/ Sweep
           \/ RunScheduledRefresh
  BY <1>1 DEF Boot, ProcessQuoteDeltas, TakeQuoteDeltas, ApplyQuoteDeltas, HandleWifi,
         HandleStream, Sweep, RunScheduledRefresh
<1>2. CASE StartPull \/ Pull \/ Subscribe
  BY <1>2 DEF StartPull, Pull, Subscribe
<1>3. CASE \/ Skip("setup", "add") \/ Skip("add", "remove") \/ Skip("remove", "refresh")
           \/ Skip("refresh", "reset") \/ Skip("reset", "deltas")
  BY <1>3 DEF Skip
<1>4. CASE TakeActions \/ HandleSetup \/ SaveSetup \/ ShowSavedSetup
  BY <1>4 DEF TakeActions, HandleSetup, SaveSetup, ShowSavedSetup
<1>5. CASE HandleAdd \/ SaveAdded \/ HandleRemove \/ SaveRemoved
  BY <1>5 DEF HandleAdd, SaveAdded, HandleRemove, SaveRemoved
<1>6. CASE HandleRefresh \/ HandleReset \/ EraseSettings
  BY <1>6 DEF HandleRefresh, HandleReset, EraseSettings
<1> QED
  BY <1>1, <1>2, <1>3, <1>4, <1>5, <1>6 DEF MainTask, PendingActions

\* The input after a gesture.
LEMMA UserInput ==
  ASSUME EntryInv, User
  PROVE  input' \in Seq(Chars) /\ Len(input') <= kInputMaxLength["symbol"]
<1>1. kInputMaxLength["symbol"] \in Nat /\ Len(input) \in Nat
  BY TerminalAssumption DEF EntryInv
<1>2. <<>> \in Seq(Chars) /\ Len(<<>>) = 0
  OBVIOUS
<1>3. CASE UNCHANGED input \/ input' = <<>>
  <2>1. 0 <= kInputMaxLength["symbol"]
    BY <1>1
  <2>2. CASE UNCHANGED input
    BY <2>2 DEF EntryInv
  <2>3. CASE input' = <<>>
    BY <1>2, <2>1, <2>3
  <2> QED
    BY <1>3, <2>2, <2>3
<1>4. CASE focus = "symbol" /\ input' \in Typed(focus, input)
  <2>1. PICK char \in Chars : input' = Append(input, char) /\ Len(input) < kInputMaxLength["symbol"]
    BY <1>4 DEF Typed
  <2>2. input' \in Seq(Chars) /\ Len(input') = Len(input) + 1
    BY <2>1 DEF EntryInv
  <2>3. Len(input) + 1 <= kInputMaxLength["symbol"]
    BY <1>1, <2>1
  <2> QED
    BY <2>2, <2>3
<1>5. CASE input' \in Erased(input)
  <2>1. CASE input' = <<>>
    BY <1>3, <2>1
  <2>2. CASE input' # <<>>
    <3>1. input # <<>> /\ input' = SubSeq(input, 1, Len(input) - 1)
      BY <1>5, <2>2 DEF Erased, Front
    <3>2. \A i \in 1..Len(input) - 1 : input[i] \in Chars
      BY DEF EntryInv
    <3>3. /\ input' \in Seq(Chars)
          /\ Len(input') = IF 1 <= Len(input) - 1 THEN Len(input) - 1 - 1 + 1 ELSE 0
      BY <1>1, <3>1, <3>2, SubSeqProperties
    <3>4. Len(input') <= Len(input)
      BY <1>1, <3>3
    <3> QED
      BY <1>1, <3>3, <3>4 DEF EntryInv
  <2> QED
    BY <2>1, <2>2
<1>6. CASE Type
  BY <1>3, <1>4, <1>5, <1>6 DEF Type
<1>7. CASE PressEnter \/ Tap
  BY <1>3, <1>7 DEF PressEnter, Tap, Activate
<1>8. CASE MoveFocus \/ ChooseEndpoint \/ SelectRow
  BY <1>3, <1>8 DEF MoveFocus, ChooseEndpoint, SelectRow
<1> QED
  BY <1>6, <1>7, <1>8 DEF User

LEMMA UserFocus ==
  ASSUME EntryInv, User
  PROVE  focus' = "remove" => mode' = "watchlist"
<1>1. UNCHANGED mode
  BY DEF User, PressEnter, Tap, MoveFocus, Type, ChooseEndpoint, SelectRow, Gesture
<1>2. CASE Tap
  BY <1>1, <1>2, RemoveIsOnWatchlist DEF Tap
<1>3. CASE MoveFocus
  BY <1>1, <1>3, FocusStays, RemoveIsOnWatchlist DEF MoveFocus
<1>4. CASE PressEnter \/ Type \/ ChooseEndpoint \/ SelectRow
  BY <1>1, <1>4 DEF PressEnter, Type, ChooseEndpoint, SelectRow, EntryInv
<1> QED
  BY <1>2, <1>3, <1>4 DEF User

\* The main task leaves the input alone or empties it.
LEMMA MainInput ==
  ASSUME MainTask
  PROVE  /\ UNCHANGED input \/ input' = <<>>
         /\ UNCHANGED <<focus, mode>> \/ focus' # "remove"
<1>1. \A s : RedrawWatchlist(s) => input' = <<>> /\ focus' = "symbol"
  BY DEF RedrawWatchlist, ShowWatchlist, ResetContent
<1>2. \A f : ShowSetup(f) => input' = <<>> /\ focus' = "ssid"
  BY DEF ShowSetup, ResetContent
<1> USE DEF screenVars, entryVars
<1>3. CASE Boot \/ ProcessQuoteDeltas \/ HandleWifi \/ HandleStream \/ Sweep
           \/ RunScheduledRefresh
  BY <1>1, <1>2, <1>3
  DEF Boot, ProcessQuoteDeltas, TakeQuoteDeltas, ApplyQuoteDeltas, HandleWifi, HandleStream,
      Sweep, RunScheduledRefresh
<1>4. CASE StartPull \/ Pull \/ Subscribe
  BY <1>1, <1>4 DEF StartPull, Pull, Subscribe
<1>5. CASE \/ Skip("setup", "add") \/ Skip("add", "remove") \/ Skip("remove", "refresh")
           \/ Skip("refresh", "reset") \/ Skip("reset", "deltas")
  BY <1>5 DEF Skip
<1>6. CASE TakeActions \/ HandleSetup \/ SaveSetup \/ ShowSavedSetup
  BY <1>2, <1>6 DEF TakeActions, HandleSetup, SaveSetup, ShowSavedSetup
<1>7. CASE HandleAdd \/ SaveAdded \/ HandleRemove \/ SaveRemoved
  BY <1>1, <1>7 DEF HandleAdd, SaveAdded, HandleRemove, SaveRemoved
<1>8. CASE HandleRefresh \/ HandleReset \/ EraseSettings
  BY <1>2, <1>8 DEF HandleRefresh, HandleReset, EraseSettings
<1> QED
  BY <1>3, <1>4, <1>5, <1>6, <1>7, <1>8 DEF MainTask, PendingActions

LEMMA InputIsText ==
  ASSUME EntryInv
  PROVE  input \in Texts
<1>1. input \in [1..Len(input) -> Chars] /\ Len(input) \in 0..kInputMaxLength["symbol"]
  BY TerminalAssumption DEF EntryInv
<1> QED
  BY <1>1, TerminalAssumption

LEMMA EntryStep == TerminalInv /\ EntryInv /\ [Next]_vars => EntryInv'
<1> SUFFICES ASSUME TerminalInv, EntryInv, [Next]_vars PROVE EntryInv'
  OBVIOUS
<1>1. pending = [kind \in Kinds |-> pending[kind]] /\ taken = [kind \in Kinds |-> taken[kind]]
  BY DEF TerminalInv, SetupTypes
<1>2. CASE User
  <2>1. pending'["add"] = pending["add"] \/ pending'["add"] = input
    BY <1>1, <1>2, UserSlots DEF GestureSlots, Kinds
  <2>2. UNCHANGED taken
    BY <1>2, UserSlots DEF GestureSlots
  <2> QED
    BY <1>2, <2>1, <2>2, UserInput, UserFocus, InputIsText DEF EntryInv
<1>3. CASE MainTask
  <2>1. /\ pending'["add"] \in {pending["add"], None}
        /\ taken'["add"] \in {taken["add"], pending["add"], None}
    BY <1>1, <1>3, MainTaskSlots DEF MainSlots, NoActions, Kinds
  <2>2. <<>> \in Seq(Chars) /\ Len(<<>>) = 0 /\ 0 <= kInputMaxLength["symbol"]
    BY TerminalAssumption
  <2> QED
    BY <1>3, <2>1, <2>2, MainInput DEF EntryInv
<1>4. CASE Push \/ StreamEnds \/ UNCHANGED vars
  <2>1. UNCHANGED <<input, pending, taken, focus, mode>>
    BY <1>4 DEF Push, StreamEnds, vars, screenVars, entryVars, actionVars
  <2> QED
    BY <2>1 DEF EntryInv
<1> QED
  BY <1>2, <1>3, <1>4 DEF Next

LEMMA EntryInit == Init => EntryInv
<1> SUFFICES ASSUME Init PROVE EntryInv
  OBVIOUS
<1>1. NoActions["add"] = None
  BY DEF NoActions, Kinds
<1>2. <<>> \in Seq(Chars) /\ Len(<<>>) = 0 /\ 0 <= kInputMaxLength["symbol"]
  BY TerminalAssumption
<1> QED
  BY <1>1, <1>2, TerminalAssumption DEF Init, EntryInv

LEMMA ActsKeep ==
  ASSUME UNCHANGED screenVars, UNCHANGED <<store, dataVars>>
  PROVE  Untouched
BY DEF screenVars, tableVars, dataVars, Untouched

LEMMA RedrawOf ==
  ASSUME TableTypes, UNCHANGED dataVars, NEW s \in [Symbols -> Marks], RedrawWatchlist(s)
  PROVE  Redraws
BY DEF Redraws, dataVars

LEMMA UserAndTable ==
  ASSUME User
  PROVE  (Untouched \/ Selected) /\ UNCHANGED main
<1>1. UNCHANGED <<mode, rows, store, watchlist, main>>
  BY DEF User, PressEnter, Tap, MoveFocus, Type, ChooseEndpoint, SelectRow, Gesture,
         dataVars, storeVars, controlVars
<1>2. CASE SelectRow
  BY <1>1, <1>2 DEF SelectRow, Selected
<1>3. CASE PressEnter \/ Tap \/ MoveFocus \/ Type \/ ChooseEndpoint
  BY <1>1, <1>3 DEF PressEnter, Tap, MoveFocus, Type, ChooseEndpoint, Untouched
<1> QED
  BY <1>2, <1>3 DEF User

\* The steps of the main task that start elsewhere than between a change of the list
\* and its redraw.
ActionsAndTable == Untouched \/ Redraws \/ SetupShown \/ LeftBehind

LEMMA HandlersAndTable ==
  ASSUME TableTypes, EntryInv, PendingActions
  PROVE  \/ ActionsAndTable /\ ~Behind
         \/ Redraws
<1> USE DEF Behind
<1>1. \A s \in [Symbols -> Marks] : RedrawWatchlist(s) /\ UNCHANGED dataVars => Redraws
  BY RedrawOf
<1>2. ASSUME NEW kind \in {"setup", "add", "remove", "refresh", "reset"}, NEW next, Skip(kind, next)
      PROVE  Untouched /\ ~Behind
  BY <1>2, ActsKeep DEF Skip, storeVars, pushVars
<1>3. CASE TakeActions \/ HandleSetup \/ SaveSetup \/ HandleRefresh \/ HandleReset
  <2>1. UNCHANGED <<watchlist, store, screenVars>> /\ ~Behind
    BY <1>3 DEF TakeActions, HandleSetup, SaveSetup, HandleRefresh, HandleReset, storeVars,
               pushVars, dataVars
  <2> QED
    BY <2>1 DEF screenVars, tableVars, Untouched, ActionsAndTable
<1>4. CASE ShowSavedSetup
  BY <1>4 DEF ShowSavedSetup, ShowSetup, SetupShown, ActionsAndTable, storeVars, pushVars,
             dataVars, TableTypes
<1>5. CASE HandleAdd
  <2>1. main = "add" /\ UNCHANGED <<store, screenVars>>
    BY <1>5 DEF HandleAdd, storeVars, pushVars
  <2>2. CASE /\ Parse[taken["add"]] # Invalid
             /\ watchlist' = Append(watchlist, Parse[taken["add"]])
             /\ Goto("addSave")
    <3>1. Parse[taken["add"]] \in Symbols
      BY <1>5, <2>2, WatchlistAssumption DEF HandleAdd, EntryInv
    <3>2. watchlist' \in Seq(Symbols) /\ Behind'
      BY <2>2, <3>1 DEF Goto, TableTypes
    <3> QED
      BY <2>1, <3>2 DEF screenVars, tableVars, TableTypes, LeftBehind, ActionsAndTable
  <2>3. CASE UNCHANGED watchlist
    BY <2>1, <2>3 DEF screenVars, tableVars, Untouched, ActionsAndTable
  <2> QED
    BY <1>5, <2>1, <2>2, <2>3 DEF HandleAdd
<1>6. CASE HandleRemove
  <2>1. main = "remove" /\ UNCHANGED screenVars
    BY <1>6 DEF HandleRemove
  <2>2. CASE /\ watchlist' = Removed(watchlist, watchlist[taken["remove"].index + 1])
             /\ store' = [symbol \in Symbols |-> "absent"]
             /\ Goto("removed")
    <3>1. watchlist' \in Seq(Symbols) /\ store' \in [Symbols -> Marks] /\ Behind'
      BY <2>2, RemovedType DEF Goto, TableTypes, Marks
    <3> QED
      BY <2>1, <3>1 DEF screenVars, tableVars, LeftBehind, ActionsAndTable
  <2>3. CASE UNCHANGED <<watchlist, store>>
    BY <2>1, <2>3 DEF screenVars, tableVars, Untouched, ActionsAndTable
  <2> QED
    BY <1>6, <2>1, <2>2, <2>3 DEF HandleRemove
<1>7. CASE SaveAdded \/ SaveRemoved
  BY <1>1, <1>7 DEF SaveAdded, SaveRemoved, TableTypes
<1>8. CASE EraseSettings
  <2>1. main = "erase" /\ UNCHANGED store
    BY <1>8 DEF EraseSettings, storeVars, pushVars
  <2>2. CASE watchlist' = DefaultList /\ ShowSetup(NewForm)
    BY <2>1, <2>2, TerminalAssumption DEF ShowSetup, SetupShown, ActionsAndTable
  <2>3. CASE UNCHANGED <<dataVars, screenVars>>
    BY <2>1, <2>3, ActsKeep DEF ActionsAndTable
  <2> QED
    BY <1>8, <2>1, <2>2, <2>3 DEF EraseSettings
<1> QED
  BY <1>2, <1>3, <1>4, <1>5, <1>6, <1>7, <1>8 DEF PendingActions, ActionsAndTable

LEMMA RestAndTable ==
  ASSUME TableTypes,
         \/ Boot \/ ProcessQuoteDeltas \/ HandleWifi \/ HandleStream \/ Sweep
         \/ RunScheduledRefresh \/ StartPull \/ Pull \/ Subscribe
  PROVE  ActionsAndTable /\ ~Behind
<1> USE DEF Behind, ActionsAndTable
<1>1. \A s \in [Symbols -> Marks] : RedrawWatchlist(s) /\ UNCHANGED dataVars => Redraws
  BY RedrawOf
<1>2. /\ store \in [Symbols -> Marks]
      /\ \A symbols : MarkStale(store, symbols) \in [Symbols -> Marks]
      /\ \A symbols : Enliven(store, symbols) \in [Symbols -> Marks]
  BY StoreTypes DEF TableTypes
<1>3. CASE Boot
  <2>1. main = "boot" /\ UNCHANGED dataVars
    BY <1>3 DEF Boot
  <2>2. CASE RedrawWatchlist(store)
    BY <1>1, <1>2, <2>1, <2>2
  <2>3. CASE ShowSetup(settings) /\ UNCHANGED store
    BY <2>1, <2>3 DEF ShowSetup, SetupShown, dataVars, TableTypes
  <2> QED
    BY <1>3, <2>1, <2>2, <2>3 DEF Boot
<1>4. CASE TakeQuoteDeltas
  <2>1. main = "deltas" /\ UNCHANGED dataVars
    BY <1>4 DEF TakeQuoteDeltas
  <2>2. \/ RedrawWatchlist(MarkStale(store, Symbols))
        \/ UNCHANGED <<store, screenVars>>
    BY <1>4 DEF TakeQuoteDeltas, storeVars
  <2> QED
    BY <1>1, <1>2, <2>1, <2>2, ActsKeep
<1>11. CASE ApplyQuoteDeltas
  <2>1. main = "apply" /\ UNCHANGED dataVars
    BY <1>11 DEF ApplyQuoteDeltas
  <2>2. \/ \E applied : RedrawWatchlist(Enliven(store, applied))
        \/ UNCHANGED <<store, screenVars>>
    BY <1>11 DEF ApplyQuoteDeltas
  <2> QED
    BY <1>1, <1>2, <2>1, <2>2, ActsKeep
<1>5. CASE HandleWifi
  BY <1>1, <1>2, <1>5, ActsKeep DEF HandleWifi
<1>6. CASE HandleStream
  BY <1>1, <1>2, <1>6, ActsKeep DEF HandleStream
<1>7. CASE Sweep
  BY <1>1, <1>2, <1>7, ActsKeep DEF Sweep
<1>8. CASE RunScheduledRefresh \/ Subscribe
  BY <1>8, ActsKeep DEF RunScheduledRefresh, Subscribe, storeVars, pushVars
<1>9. CASE StartPull
  BY <1>1, <1>2, <1>9, ActsKeep DEF StartPull
<1>10. CASE Pull
  BY <1>1, <1>2, <1>10, ActsKeep DEF Pull
<1> QED
  BY <1>3, <1>4, <1>5, <1>6, <1>7, <1>8, <1>9, <1>10, <1>11 DEF ProcessQuoteDeltas

LEMMA TableStep == TableInv /\ EntryInv /\ [Next]_vars => TableInv'
<1> SUFFICES ASSUME TableInv, EntryInv, [Next]_vars PROVE TableInv'
  OBVIOUS
<1>1. CASE User
  <2>1. (Untouched \/ Selected) /\ (Behind => Behind')
    BY <1>1, UserAndTable DEF Behind
  <2> QED
    BY <2>1, TableKept
<1>2. CASE PendingActions
  <2>1. (ActionsAndTable /\ ~Behind) \/ Redraws
    BY <1>2, HandlersAndTable DEF TableInv
  <2> QED
    BY <2>1, TableKept DEF ActionsAndTable
<1>3. CASE \/ Boot \/ ProcessQuoteDeltas \/ HandleWifi \/ HandleStream \/ Sweep
           \/ RunScheduledRefresh \/ StartPull \/ Pull \/ Subscribe
  <2>1. ActionsAndTable /\ ~Behind
    BY <1>3, RestAndTable DEF TableInv
  <2> QED
    BY <2>1, TableKept DEF ActionsAndTable
<1>4. CASE Push \/ StreamEnds \/ UNCHANGED vars
  <2>1. Untouched /\ (Behind => Behind')
    BY <1>4 DEF Push, StreamEnds, vars, dataVars, storeVars, pushVars, screenVars, tableVars,
               controlVars,
                Untouched, Behind
  <2> QED
    BY <2>1, TableKept
<1> QED
  BY <1>1, <1>2, <1>3, <1>4 DEF Next, MainTask

LEMMA TableInvariant == Spec => [](TerminalInv /\ EntryInv /\ TableInv)
<1>1. Init => TableInv
  <2> SUFFICES ASSUME Init PROVE TableInv
    OBVIOUS
  <2>1. watchlist \in Seq(Symbols)
    BY TerminalAssumption DEF Init
  <2>2. store \in [Symbols -> Marks]
    BY DEF Init, SetWatchlist, Marks
  <2>3. rows \in Seq(Row) /\ selected = 0 /\ mode = "none"
    BY DEF Init
  <2> QED
    BY <2>1, <2>2, <2>3 DEF TableInv, TableTypes, DescribesWhatIsRemoved
<1> QED
  BY <1>1, InitFits, StepFits, EntryInit, EntryStep, TableStep, PTL DEF Spec

\* Whatever redraws, gestures and failures come in which order, what is described
\* beside the buttons is the row that is selected, and the selection is in the table.
THEOREM SelectionIsDescribed == Spec => []DescribesWhatIsRemoved
<1>1. TableInv => DescribesWhatIsRemoved
  BY DEF TableInv
<1> QED
  BY <1>1, TableInvariant, PTL

\* No handler leaves the table behind the list and the store when the main task goes
\* to sleep.
THEOREM TableIsCurrent == Spec => []TableShowsStore
<1>1. TableInv => TableShowsStore
  BY DEF TableInv, TableShowsStore, Behind
<1> QED
  BY <1>1, TableInvariant, PTL

-------------------------------------------------------------------------------
(* What Remove takes *)

\* A removal still points to the symbol it was chosen for.
Points(removal) ==
  removal.sure =>
    /\ removal.index \in Nat /\ removal.index < Len(watchlist)
    /\ watchlist[removal.index + 1] = removal.symbol

\* No removal is under way.
NoRemoval ==
  \/ main \in {"boot", "sleep", "refresh", "reset", "erase", "deltas", "apply", "wifi",
               "stream", "sweep", "scheduled"}
  \/ main \in {"pull", "pulling", "subscribe"} /\ after \in {"refresh", "reset", "sleep"}

\* A removal that waits was chosen while none and no reset was under way, so that
\* what happens to the list before it is handled only appends to it.
RemovalInv ==
  /\ NoRemoval => taken["remove"] = None
  /\ pending["remove"] # None =>
       /\ Points(pending["remove"])
       /\ pending["remove"].sure => taken["remove"] = None /\ taken["reset"] = None
  /\ taken["remove"] # None /\ main # "removed" => Points(taken["remove"])

LEMMA ChosenPoints ==
  ASSUME TableInv, mode = "watchlist"
  PROVE  Points(Chosen) /\ (Chosen.sure => taken["remove"] = None /\ taken["reset"] = None)
<1> SUFFICES ASSUME Chosen.sure
             PROVE  /\ selected \in Nat /\ selected < Len(watchlist)
                    /\ watchlist[selected + 1] = detail
                    /\ taken["remove"] = None /\ taken["reset"] = None
  BY DEF Points, Chosen
<1>1. detail # None /\ TableAgrees /\ taken["remove"] = None /\ taken["reset"] = None
  BY DEF Chosen
<1>2. selected \in Nat /\ selected < Len(rows) /\ detail = rows[selected + 1].symbol
  BY <1>1 DEF TableInv, TableTypes, DescribesWhatIsRemoved
<1>3. selected + 1 \in DOMAIN rows
  BY <1>2 DEF TableInv, TableTypes
<1>4. selected + 1 \in DOMAIN watchlist /\ rows[selected + 1].symbol = watchlist[selected + 1]
  BY <1>1, <1>3 DEF TableAgrees
<1>5. Len(watchlist) \in Nat /\ DOMAIN watchlist = 1..Len(watchlist)
  BY DEF TableInv, TableTypes
<1>6. selected < Len(watchlist)
  BY <1>2, <1>4, <1>5
<1> QED
  BY <1>1, <1>2, <1>4, <1>6

\* What the list can do while a removal waits.
LEMMA PointsKept ==
  ASSUME TableTypes, NEW removal, Points(removal),
         \/ UNCHANGED watchlist
         \/ \E symbol : watchlist' = Append(watchlist, symbol)
  PROVE  Points(removal)'
<1>1. CASE UNCHANGED watchlist
  BY <1>1 DEF Points
<1>2. ASSUME NEW symbol, watchlist' = Append(watchlist, symbol), removal.sure
      PROVE  /\ removal.index < Len(watchlist')
             /\ watchlist'[removal.index + 1] = removal.symbol
  <2>1. removal.index \in Nat /\ removal.index < Len(watchlist) /\ Len(watchlist) \in Nat
    BY <1>2 DEF Points, TableTypes
  <2>2. removal.index + 1 \in 1..Len(watchlist)
    BY <2>1
  <2>3. /\ Len(watchlist') = Len(watchlist) + 1
        /\ \A i \in 1..Len(watchlist) : watchlist'[i] = watchlist[i]
    BY <1>2 DEF TableTypes
  <2> QED
    BY <1>2, <2>1, <2>2, <2>3 DEF Points
<1> QED
  BY <1>1, <1>2 DEF Points

\* Where a step of the main task goes.
LEMMA MainPlaces ==
  ASSUME SetupTypes, Control, MainTask
  PROVE  /\ NoRemoval' /\ ~HandleRemove => NoRemoval \/ taken'["remove"] = None
         /\ main' = "removed" => HandleRemove
         /\ main = "removed" => SaveRemoved
<1> USE DEF NoRemoval, Control, Goto
<1>1. CASE Boot \/ HandleWifi \/ HandleStream \/ Sweep \/ RunScheduledRefresh
  BY <1>1 DEF Boot, HandleWifi, HandleStream, Sweep, RunScheduledRefresh
<1>11. CASE ProcessQuoteDeltas
  <2>1. main' \in {"apply", "wifi"} /\ main \in {"deltas", "apply"}
    BY <1>11 DEF ProcessQuoteDeltas, TakeQuoteDeltas, ApplyQuoteDeltas
  <2>2. UNCHANGED <<pending, taken>>
    BY <1>11 DEF ProcessQuoteDeltas, TakeQuoteDeltas, ApplyQuoteDeltas, actionVars
  <2> QED
    BY <2>1, <2>2
<1>2. CASE StartPull
  BY <1>2 DEF StartPull, Return
<1>3. CASE Pull \/ Subscribe
  BY <1>3 DEF Pull, Subscribe, Return
<1>4. CASE \/ Skip("setup", "add") \/ Skip("add", "remove") \/ Skip("refresh", "reset")
           \/ Skip("reset", "deltas")
  BY <1>4 DEF Skip
<1>5. CASE Skip("remove", "refresh")
  BY <1>5 DEF Skip, actionVars
<1>6. CASE TakeActions \/ HandleSetup \/ ShowSavedSetup
  BY <1>6 DEF TakeActions, HandleSetup, ShowSavedSetup
<1>7. CASE SaveSetup
  BY <1>7 DEF SaveSetup
<1>8. CASE HandleAdd \/ SaveAdded \/ HandleRemove
  BY <1>8 DEF HandleAdd, SaveAdded, HandleRemove
<1>9. CASE HandleRefresh \/ HandleReset \/ EraseSettings
  BY <1>9 DEF HandleRefresh, HandleReset, EraseSettings
<1>10. CASE SaveRemoved
  <2>1. main = "removed" /\ main' = "pull" /\ Done("remove")
    BY <1>10 DEF SaveRemoved
  <2>2. taken'["remove"] = None
    BY <2>1 DEF Done, SetupTypes, Kinds
  <2> QED
    BY <1>10, <2>1, <2>2
<1> QED
  BY <1>1, <1>2, <1>3, <1>4, <1>5, <1>6, <1>7, <1>8, <1>9, <1>10, <1>11
  DEF MainTask, PendingActions

\* Only these handlers change the list.
LEMMA ListChanges ==
  ASSUME MainTask, ~HandleRemove, ~EraseSettings
  PROVE  UNCHANGED watchlist \/ \E symbol : watchlist' = Append(watchlist, symbol)
<1> USE DEF dataVars
<1>1. CASE Boot \/ ProcessQuoteDeltas \/ HandleWifi \/ HandleStream \/ Sweep
           \/ RunScheduledRefresh
  BY <1>1 DEF Boot, ProcessQuoteDeltas, TakeQuoteDeltas, ApplyQuoteDeltas, HandleWifi,
         HandleStream, Sweep, RunScheduledRefresh
<1>2. CASE StartPull \/ Pull \/ Subscribe
  BY <1>2 DEF StartPull, Pull, Subscribe
<1>3. CASE \/ Skip("setup", "add") \/ Skip("add", "remove") \/ Skip("remove", "refresh")
           \/ Skip("refresh", "reset") \/ Skip("reset", "deltas")
  BY <1>3 DEF Skip
<1>4. CASE TakeActions \/ HandleSetup \/ SaveSetup \/ ShowSavedSetup
  BY <1>4 DEF TakeActions, HandleSetup, SaveSetup, ShowSavedSetup
<1>5. CASE HandleAdd \/ SaveAdded \/ SaveRemoved \/ HandleRefresh \/ HandleReset
  BY <1>5 DEF HandleAdd, SaveAdded, SaveRemoved, HandleRefresh, HandleReset
<1> QED
  BY <1>1, <1>2, <1>3, <1>4, <1>5 DEF MainTask, PendingActions

LEMMA UserRemoval ==
  ASSUME TerminalInv, EntryInv, TableInv, RemovalInv, User
  PROVE  RemovalInv'
<1>1. pending = [kind \in Kinds |-> pending[kind]]
  BY DEF TerminalInv, SetupTypes
<1>2. UNCHANGED <<watchlist, taken, main, after>>
  BY DEF User, PressEnter, Tap, MoveFocus, Type, ChooseEndpoint, SelectRow, Gesture, dataVars,
         controlVars
<1>3. \/ pending'["remove"] = pending["remove"]
      \/ pending'["remove"] = Chosen /\ mode = "watchlist"
  BY <1>1, UserSlots DEF GestureSlots, Kinds
<1>4. pending'["remove"] # None =>
        /\ Points(pending'["remove"])
        /\ pending'["remove"].sure => taken["remove"] = None /\ taken["reset"] = None
  <2>1. CASE pending'["remove"] = pending["remove"]
    BY <2>1 DEF RemovalInv
  <2>2. CASE pending'["remove"] = Chosen /\ mode = "watchlist"
    BY <2>2, ChosenPoints
  <2> QED
    BY <1>3, <2>1, <2>2
<1> QED
  BY <1>2, <1>4 DEF RemovalInv, Points, NoRemoval

LEMMA MainRemoval ==
  ASSUME TerminalInv, TableInv, RemovalInv, MainTask
  PROVE  RemovalInv'
<1>1. pending = [kind \in Kinds |-> pending[kind]] /\ taken = [kind \in Kinds |-> taken[kind]]
  BY DEF TerminalInv, SetupTypes
<1>2. SetupTypes /\ Control /\ TableTypes
  BY DEF TerminalInv, TableInv
<1>3. CASE HandleRemove
  <2>1. main = "remove" /\ taken["remove"] # None /\ UNCHANGED pending
    BY <1>3 DEF HandleRemove, Done, actionVars
  <2>2. pending["remove"] # None => ~pending["remove"].sure
    BY <2>1 DEF RemovalInv
  <2>3. \/ main' = "removed"
        \/ UNCHANGED watchlist /\ taken'["remove"] = None
    BY <1>1, <1>3 DEF HandleRemove, Done, Goto, Kinds
  <2> QED
    BY <2>1, <2>2, <2>3 DEF RemovalInv, Points, NoRemoval
<1>4. CASE EraseSettings
  <2>1. main = "erase" /\ main' = "deltas" /\ UNCHANGED pending
    BY <1>4 DEF EraseSettings, Done, Goto
  <2>2. taken["reset"] # None /\ taken["remove"] = None
    BY <1>2, <2>1 DEF Control, RemovalInv, NoRemoval
  <2>3. taken'["remove"] = None
    BY <1>1, <1>4, <2>2 DEF EraseSettings, Done, Kinds
  <2>4. pending["remove"] # None => ~pending["remove"].sure
    BY <2>2 DEF RemovalInv
  <2> QED
    BY <2>1, <2>3, <2>4 DEF RemovalInv, Points
<1>5. CASE ~HandleRemove /\ ~EraseSettings
  <2>1. \A removal : Points(removal) => Points(removal)'
    BY <1>2, <1>5, ListChanges, PointsKept
  <2>2. \/ /\ pending'["remove"] = pending["remove"]
           /\ taken'["remove"] \in {taken["remove"], None}
           /\ taken["reset"] = None => taken'["reset"] = None
        \/ /\ main = "sleep" /\ pending'["remove"] = None /\ taken'["remove"] = pending["remove"]
    BY <1>1, MainTaskSlots DEF MainSlots, NoActions, Kinds
  <2>3. CASE /\ main = "sleep" /\ pending'["remove"] = None
             /\ taken'["remove"] = pending["remove"]
    <3>1. TakeActions
      BY <2>3 DEF MainTask, PendingActions, Boot, ProcessQuoteDeltas, TakeQuoteDeltas,
             ApplyQuoteDeltas, HandleWifi, HandleStream,
                  Sweep, RunScheduledRefresh, StartPull, Pull, Subscribe, Skip, HandleSetup,
                  SaveSetup, ShowSavedSetup, HandleAdd, SaveAdded, HandleRemove, SaveRemoved,
                  HandleRefresh, HandleReset, EraseSettings
    <3>2. main' = "setup"
      BY <3>1 DEF TakeActions, Goto
    <3>3. PICK removal : removal = pending["remove"]
      OBVIOUS
    <3>4. removal # None => Points(removal)'
      BY <2>1, <3>3 DEF RemovalInv
    <3> QED
      BY <2>3, <3>2, <3>3, <3>4 DEF RemovalInv, NoRemoval, Points
  <2>4. CASE /\ pending'["remove"] = pending["remove"]
             /\ taken'["remove"] \in {taken["remove"], None}
             /\ taken["reset"] = None => taken'["reset"] = None
    <3>1. NoRemoval' => taken'["remove"] = None
      BY <1>2, <1>5, <2>4, MainPlaces DEF RemovalInv
    <3>2. PICK waiting, removal : waiting = pending["remove"] /\ removal = taken["remove"]
      OBVIOUS
    <3>3. waiting # None => Points(waiting)'
      BY <2>1, <3>2 DEF RemovalInv
    <3>4. taken'["remove"] # None => main # "removed"
      BY <1>1, <1>2, MainPlaces DEF SaveRemoved, Done, Kinds
    <3>5. taken'["remove"] # None => Points(removal)'
      BY <2>1, <2>4, <3>2, <3>4 DEF RemovalInv
    <3> QED
      BY <2>4, <3>1, <3>2, <3>3, <3>5 DEF RemovalInv, Points
  <2> QED
    BY <2>2, <2>3, <2>4
<1> QED
  BY <1>3, <1>4, <1>5

LEMMA RemovalStep ==
  TerminalInv /\ EntryInv /\ TableInv /\ RemovalInv /\ [Next]_vars => RemovalInv'
<1> SUFFICES ASSUME TerminalInv, EntryInv, TableInv, RemovalInv, [Next]_vars
             PROVE  RemovalInv'
  OBVIOUS
<1>1. CASE Push \/ StreamEnds \/ UNCHANGED vars
  <2>1. UNCHANGED <<watchlist, pending, taken, main, after>>
    BY <1>1 DEF Push, StreamEnds, vars, dataVars, actionVars, controlVars
  <2> QED
    BY <2>1 DEF RemovalInv, Points, NoRemoval
<1> QED
  BY <1>1, UserRemoval, MainRemoval DEF Next

\* Additions, redraws and failures between a tap on Remove and its handling do not
\* make it take another symbol than the one that was described.
THEOREM TheChosenIsRemoved == Spec => RemovesTheChosen
<1>1. Init => RemovalInv
  BY DEF Init, RemovalInv, NoActions, Kinds
<1>2. TerminalInv /\ TableInv /\ RemovalInv /\ [Next]_vars =>
        [main = "remove" /\ main' = "removed" /\ taken["remove"].sure =>
           watchlist' = Removed(watchlist, taken["remove"].symbol)]_vars
  <2> SUFFICES ASSUME TerminalInv, TableInv, RemovalInv, Next,
                      main = "remove", main' = "removed", taken["remove"].sure
               PROVE  watchlist' = Removed(watchlist, taken["remove"].symbol)
    OBVIOUS
  <2>1. MainTask
    BY DEF Next, User, PressEnter, Tap, MoveFocus, Type, ChooseEndpoint, SelectRow, Gesture,
           Push, StreamEnds, controlVars
  <2>2. HandleRemove
    BY <2>1, MainPlaces DEF TerminalInv
  <2>3. /\ taken["remove"] # None
        /\ watchlist' = Removed(watchlist, watchlist[taken["remove"].index + 1])
    BY <2>2 DEF HandleRemove, Goto
  <2> QED
    BY <2>3 DEF RemovalInv, Points
<1> QED
  BY <1>1, <1>2, TableInvariant, RemovalStep, PTL DEF Spec, RemovesTheChosen

===============================================================================
