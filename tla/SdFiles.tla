------------------------------- MODULE SdFiles -------------------------------
(***************************************************************************)
(* SdFileManagerServer: the files of the SD card, changed over HTTP.       *)
(*                                                                         *)
(* One task serves the requests one after the other, so the only thing     *)
(* that can come between two calls of the file system is a failure or the  *)
(* end of the power.  A step below is one such call.  A save writes a      *)
(* temporary file in the root, moves the old file to a backup there, moves *)
(* the new one to its place and removes the backup.                        *)
(*                                                                         *)
(* The file system is external: a call does what FATFS does or fails and   *)
(* changes nothing, except that a write which fails leaves a torn file.    *)
(* rename does not replace.  A request that is refused before the card is  *)
(* mounted, and one that only reads, changes nothing and is left out.      *)
(***************************************************************************)
EXTENDS Naturals, FiniteSets

CONSTANTS
  Paths,     \* what requests may name, but for the root
  Root,      \* kRootPath
  Parent,    \* parent_path
  TempNames, \* the names of make_root_temp_path; eight draws exhaust them all
  Contents,  \* of files
  Empty,     \* the content of a file just created
  Faults,    \* what may go wrong: see FaultNames
  MaxFaults  \* bound: failing calls of one request

\* "io": a call that changes the card, mounts or unmounts it fails; "lookup": a
\* stat of a file that is there fails; "power": the power ends.
FaultNames == {"io", "lookup", "power"}

Absent == "absent"
Folder == "folder"
Torn   == "torn"    \* written in part

Names == Paths \cup TempNames
Nowhere == "nowhere"
Ops == {"save", "create", "mkdir", "delete"}
Steps == {"idle", "mount", "start", "write", "replace", "backup", "install",
          "restore", "dropBackup", "dropTemp", "closeNew", "answer"}

ASSUME FilesAssumption ==
  /\ Paths \cap TempNames = {}
  /\ Root \notin Paths
  /\ Parent \in [Paths -> Paths \cup {Root}]
  /\ Nowhere \notin TempNames
  /\ {Absent, Folder, Torn} \cap Contents = {}
  /\ Empty \in Contents
  /\ Faults \subseteq FaultNames
  /\ MaxFaults \in Nat

VARIABLES
  card,    \* what is under each name
  mounted, \* the card is mounted
  job,     \* the request being served: its arguments, the locals of its
           \* handler and where the handler is
  kept,    \* history: the content last saved or created under each path,
           \* Absent after a deletion
  before,  \* history: the user's files when the request came
  unclean  \* history: a call that cleans up has failed, or the power has ended

vars == <<card, mounted, job, kept, before, unclean>>

Files == [p \in Paths |-> card[p]]

ContentOf(f) == [p \in Paths |-> IF f[p] \in Contents THEN f[p] ELSE Absent]

NoJob == [step |-> "idle", op |-> "save", path |-> Nowhere, content |-> Empty,
          temp |-> Nowhere, backup |-> Nowhere, session |-> FALSE,
          ok |-> FALSE, faults |-> 0]

Job ==
  [step : Steps, op : Ops, path : Paths \cup {Nowhere}, content : Contents,
   temp : TempNames \cup {Nowhere}, backup : TempNames \cup {Nowhere},
   session : BOOLEAN, ok : BOOLEAN, faults : Nat]

TypeOK ==
  /\ card \in [Names -> Contents \cup {Absent, Folder, Torn}]
  /\ mounted \in BOOLEAN
  /\ job \in Job
  /\ kept \in [Paths -> Contents \cup {Absent}]
  /\ before \in [Paths -> Contents \cup {Absent, Folder, Torn}]
  /\ unclean \in BOOLEAN

\* Every file and folder is in a folder.
Tree(f) ==
  \A p \in Paths :
    f[p] # Absent /\ Parent[p] # Root => f[Parent[p]] = Folder

Init ==
  /\ \E f \in [Paths -> Contents \cup {Absent, Folder}] :
       /\ Tree(f)
       /\ card = [n \in Names |-> IF n \in Paths THEN f[n] ELSE Absent]
       /\ kept = ContentOf(f)
       /\ before = f
  /\ mounted = FALSE
  /\ job = NoJob
  /\ unclean = FALSE

-----------------------------------------------------------------------------
(* The file system.  A call succeeds only where its operator says it can.  *)

HasParent(p) == Parent[p] \in {Root} \cup {q \in Paths : card[q] = Folder}

CanRename(from, to) ==
  /\ card[from] # Absent
  /\ card[to] = Absent
  /\ to \in Paths => HasParent(to)

Renamed(from, to) == [card EXCEPT ![to] = card[from], ![from] = Absent]

\* An empty folder or a file.
CanDelete(p) ==
  /\ card[p] # Absent
  /\ \A q \in Paths : Parent[q] = p => card[q] = Absent

\* A name that make_root_temp_path finds unused.
Unused(n) == card[n] = Absent

MayFail(kind) == kind \in Faults /\ job.faults < MaxFaults

-----------------------------------------------------------------------------
(* Where the handler goes next, after a call that succeeded or that failed *)
(* as it had to, and after one that failed by a fault.                     *)

Goto(step) == job' = [job EXCEPT !.step = step]

Failing(kind, step) ==
  /\ MayFail(kind)
  /\ job' = [job EXCEPT !.step = step, !.faults = @ + 1]

Succeed == job' = [job EXCEPT !.step = "answer", !.ok = TRUE]

AtStep(step) == job.step = step

\* The card is mounted and a request of this kind is about to be served.
Starting(op) == AtStep("start") /\ job.op = op

-----------------------------------------------------------------------------
(* Beginning and end of a request.                                         *)

Request ==
  /\ AtStep("idle")
  /\ \E op \in Ops, p \in Paths, c \in Contents :
       /\ op = "save" \/ c = Empty
       /\ job' = [NoJob EXCEPT !.step = "mount", !.op = op, !.path = p, !.content = c]
  /\ before' = Files
  /\ UNCHANGED <<card, mounted, kept, unclean>>

\* SdCardSession: a card that is mounted already is used as it is, and left
\* mounted.
Mount ==
  /\ AtStep("mount")
  /\ \/ /\ ~mounted
        /\ mounted' = TRUE
        /\ job' = [job EXCEPT !.step = "start", !.session = TRUE]
     \/ /\ mounted
        /\ Goto("start")
        /\ UNCHANGED mounted
     \/ /\ ~mounted
        /\ Failing("io", "answer")
        /\ UNCHANGED mounted
  /\ UNCHANGED <<card, kept, before, unclean>>

\* The answer has been sent; ~SdCardSession.
Unmount ==
  /\ AtStep("answer")
  /\ job' = NoJob
  /\ \/ /\ mounted' = (mounted /\ ~job.session)
        /\ UNCHANGED unclean
     \/ /\ job.session
        /\ MayFail("io")
        /\ unclean' = TRUE
        /\ UNCHANGED mounted
  /\ UNCHANGED <<card, kept, before>>

PowerCut ==
  /\ "power" \in Faults
  /\ ~AtStep("idle")
  /\ job' = NoJob
  /\ mounted' = FALSE
  /\ unclean' = TRUE
  /\ UNCHANGED <<card, kept, before>>

-----------------------------------------------------------------------------
(* Save and upload: write_content_to_file, replace_file_with_temp.         *)

OpenTemp ==
  /\ Starting("save")
  /\ \/ \E n \in TempNames :
          /\ Unused(n)
          /\ card' = [card EXCEPT ![n] = Torn]
          /\ job' = [job EXCEPT !.step = "write", !.temp = n]
     \/ /\ \E n \in TempNames : ~Unused(n)
        /\ Goto("answer")
        /\ UNCHANGED card
     \/ /\ Failing("io", "answer")
        /\ UNCHANGED card
  /\ UNCHANGED <<mounted, kept, before, unclean>>

\* Mutant: nobody looks at what fwrite and fclose return.
WriteTempUnchecked ==
  /\ AtStep("write")
  /\ \/ /\ card' = [card EXCEPT ![job.temp] = job.content]
        /\ Goto("replace")
     \/ /\ Failing("io", "replace")
        /\ UNCHANGED card
  /\ UNCHANGED <<mounted, kept, before, unclean>>

WriteTemp ==
  /\ AtStep("write")
  /\ \/ /\ card' = [card EXCEPT ![job.temp] = job.content]
        /\ Goto("replace")
     \/ /\ Failing("io", "dropTemp")
        /\ UNCHANGED card
  /\ UNCHANGED <<mounted, kept, before, unclean>>

\* A target whose lookup fails is taken for one that is not there.
LookUpTarget ==
  /\ AtStep("replace")
  /\ \/ /\ card[job.path] = Folder
        /\ Goto("dropTemp")
     \/ /\ card[job.path] = Absent
        /\ Goto("install")
     \/ /\ card[job.path] \notin {Absent, Folder}
        /\ \E n \in TempNames :
             /\ Unused(n)
             /\ job' = [job EXCEPT !.step = "backup", !.backup = n]
     \/ /\ card[job.path] \notin {Absent, Folder}
        /\ \E n \in TempNames : ~Unused(n)
        /\ Goto("dropTemp")
     \/ /\ card[job.path] # Absent
        /\ Failing("lookup", "install")
  /\ UNCHANGED <<card, mounted, kept, before, unclean>>

\* Mutant: the answer that the target cannot be moved is all.
MoveToBackupKeepsTemp ==
  /\ AtStep("backup")
  /\ \/ /\ card' = Renamed(job.path, job.backup)
        /\ Goto("install")
     \/ /\ Failing("io", "answer")
        /\ UNCHANGED card
  /\ UNCHANGED <<mounted, kept, before, unclean>>

\* Mutant: the target is removed to make room for the new file.
MoveToBackupRemoves ==
  /\ AtStep("backup")
  /\ card' = [card EXCEPT ![job.path] = Absent]
  /\ Goto("install")
  /\ UNCHANGED <<mounted, kept, before, unclean>>

MoveToBackup ==
  /\ AtStep("backup")
  /\ \/ /\ card' = Renamed(job.path, job.backup)
        /\ Goto("install")
     \/ /\ MayFail("io")
        /\ job' = [job EXCEPT !.step = "dropTemp", !.backup = Nowhere, !.faults = @ + 1]
        /\ UNCHANGED card
  /\ UNCHANGED <<mounted, kept, before, unclean>>

\* moved_target_to_backup
Moved == job.backup # Nowhere

AfterInstallFailed == IF Moved THEN "restore" ELSE "dropTemp"

Install ==
  /\ AtStep("install")
  /\ \/ /\ CanRename(job.temp, job.path)
        /\ card' = Renamed(job.temp, job.path)
        /\ kept' = [kept EXCEPT ![job.path] = job.content]
        /\ IF Moved
           THEN job' = [job EXCEPT !.step = "dropBackup", !.temp = Nowhere]
           ELSE job' = [job EXCEPT !.step = "answer", !.temp = Nowhere, !.ok = TRUE]
     \/ /\ ~CanRename(job.temp, job.path)
        /\ Goto(AfterInstallFailed)
        /\ UNCHANGED <<card, kept>>
     \/ /\ Failing("io", AfterInstallFailed)
        /\ UNCHANGED <<card, kept>>
  /\ UNCHANGED <<mounted, before, unclean>>

\* Mutant: only the new file is removed when it could not be moved.
RestoreBackupForgotten ==
  /\ AtStep("restore")
  /\ Goto("dropTemp")
  /\ UNCHANGED <<card, mounted, kept, before, unclean>>

RestoreBackup ==
  /\ AtStep("restore")
  /\ \/ /\ card' = Renamed(job.backup, job.path)
        /\ Goto("dropTemp")
        /\ UNCHANGED unclean
     \/ /\ Failing("io", "dropTemp")
        /\ unclean' = TRUE
        /\ UNCHANGED card
  /\ UNCHANGED <<mounted, kept, before>>

DropTemp ==
  /\ AtStep("dropTemp")
  /\ \/ /\ card' = [card EXCEPT ![job.temp] = Absent]
        /\ Goto("answer")
        /\ UNCHANGED unclean
     \/ /\ Failing("io", "answer")
        /\ unclean' = TRUE
        /\ UNCHANGED card
  /\ UNCHANGED <<mounted, kept, before>>

DropBackup ==
  /\ AtStep("dropBackup")
  /\ \/ /\ card' = [card EXCEPT ![job.backup] = Absent]
        /\ Succeed
        /\ UNCHANGED unclean
     \/ /\ MayFail("io")
        /\ job' = [job EXCEPT !.step = "answer", !.ok = TRUE, !.faults = @ + 1]
        /\ unclean' = TRUE
        /\ UNCHANGED card
  /\ UNCHANGED <<mounted, kept, before>>

-----------------------------------------------------------------------------
(* The other requests.                                                     *)

\* create_file_handler.  Opening for writing empties a file that is there: it
\* is not, unless its lookup has failed.
CreateFile ==
  /\ Starting("create")
  /\ \/ /\ card[job.path] # Absent \/ ~HasParent(job.path)
        /\ Goto("answer")
        /\ UNCHANGED <<card, kept>>
     \/ /\ card[job.path] = Absent /\ HasParent(job.path)
        /\ card' = [card EXCEPT ![job.path] = Empty]
        /\ kept' = [kept EXCEPT ![job.path] = Empty]
        /\ Goto("closeNew")
     \/ /\ card[job.path] \notin {Absent, Folder}
        /\ Failing("lookup", "closeNew")
        /\ card' = [card EXCEPT ![job.path] = Empty]
        /\ kept' = [kept EXCEPT ![job.path] = Empty]
     \/ /\ Failing("io", "answer")
        /\ UNCHANGED <<card, kept>>
  /\ UNCHANGED <<mounted, before, unclean>>

CloseNewFile ==
  /\ AtStep("closeNew")
  /\ Succeed \/ Failing("io", "answer")
  /\ UNCHANGED <<card, mounted, kept, before, unclean>>

\* mkdir_handler
MakeFolder ==
  /\ Starting("mkdir")
  /\ \/ /\ card[job.path] = Absent /\ HasParent(job.path)
        /\ card' = [card EXCEPT ![job.path] = Folder]
        /\ Succeed
     \/ /\ card[job.path] # Absent \/ ~HasParent(job.path)
        /\ Goto("answer")
        /\ UNCHANGED card
     \/ /\ Failing("io", "answer")
        /\ UNCHANGED card
  /\ UNCHANGED <<mounted, kept, before, unclean>>

\* delete_handler
Delete ==
  /\ Starting("delete")
  /\ \/ /\ CanDelete(job.path)
        /\ card' = [card EXCEPT ![job.path] = Absent]
        /\ kept' = [kept EXCEPT ![job.path] = Absent]
        /\ Succeed
     \/ /\ ~CanDelete(job.path)
        /\ Goto("answer")
        /\ UNCHANGED <<card, kept>>
     \/ /\ card[job.path] # Absent
        /\ Failing("io", "answer") \/ Failing("lookup", "answer")
        /\ UNCHANGED <<card, kept>>
  /\ UNCHANGED <<mounted, before, unclean>>

-----------------------------------------------------------------------------
Save ==
  \/ OpenTemp \/ WriteTemp \/ LookUpTarget \/ MoveToBackup \/ Install
  \/ RestoreBackup \/ DropTemp \/ DropBackup

Next ==
  \/ Request \/ Mount \/ Unmount \/ PowerCut
  \/ Save
  \/ CreateFile \/ CloseNewFile \/ MakeFolder \/ Delete

Spec == Init /\ [][Next]_vars

-----------------------------------------------------------------------------
(* Properties.                                                             *)

\* Temporary names that are not the save's own new file.
Stored == TempNames \ {job.temp}

\* Whatever fails and whenever the power ends, the content last saved or
\* created under a path is there or under a temporary name: replacing a file
\* never has a moment in which neither the old nor the new content is on the
\* card (replace_file_with_temp).  Create empties a file whose lookup failed
\* and kept follows it there: against that the code has no defence.
NothingLost ==
  \A p \in Paths :
    kept[p] # Absent =>
      card[p] = kept[p] \/ \E n \in Stored : card[n] = kept[p]

\* No file that is written in part is ever under a user's path
\* (write_content_to_file moves only what was written and closed).
NoTornFile == \A p \in Paths : card[p] # Torn

\* What a request asks for.
Effect ==
  [before EXCEPT ![job.path] =
     CASE job.op = "save"   -> job.content
       [] job.op = "create" -> Empty
       [] job.op = "mkdir"  -> Folder
       [] job.op = "delete" -> Absent]

\* Folders are not replaced, and create and mkdir replace nothing unless a
\* lookup failed.
Allowed ==
  /\ job.op = "save" => before[job.path] # Folder
  /\ job.op = "create" => before[job.path] = Absent \/ job.faults > 0
  /\ job.op = "mkdir" => before[job.path] = Absent

\* A request answered with success has done what it was asked, where that was
\* allowed, and nothing else; one answered with an error has changed no file of
\* the user, if only one call has failed.  (A file that could be created but
\* not closed stays.)
AnswerTellsTheTruth ==
  AtStep("answer") =>
    IF job.ok THEN Allowed /\ Files = Effect
    ELSE job.faults < 2 =>
           Files = before \/ (job.op = "create" /\ job.faults = 1 /\ Files = Effect)

\* No request leaves a temporary file or a mounted card behind, by whichever of
\* its returns it ends and whichever call has failed, unless the call that was to
\* clean up failed or the power ended (every early return of
\* replace_file_with_temp removes what was made before it).
NothingLeftBehind ==
  AtStep("idle") /\ ~unclean => ~mounted /\ \A n \in TempNames : Unused(n)
=============================================================================
