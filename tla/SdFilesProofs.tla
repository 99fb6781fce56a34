---------------------------- MODULE SdFilesProofs ----------------------------
(***************************************************************************)
(* Theorems about SdFiles: its types, that no file is lost, that no torn   *)
(* file is ever under a user's path, that an answer tells what has         *)
(* happened, and that nothing is left behind where nothing fails.          *)
(***************************************************************************)
EXTENDS SdFiles, TLAPS

Saving == {"write", "replace", "backup", "install", "restore", "dropTemp"}

\* The locals of the handler, where they are in use.
Locals ==
  /\ ~AtStep("idle") => job.path \in Paths
  /\ job.step \in Saving => job.temp \in TempNames
  /\ job.step \in {"idle", "mount", "start", "write", "replace"} => ~Moved
  /\ job.step \in {"idle", "mount", "start", "closeNew", "dropBackup"} =>
       job.temp = Nowhere
  /\ job.step \in {"backup", "restore", "dropBackup"} => Moved
  /\ Moved => job.backup # job.temp

\* The new file is complete once it has been written, and the target, while it
\* has been moved away, is complete in the backup.
FilesOfSave ==
  /\ job.step \in {"replace", "backup", "install"} => card[job.temp] = job.content
  /\ AtStep("backup") => card[job.backup] = Absent /\ card[job.path] # Absent
  /\ job.step \in {"install", "restore"} /\ Moved =>
       card[job.path] = Absent /\ card[job.backup] # Torn
  /\ AtStep("dropBackup") => card[job.path] = kept[job.path]

\* NothingLost, and the backup of the save under way is nobody else's.
Safe ==
  \A p \in Paths :
    kept[p] # Absent =>
      \/ card[p] = kept[p]
      \/ \E n \in Stored : card[n] = kept[p] /\ (n = job.backup => p = job.path)

FilesInv == TypeOK /\ Locals /\ FilesOfSave /\ NoTornFile /\ Safe

-----------------------------------------------------------------------------
(* Types.                                                                  *)

LEMMA NoJobType == NoJob \in Job
BY FilesAssumption DEF NoJob, Job, Steps, Ops

LEMMA FailingJob ==
  ASSUME job \in Job, NEW s \in Steps, NEW k, Failing(k, s)
  PROVE  job' \in Job
<1>1. job.faults + 1 \in Nat
  BY DEF Job
<1>2. job' = [job EXCEPT !.step = s, !.faults = job.faults + 1]
  BY DEF Failing
<1>3. \A n \in Nat : [job EXCEPT !.step = s, !.faults = n] \in Job
  BY DEF Job
<1> QED
  BY <1>1, <1>2, <1>3

LEMMA GotoJob ==
  ASSUME job \in Job, NEW s \in Steps, Goto(s)
  PROVE  job' \in Job
BY DEF Goto, Job

LEMMA JobStep ==
  ASSUME job \in Job, [Next]_vars
  PROVE  job' \in Job
<1>1. \A s \in Steps : Goto(s) => job' \in Job
  BY GotoJob
<1>2. \A s \in Steps, k \in FaultNames : Failing(k, s) => job' \in Job
  BY FailingJob
<1>3. job.faults + 1 \in Nat
  BY DEF Job
<1> USE DEF Steps, FaultNames
<1>4. CASE Request
  BY <1>4, NoJobType DEF Request, NoJob, Job, Ops
<1>5. CASE Mount
  BY <1>1, <1>2, <1>5 DEF Mount, Job
<1>6. CASE Unmount
  BY <1>6, NoJobType DEF Unmount
<1>7. CASE PowerCut
  BY <1>7, NoJobType DEF PowerCut
<1>8. CASE OpenTemp
  BY <1>1, <1>2, <1>8 DEF OpenTemp, Job
<1>9. CASE WriteTemp
  BY <1>1, <1>2, <1>9 DEF WriteTemp
<1>10. CASE LookUpTarget
  BY <1>1, <1>2, <1>10 DEF LookUpTarget, Job
<1>11. CASE MoveToBackup
  BY <1>1, <1>2, <1>3, <1>11 DEF MoveToBackup, MayFail, Succeed, Job
<1>12. CASE Install
  BY <1>1, <1>2, <1>12 DEF Install, AfterInstallFailed, Job
<1>13. CASE RestoreBackup
  BY <1>1, <1>2, <1>13 DEF RestoreBackup
<1>14. CASE DropTemp
  BY <1>1, <1>2, <1>14 DEF DropTemp
<1>15. CASE DropBackup
  BY <1>1, <1>2, <1>3, <1>15 DEF DropBackup, MayFail, Succeed, Job
<1>16. CASE CreateFile
  BY <1>1, <1>2, <1>16 DEF CreateFile
<1>17. CASE CloseNewFile
  BY <1>1, <1>2, <1>17 DEF CloseNewFile, Succeed, Job
<1>18. CASE MakeFolder
  BY <1>1, <1>2, <1>18 DEF MakeFolder, Succeed, Job
<1>19. CASE Delete
  BY <1>1, <1>2, <1>19 DEF Delete, Succeed, Job
<1>20. CASE UNCHANGED vars
  BY <1>20 DEF vars
<1> QED
  BY <1>4, <1>5, <1>6, <1>7, <1>8, <1>9, <1>10, <1>11, <1>12, <1>13, <1>14, <1>15, <1>16, <1>17, <1>18, <1>19, <1>20 DEF Next, Save

\* What a step of the handler leaves alone.
SameRequest ==
  /\ job'.path = job.path
  /\ job'.content = job.content
  /\ job'.temp = job.temp
  /\ job'.backup = job.backup

LEMMA GotoFields ==
  ASSUME job \in Job, NEW s, Goto(s)
  PROVE  job'.step = s /\ SameRequest
BY DEF Goto, Job, SameRequest

LEMMA FailingFields ==
  ASSUME job \in Job, NEW s, NEW k, Failing(k, s)
  PROVE  job'.step = s /\ SameRequest
BY DEF Failing, Job, SameRequest

LEMMA SucceedFields ==
  ASSUME job \in Job, Succeed
  PROVE  job'.step = "answer" /\ SameRequest
BY DEF Succeed, Job, SameRequest

LEMMA LocalsStep ==
  ASSUME job \in Job, Locals, FilesOfSave, [Next]_vars
  PROVE  Locals'
<1>1. \A s : Goto(s) => job'.step = s /\ SameRequest
  BY GotoFields
<1>2. \A s, k : Failing(k, s) => job'.step = s /\ SameRequest
  BY FailingFields
<1>3. Succeed => job'.step = "answer" /\ SameRequest
  BY SucceedFields
<1> USE FilesAssumption DEF Locals, AtStep, Moved, Saving
<1>4. CASE Request
  BY <1>1, <1>2, <1>3, <1>4 DEF Request, NoJob
<1>5. CASE Mount
  <2>1. job'.step \in {"start", "answer"} /\ SameRequest
    BY <1>1, <1>2, <1>5 DEF Mount, SameRequest, Job
  <2> QED
    BY <2>1, <1>5 DEF Mount, SameRequest
<1>6. CASE Unmount
  BY <1>1, <1>2, <1>3, <1>6 DEF Unmount, NoJob
<1>7. CASE PowerCut
  BY <1>1, <1>2, <1>3, <1>7 DEF PowerCut, NoJob
<1>8. CASE OpenTemp
  BY <1>1, <1>2, <1>3, <1>8 DEF OpenTemp, SameRequest, Job, Starting
<1>9. CASE WriteTemp
  BY <1>1, <1>2, <1>3, <1>9 DEF WriteTemp, SameRequest
<1>10. CASE LookUpTarget
  <2>1. CASE job'.step = "backup"
    <3>1. PICK n \in TempNames :
            Unused(n) /\ job' = [job EXCEPT !.step = "backup", !.backup = n]
      <4>1. ~Goto("dropTemp") /\ ~Goto("install") /\ ~Failing("lookup", "install")
        BY <1>1, <1>2, <2>1
      <4> QED
        BY <4>1, <1>10 DEF LookUpTarget
    <3>2. job'.backup = n /\ job'.path = job.path /\ job'.temp = job.temp
      BY <3>1 DEF Job
    <3>3. n # job.temp
      BY <3>1, <1>10 DEF LookUpTarget, Unused, FilesOfSave, Job
    <3> QED
      BY <1>10, <2>1, <3>2, <3>3 DEF LookUpTarget
  <2>2. CASE job'.step # "backup"
    <3>1. job'.step \in {"install", "dropTemp"} /\ SameRequest
      BY <1>1, <1>2, <1>10, <2>2 DEF LookUpTarget, Job
    <3> QED
      BY <3>1, <1>10 DEF LookUpTarget, SameRequest
  <2> QED
    BY <2>1, <2>2
<1>11. CASE MoveToBackup
  <2>1. job'.path = job.path /\ job'.temp = job.temp
    BY <1>1, <1>11 DEF MoveToBackup, Job, SameRequest
  <2>2. \/ job'.step = "install" /\ job'.backup = job.backup
        \/ job'.step = "dropTemp" /\ job'.backup = Nowhere
    BY <1>1, <1>11 DEF MoveToBackup, Job, SameRequest
  <2> QED
    BY <2>1, <2>2, <1>11 DEF MoveToBackup
<1>12. CASE Install
  <2>1. job'.path = job.path /\ job'.backup = job.backup
    BY <1>1, <1>2, <1>12 DEF Install, Job, SameRequest
  <2>2. \/ job'.step = "dropBackup" /\ Moved /\ job'.temp = Nowhere
        \/ job'.step = "answer" /\ job'.temp = Nowhere
        \/ job'.step = AfterInstallFailed /\ job'.temp = job.temp
    BY <1>1, <1>2, <1>12 DEF Install, Job, SameRequest
  <2> QED
    BY <2>1, <2>2, <1>12 DEF Install, AfterInstallFailed
<1>13. CASE RestoreBackup
  BY <1>1, <1>2, <1>3, <1>13 DEF RestoreBackup, SameRequest
<1>14. CASE DropTemp
  BY <1>1, <1>2, <1>3, <1>14 DEF DropTemp, SameRequest
<1>15. CASE DropBackup
  BY <1>1, <1>2, <1>3, <1>15 DEF DropBackup, SameRequest, Job, Starting
<1>16. CASE CreateFile
  BY <1>1, <1>2, <1>3, <1>16 DEF CreateFile, SameRequest, Starting
<1>17. CASE CloseNewFile
  BY <1>1, <1>2, <1>3, <1>17 DEF CloseNewFile, SameRequest
<1>18. CASE MakeFolder
  BY <1>1, <1>2, <1>3, <1>18 DEF MakeFolder, SameRequest, Starting
<1>19. CASE Delete
  BY <1>1, <1>2, <1>3, <1>19 DEF Delete, SameRequest, Starting
<1>20. CASE UNCHANGED vars
  BY <1>20 DEF vars
<1> QED
  BY <1>4, <1>5, <1>6, <1>7, <1>8, <1>9, <1>10, <1>11, <1>12, <1>13, <1>14, <1>15, <1>16, <1>17, <1>18, <1>19, <1>20 DEF Next, Save

LEMMA CardType ==
  ASSUME TypeOK, Locals, [Next]_vars
  PROVE  card' \in [Names -> Contents \cup {Absent, Folder, Torn}]
<1> USE FilesAssumption DEF TypeOK, Locals, AtStep, Starting, Names, Renamed, Moved, Saving
<1>1. CASE Request
  BY <1>1 DEF Request, Job
<1>2. CASE Mount
  BY <1>2 DEF Mount, Job
<1>3. CASE Unmount
  BY <1>3 DEF Unmount, Job
<1>4. CASE PowerCut
  BY <1>4 DEF PowerCut, Job
<1>5. CASE OpenTemp
  BY <1>5 DEF OpenTemp, Job
<1>6. CASE WriteTemp
  BY <1>6 DEF WriteTemp, Job
<1>7. CASE LookUpTarget
  BY <1>7 DEF LookUpTarget, Job
<1>8. CASE MoveToBackup
  BY <1>8 DEF MoveToBackup, Job
<1>9. CASE Install
  BY <1>9 DEF Install, Job
<1>10. CASE RestoreBackup
  BY <1>10 DEF RestoreBackup, Job
<1>11. CASE DropTemp
  BY <1>11 DEF DropTemp, Job
<1>12. CASE DropBackup
  BY <1>12 DEF DropBackup, Job
<1>13. CASE CreateFile
  BY <1>13 DEF CreateFile, Job
<1>14. CASE CloseNewFile
  BY <1>14 DEF CloseNewFile, Job
<1>15. CASE MakeFolder
  BY <1>15 DEF MakeFolder, Job
<1>16. CASE Delete
  BY <1>16 DEF Delete, Job
<1>17. CASE UNCHANGED vars
  BY <1>17 DEF vars
<1> QED
  BY <1>1, <1>2, <1>3, <1>4, <1>5, <1>6, <1>7, <1>8, <1>9, <1>10, <1>11, <1>12, <1>13, <1>14, <1>15, <1>16, <1>17 DEF Next, Save

LEMMA HistoryType ==
  ASSUME TypeOK, Locals, [Next]_vars
  PROVE  /\ mounted' \in BOOLEAN
         /\ unclean' \in BOOLEAN
         /\ kept' \in [Paths -> Contents \cup {Absent}]
         /\ before' \in [Paths -> Contents \cup {Absent, Folder, Torn}]
<1> USE FilesAssumption DEF TypeOK, Locals, AtStep, Starting, Names
<1>1. CASE Request
  BY <1>1 DEF Request, Job, Files, Failing
<1>2. CASE Mount
  BY <1>2 DEF Mount, Job, Files, Failing
<1>3. CASE Unmount
  BY <1>3 DEF Unmount, Job, Files, Failing
<1>4. CASE PowerCut
  BY <1>4 DEF PowerCut, Job, Files, Failing
<1>5. CASE OpenTemp
  BY <1>5 DEF OpenTemp, Job, Files, Failing
<1>6. CASE WriteTemp
  BY <1>6 DEF WriteTemp, Job, Files, Failing
<1>7. CASE LookUpTarget
  BY <1>7 DEF LookUpTarget, Job, Files, Failing
<1>8. CASE MoveToBackup
  BY <1>8 DEF MoveToBackup, Job, Files, Failing
<1>9. CASE Install
  BY <1>9 DEF Install, Job, Files, Failing
<1>10. CASE RestoreBackup
  BY <1>10 DEF RestoreBackup, Job, Files, Failing
<1>11. CASE DropTemp
  BY <1>11 DEF DropTemp, Job, Files, Failing
<1>12. CASE DropBackup
  BY <1>12 DEF DropBackup, Job, Files, Failing
<1>13. CASE CreateFile
  <2>1. job.path \in Paths
    BY <1>13 DEF CreateFile
  <2>2. kept' = kept \/ kept' = [kept EXCEPT ![job.path] = Empty]
    BY <1>13 DEF CreateFile
  <2>3. unclean' = unclean \/ unclean' = TRUE
    BY <1>13 DEF CreateFile, Failing
  <2>4. UNCHANGED <<mounted, before>>
    BY <1>13 DEF CreateFile
  <2>5. kept' \in [Paths -> Contents \cup {Absent}]
    BY <2>1, <2>2
  <2> QED
    BY <2>3, <2>4, <2>5
<1>14. CASE CloseNewFile
  BY <1>14 DEF CloseNewFile, Job, Files, Failing
<1>15. CASE MakeFolder
  BY <1>15 DEF MakeFolder, Job, Files, Failing
<1>16. CASE Delete
  BY <1>16 DEF Delete, Job, Files, Failing
<1>17. CASE UNCHANGED vars
  BY <1>17 DEF vars
<1> QED
  BY <1>1, <1>2, <1>3, <1>4, <1>5, <1>6, <1>7, <1>8, <1>9, <1>10, <1>11, <1>12, <1>13, <1>14, <1>15, <1>16, <1>17 DEF Next, Save

-----------------------------------------------------------------------------
(* The files.                                                              *)

LEMMA NoTornFileStep ==
  ASSUME TypeOK, Locals, FilesOfSave, NoTornFile, [Next]_vars
  PROVE  NoTornFile'
<1> USE FilesAssumption DEF TypeOK, Locals, AtStep, Starting, Names, Renamed, Moved,
      Saving, NoTornFile
<1>1. CASE Request
  BY <1>1 DEF Request, Job
<1>2. CASE Mount
  BY <1>2 DEF Mount, Job
<1>3. CASE Unmount
  BY <1>3 DEF Unmount, Job
<1>4. CASE PowerCut
  BY <1>4 DEF PowerCut, Job
<1>5. CASE OpenTemp
  BY <1>5 DEF OpenTemp, Job
<1>6. CASE WriteTemp
  BY <1>6 DEF WriteTemp, Job
<1>7. CASE LookUpTarget
  BY <1>7 DEF LookUpTarget, Job
<1>8. CASE MoveToBackup
  <2>1. job.path \in Paths /\ job.backup \in TempNames
    BY <1>8 DEF MoveToBackup, Job
  <2>2. card' = card \/ card' = Renamed(job.path, job.backup)
    BY <1>8 DEF MoveToBackup
  <2> QED
    BY <2>1, <2>2 DEF Absent, Torn
<1>9. CASE Install
  BY <1>9 DEF Install, Job, FilesOfSave
<1>10. CASE RestoreBackup
  BY <1>10 DEF RestoreBackup, Job, FilesOfSave
<1>11. CASE DropTemp
  BY <1>11 DEF DropTemp, Job
<1>12. CASE DropBackup
  BY <1>12 DEF DropBackup, Job
<1>13. CASE CreateFile
  BY <1>13 DEF CreateFile, Job
<1>14. CASE CloseNewFile
  BY <1>14 DEF CloseNewFile, Job
<1>15. CASE MakeFolder
  <2>1. job.path \in Paths
    BY <1>15 DEF MakeFolder
  <2>2. card' = card \/ card' = [card EXCEPT ![job.path] = Folder]
    BY <1>15 DEF MakeFolder
  <2> QED
    BY <2>1, <2>2 DEF Folder, Torn
<1>16. CASE Delete
  <2>1. job.path \in Paths
    BY <1>16 DEF Delete
  <2>2. card' = card \/ card' = [card EXCEPT ![job.path] = Absent]
    BY <1>16 DEF Delete
  <2> QED
    BY <2>1, <2>2 DEF Absent, Torn
<1>17. CASE UNCHANGED vars
  BY <1>17 DEF vars
<1> QED
  BY <1>1, <1>2, <1>3, <1>4, <1>5, <1>6, <1>7, <1>8, <1>9, <1>10, <1>11, <1>12, <1>13, <1>14, <1>15, <1>16, <1>17 DEF Next, Save

LEMMA FilesOfSaveStep ==
  ASSUME TypeOK, Locals, FilesOfSave, NoTornFile, [Next]_vars
  PROVE  FilesOfSave'
<1>1. \A s : Goto(s) => job'.step = s /\ SameRequest
  BY GotoFields DEF TypeOK
<1>2. \A s, k : Failing(k, s) => job'.step = s /\ SameRequest
  BY FailingFields DEF TypeOK
<1>3. Succeed => job'.step = "answer" /\ SameRequest
  BY SucceedFields DEF TypeOK
<1> USE FilesAssumption DEF TypeOK, Locals, AtStep, Starting, Names, Moved, Saving,
      FilesOfSave
<1>4. CASE Request
  <2>1. job'.step = "mount"
    BY <1>1, <1>2, <1>3, <1>4 DEF Request, NoJob, Job
  <2> QED
    BY <2>1
<1>5. CASE Mount
  <2>1. job'.step \in {"start", "answer"}
    BY <1>1, <1>2, <1>3, <1>5 DEF Mount, NoJob, Job
  <2> QED
    BY <2>1
<1>6. CASE Unmount
  <2>1. job'.step = "idle"
    BY <1>1, <1>2, <1>3, <1>6 DEF Unmount, NoJob, Job
  <2> QED
    BY <2>1
<1>7. CASE PowerCut
  <2>1. job'.step = "idle"
    BY <1>1, <1>2, <1>3, <1>7 DEF PowerCut, NoJob, Job
  <2> QED
    BY <2>1
<1>8. CASE OpenTemp
  <2>1. job'.step \in {"write", "answer"}
    BY <1>1, <1>2, <1>3, <1>8 DEF OpenTemp, NoJob, Job
  <2> QED
    BY <2>1
<1>9. CASE WriteTemp
  <2>1. CASE Goto("replace")
    <3>1. card' = [card EXCEPT ![job.temp] = job.content]
      BY <1>1, <1>2, <2>1, <1>9 DEF WriteTemp
    <3> QED
      BY <1>1, <2>1, <3>1, <1>9 DEF WriteTemp, SameRequest
  <2>2. CASE Failing("io", "dropTemp")
    BY <1>2, <2>2
  <2> QED
    BY <2>1, <2>2, <1>9 DEF WriteTemp
<1>10. CASE LookUpTarget
  <2>1. CASE job'.step = "backup"
    <3>1. PICK n \in TempNames :
            Unused(n) /\ job' = [job EXCEPT !.step = "backup", !.backup = n]
      <4>1. ~Goto("dropTemp") /\ ~Goto("install") /\ ~Failing("lookup", "install")
        BY <1>1, <1>2, <2>1
      <4> QED
        BY <4>1, <1>10 DEF LookUpTarget
    <3>2. /\ job'.backup = n /\ job'.path = job.path /\ job'.temp = job.temp
          /\ job'.content = job.content
      BY <3>1 DEF Job
    <3>3. card[job.path] # Absent /\ card' = card
      BY <1>1, <1>2, <2>1, <1>10 DEF LookUpTarget
    <3> QED
      BY <2>1, <3>1, <3>2, <3>3, <1>10 DEF LookUpTarget, Unused
  <2>2. CASE job'.step # "backup"
    <3>1. job'.step \in {"install", "dropTemp"} /\ SameRequest
      BY <1>1, <1>2, <1>10, <2>2 DEF LookUpTarget, Job
    <3> QED
      BY <3>1, <1>10 DEF LookUpTarget, SameRequest
  <2> QED
    BY <2>1, <2>2
<1>11. CASE MoveToBackup
  <2>1. CASE Goto("install")
    <3>1. card' = Renamed(job.path, job.backup)
      BY <1>1, <2>1, <1>11 DEF MoveToBackup, Job
    <3>2. job.path \in Paths /\ job.backup \in TempNames /\ job.temp \in TempNames
      BY <1>11 DEF MoveToBackup, Job
    <3>3. card'[job.temp] = card[job.temp]
      BY <3>1, <3>2, <1>11 DEF Renamed, MoveToBackup
    <3>4. card'[job.path] = Absent /\ card'[job.backup] = card[job.path]
      BY <3>1, <3>2 DEF Renamed
    <3> QED
      BY <1>1, <2>1, <3>2, <3>3, <3>4, <1>11 DEF MoveToBackup, SameRequest, NoTornFile
  <2>2. CASE ~Goto("install")
    BY <2>2, <1>11 DEF MoveToBackup, Job
  <2> QED
    BY <2>1, <2>2
<1>12. CASE Install
  <2>1. CASE job'.step = "dropBackup"
    <3>1. card' = Renamed(job.temp, job.path)
      BY <1>1, <1>2, <2>1, <1>12 DEF Install, AfterInstallFailed
    <3>2. kept' = [kept EXCEPT ![job.path] = job.content]
      BY <1>1, <1>2, <2>1, <1>12 DEF Install, AfterInstallFailed
    <3>3. job'.path = job.path
      BY <1>1, <1>2, <1>12 DEF Install, SameRequest, Job
    <3> QED
      BY <2>1, <3>1, <3>2, <3>3, <1>12 DEF Install, Renamed
  <2>2. CASE job'.step # "dropBackup"
    <3>1. \/ job'.step \in {"answer", "dropTemp"}
          \/ job'.step = "restore" /\ SameRequest /\ card' = card
      BY <1>1, <1>2, <2>2, <1>12 DEF Install, AfterInstallFailed, Job
    <3> QED
      BY <3>1, <1>12 DEF Install, SameRequest
  <2> QED
    BY <2>1, <2>2
<1>13. CASE RestoreBackup
  <2>1. job'.step = "dropTemp"
    BY <1>1, <1>2, <1>3, <1>13 DEF RestoreBackup, NoJob, Job
  <2> QED
    BY <2>1
<1>14. CASE DropTemp
  <2>1. job'.step = "answer"
    BY <1>1, <1>2, <1>3, <1>14 DEF DropTemp, NoJob, Job
  <2> QED
    BY <2>1
<1>15. CASE DropBackup
  <2>1. job'.step = "answer"
    BY <1>1, <1>2, <1>3, <1>15 DEF DropBackup, NoJob, Job
  <2> QED
    BY <2>1
<1>16. CASE CreateFile
  <2>1. job'.step \in {"closeNew", "answer"}
    BY <1>1, <1>2, <1>3, <1>16 DEF CreateFile, NoJob, Job
  <2> QED
    BY <2>1
<1>17. CASE CloseNewFile
  <2>1. job'.step = "answer"
    BY <1>1, <1>2, <1>3, <1>17 DEF CloseNewFile, NoJob, Job
  <2> QED
    BY <2>1
<1>18. CASE MakeFolder
  <2>1. job'.step = "answer"
    BY <1>1, <1>2, <1>3, <1>18 DEF MakeFolder, NoJob, Job
  <2> QED
    BY <2>1
<1>19. CASE Delete
  <2>1. job'.step = "answer"
    BY <1>1, <1>2, <1>3, <1>19 DEF Delete, NoJob, Job
  <2> QED
    BY <2>1
<1>20. CASE UNCHANGED vars
  BY <1>20 DEF vars
<1> QED
  BY <1>4, <1>5, <1>6, <1>7, <1>8, <1>9, <1>10, <1>11, <1>12, <1>13, <1>14, <1>15, <1>16, <1>17, <1>18, <1>19, <1>20 DEF Next, Save

\* A step that changes no file and no history, and takes nothing but an unused
\* name for its backup.
LEMMA QuietStepSafe ==
  ASSUME Safe, UNCHANGED <<card, kept>>,
         job'.temp \in {job.temp, Nowhere},
         \/ job'.backup = Nowhere
         \/ job'.backup = job.backup /\ job'.path = job.path
         \/ card[job'.backup] = Absent
  PROVE  Safe'
BY FilesAssumption DEF Safe, Stored

LEMMA SafeStep ==
  ASSUME TypeOK, Locals, FilesOfSave, Safe, [Next]_vars
  PROVE  Safe'
<1>1. \A s : Goto(s) => job'.step = s /\ SameRequest
  BY GotoFields DEF TypeOK
<1>2. \A s, k : Failing(k, s) => job'.step = s /\ SameRequest
  BY FailingFields DEF TypeOK
<1>3. Succeed => job'.step = "answer" /\ SameRequest
  BY SucceedFields DEF TypeOK
<1> USE FilesAssumption DEF TypeOK, Locals, AtStep, Starting, Names, Moved, Saving
<1>4. CASE Request
  <2>1. UNCHANGED <<card, kept>> /\ job'.temp = Nowhere /\ job'.backup = Nowhere
    BY <1>4 DEF Request, NoJob
  <2> QED
    BY <2>1, QuietStepSafe
<1>5. CASE Mount
  <2>1. UNCHANGED <<card, kept>>
    BY <1>5 DEF Mount
  <2>2. SameRequest
    BY <1>1, <1>2, <1>3, <1>5 DEF Mount, SameRequest, Job
  <2> QED
    BY <2>1, <2>2, QuietStepSafe DEF SameRequest
<1>6. CASE Unmount
  <2>1. UNCHANGED <<card, kept>> /\ job'.temp = Nowhere /\ job'.backup = Nowhere
    BY <1>6 DEF Unmount, NoJob
  <2> QED
    BY <2>1, QuietStepSafe
<1>7. CASE PowerCut
  <2>1. UNCHANGED <<card, kept>> /\ job'.temp = Nowhere /\ job'.backup = Nowhere
    BY <1>7 DEF PowerCut, NoJob
  <2> QED
    BY <2>1, QuietStepSafe
<1>8. CASE OpenTemp
  <2>1. CASE UNCHANGED card
    <3>1. SameRequest
      <4>1. \A n \in TempNames : Unused(n) => card' # [card EXCEPT ![n] = Torn]
        BY <2>1 DEF Unused, Absent, Torn
      <4> QED
        BY <1>1, <1>2, <1>8, <4>1 DEF OpenTemp
    <3> QED
      BY <1>8, <2>1, <3>1, QuietStepSafe DEF OpenTemp, SameRequest
  <2>2. CASE ~UNCHANGED card
    <3>1. PICK m \in TempNames :
            /\ Unused(m)
            /\ card' = [card EXCEPT ![m] = Torn]
            /\ job' = [job EXCEPT !.step = "write", !.temp = m]
      BY <1>8, <2>2 DEF OpenTemp
    <3>2. job'.temp = m /\ job'.backup = Nowhere /\ job.temp = Nowhere /\ kept' = kept
      BY <3>1, <1>8 DEF OpenTemp, Job
    <3> QED
      BY <3>1, <3>2 DEF Safe, Stored, Unused
  <2> QED
    BY <2>1, <2>2
<1>9. CASE WriteTemp
  <2>1. SameRequest
    BY <1>1, <1>2, <1>3, <1>9 DEF WriteTemp, SameRequest, Job
  <2>2. CASE UNCHANGED <<card, kept>>
    BY <2>1, <2>2, QuietStepSafe DEF SameRequest
  <2>3. CASE card' = [card EXCEPT ![job.temp] = job.content] /\ UNCHANGED kept
    BY <2>1, <2>3, <1>9 DEF WriteTemp, SameRequest, Safe, Stored
  <2> QED
    BY <2>2, <2>3, <1>9 DEF WriteTemp
<1>10. CASE LookUpTarget
  <2>1. UNCHANGED <<card, kept>>
    BY <1>10 DEF LookUpTarget
  <2>2. job'.temp = job.temp /\ job'.path = job.path
    BY <1>1, <1>2, <1>10 DEF LookUpTarget, SameRequest, Job
  <2>3. job'.backup = job.backup \/ card[job'.backup] = Absent
    BY <1>1, <1>2, <1>10 DEF LookUpTarget, SameRequest, Job, Unused
  <2> QED
    BY <2>1, <2>2, <2>3, QuietStepSafe
<1>11. CASE MoveToBackup
  <2>1. CASE Goto("install") /\ card' = Renamed(job.path, job.backup)
    <3>1. job.path \in Paths /\ job.backup \in TempNames /\ job.backup # job.temp
      BY <1>11 DEF MoveToBackup, Job
    <3>2. SameRequest /\ kept' = kept
      BY <1>1, <2>1, <1>11 DEF MoveToBackup
    <3>3. card[job.backup] = Absent
      BY <1>11 DEF MoveToBackup, FilesOfSave
    <3> QED
      BY <2>1, <3>1, <3>2, <3>3 DEF Safe, Stored, Renamed, SameRequest
  <2>2. CASE ~(Goto("install") /\ card' = Renamed(job.path, job.backup))
    <3>1. UNCHANGED <<card, kept>> /\ job'.temp = job.temp /\ job'.backup = Nowhere
      BY <2>2, <1>11 DEF MoveToBackup, Job
    <3> QED
      BY <3>1, QuietStepSafe
  <2> QED
    BY <2>1, <2>2
<1>12. CASE Install
  <2>1. job'.path = job.path /\ job'.backup = job.backup /\ job'.temp \in {job.temp, Nowhere}
    <3>1. SameRequest \/ (\E o \in BOOLEAN, t \in Steps :
            job' = [job EXCEPT !.step = t, !.temp = Nowhere, !.ok = o])
          \/ (\E t \in Steps : job' = [job EXCEPT !.step = t, !.temp = Nowhere])
      BY <1>1, <1>2, <1>12 DEF Install, Steps
    <3> QED
      BY <3>1 DEF SameRequest, Job
  <2>2. CASE UNCHANGED <<card, kept>>
    BY <2>1, <2>2, QuietStepSafe
  <2>3. CASE /\ card' = Renamed(job.temp, job.path)
             /\ kept' = [kept EXCEPT ![job.path] = job.content]
    <3>1. job.path \in Paths /\ job.temp \in TempNames /\ card[job.temp] = job.content
      BY <1>12 DEF Install, FilesOfSave
    <3> QED
      BY <2>1, <2>3, <3>1 DEF Safe, Stored, Renamed
  <2> QED
    BY <2>2, <2>3, <1>12 DEF Install
<1>13. CASE RestoreBackup
  <2>1. SameRequest
    BY <1>1, <1>2, <1>3, <1>13 DEF RestoreBackup, SameRequest, Job
  <2>2. CASE UNCHANGED <<card, kept>>
    BY <2>1, <2>2, QuietStepSafe DEF SameRequest
  <2>3. CASE card' = Renamed(job.backup, job.path) /\ UNCHANGED kept
    <3>1. /\ job.path \in Paths /\ job.backup \in TempNames
          /\ card[job.path] = Absent
      BY <1>13 DEF RestoreBackup, FilesOfSave, Job
    <3> QED
      BY <2>1, <2>3, <3>1 DEF Safe, Stored, Renamed, SameRequest
  <2> QED
    BY <2>2, <2>3, <1>13 DEF RestoreBackup
<1>14. CASE DropTemp
  <2>1. SameRequest
    BY <1>1, <1>2, <1>3, <1>14 DEF DropTemp, SameRequest, Job
  <2>2. CASE UNCHANGED <<card, kept>>
    BY <2>1, <2>2, QuietStepSafe DEF SameRequest
  <2>3. CASE card' = [card EXCEPT ![job.temp] = Absent] /\ UNCHANGED kept
    BY <2>1, <2>3, <1>14 DEF DropTemp, SameRequest, Safe, Stored
  <2> QED
    BY <2>2, <2>3, <1>14 DEF DropTemp
<1>15. CASE DropBackup
  <2>1. SameRequest
    BY <1>1, <1>2, <1>3, <1>15 DEF DropBackup, SameRequest, Job
  <2>2. CASE UNCHANGED <<card, kept>>
    BY <2>1, <2>2, QuietStepSafe DEF SameRequest
  <2>3. CASE card' = [card EXCEPT ![job.backup] = Absent] /\ UNCHANGED kept
    <3>1. job.backup \in TempNames /\ card[job.path] = kept[job.path]
      BY <1>15 DEF DropBackup, FilesOfSave, Job
    <3> QED
      BY <2>1, <2>3, <3>1 DEF Safe, Stored, SameRequest
  <2> QED
    BY <2>2, <2>3, <1>15 DEF DropBackup
<1>16. CASE CreateFile
  <2>1. SameRequest
    BY <1>1, <1>2, <1>3, <1>16 DEF CreateFile, SameRequest, Job
  <2>2. CASE UNCHANGED <<card, kept>>
    BY <2>1, <2>2, QuietStepSafe DEF SameRequest
  <2>3. CASE /\ card' = [card EXCEPT ![job.path] = Empty]
             /\ kept' = [kept EXCEPT ![job.path] = Empty]
    BY <2>1, <2>3, <1>16 DEF CreateFile, SameRequest, Safe, Stored
  <2> QED
    BY <2>2, <2>3, <1>16 DEF CreateFile
<1>17. CASE CloseNewFile
  <2>1. UNCHANGED <<card, kept>>
    BY <1>17 DEF CloseNewFile
  <2>2. SameRequest
    BY <1>1, <1>2, <1>3, <1>17 DEF CloseNewFile, SameRequest, Job
  <2> QED
    BY <2>1, <2>2, QuietStepSafe DEF SameRequest
<1>18. CASE MakeFolder
  <2>1. SameRequest
    BY <1>1, <1>2, <1>3, <1>18 DEF MakeFolder, SameRequest, Job
  <2>2. CASE UNCHANGED <<card, kept>>
    BY <2>1, <2>2, QuietStepSafe DEF SameRequest
  <2>3. CASE /\ card[job.path] = Absent
             /\ card' = [card EXCEPT ![job.path] = Folder]
             /\ UNCHANGED kept
    BY <2>1, <2>3, <1>18 DEF MakeFolder, SameRequest, Safe, Stored
  <2> QED
    BY <2>2, <2>3, <1>18 DEF MakeFolder
<1>19. CASE Delete
  <2>1. SameRequest
    BY <1>1, <1>2, <1>3, <1>19 DEF Delete, SameRequest, Job
  <2>2. CASE UNCHANGED <<card, kept>>
    BY <2>1, <2>2, QuietStepSafe DEF SameRequest
  <2>3. CASE /\ card' = [card EXCEPT ![job.path] = Absent]
             /\ kept' = [kept EXCEPT ![job.path] = Absent]
    BY <2>1, <2>3, <1>19 DEF Delete, SameRequest, Safe, Stored
  <2> QED
    BY <2>2, <2>3, <1>19 DEF Delete
<1>20. CASE UNCHANGED vars
  BY <1>20, QuietStepSafe DEF vars
<1> QED
  BY <1>4, <1>5, <1>6, <1>7, <1>8, <1>9, <1>10, <1>11, <1>12, <1>13, <1>14, <1>15, <1>16, <1>17, <1>18, <1>19, <1>20 DEF Next, Save

LEMMA InitInv == Init => FilesInv
<1> SUFFICES ASSUME Init PROVE FilesInv
  OBVIOUS
<1>1. PICK f \in [Paths -> Contents \cup {Absent, Folder}] :
        /\ card = [n \in Names |-> IF n \in Paths THEN f[n] ELSE Absent]
        /\ kept = ContentOf(f)
        /\ before = f
  BY DEF Init
<1>2. TypeOK
  BY <1>1, NoJobType DEF Init, TypeOK, ContentOf
<1>3. Locals /\ FilesOfSave
  BY DEF Init, NoJob, Locals, FilesOfSave, AtStep, Moved, Saving
<1>4. NoTornFile
  BY <1>1, FilesAssumption DEF NoTornFile, Names, Torn, Absent, Folder
<1>5. Safe
  BY <1>1 DEF Safe, ContentOf, Names
<1> QED
  BY <1>2, <1>3, <1>4, <1>5 DEF FilesInv

\* The strengthened invariant holds of every behaviour, under every fault.
THEOREM FilesCorrect == Spec => []FilesInv
<1>1. FilesInv /\ [Next]_vars => FilesInv'
  <2> SUFFICES ASSUME FilesInv, [Next]_vars PROVE FilesInv'
    OBVIOUS
  <2> USE DEF FilesInv
  <2>1. TypeOK'
    BY JobStep, CardType, HistoryType DEF TypeOK
  <2>2. Locals' /\ FilesOfSave' /\ NoTornFile' /\ Safe'
    BY LocalsStep, FilesOfSaveStep, NoTornFileStep, SafeStep DEF TypeOK
  <2> QED
    BY <2>1, <2>2
<1> QED
  BY <1>1, InitInv, PTL DEF Spec

\* The handler keeps its locals and the card within their types: a temporary
\* name is always one of make_root_temp_path.
THEOREM FilesTypeCorrect == Spec => []TypeOK
<1>1. FilesInv => TypeOK
  BY DEF FilesInv
<1> QED
  BY <1>1, FilesCorrect, PTL

\* Whatever fails and whenever the power ends, the content last saved or
\* created under a path is there or under a temporary name
\* (replace_file_with_temp).
THEOREM NothingIsLost == Spec => []NothingLost
<1>1. FilesInv => NothingLost
  BY DEF FilesInv, Safe, NothingLost
<1> QED
  BY <1>1, FilesCorrect, PTL

\* No file that is written in part is ever under a user's path
\* (write_content_to_file).
THEOREM NoFileIsTorn == Spec => []NoTornFile
<1>1. FilesInv => NoTornFile
  BY DEF FilesInv
<1> QED
  BY <1>1, FilesCorrect, PTL
-----------------------------------------------------------------------------
(* What the request has done so far.                                       *)

\* The user's files while the target is only in the backup.
WithoutTarget == [before EXCEPT ![job.path] = Absent]

\* What each step of a handler finds: the files as they were; the target moved
\* away, which never happens to a folder; or the request done.  Only the failure
\* of two calls keeps the backup from being put back.
Outcome ==
  /\ ~AtStep("answer") => ~job.ok
  /\ job.step \in Saving \cup {"dropBackup"} => job.op = "save"
  /\ job.step \in {"mount", "start", "write", "replace", "backup"} =>
       Files = before /\ job.faults = 0
  /\ AtStep("backup") => before[job.path] \notin {Absent, Folder}
  /\ job.step \in {"install", "restore"} =>
       IF Moved
       THEN /\ Files = WithoutTarget
            /\ before[job.path] \notin {Absent, Folder}
            /\ card[job.backup] = before[job.path]
            /\ job.faults = IF AtStep("restore") THEN 1 ELSE 0
       ELSE Files = before
  /\ AtStep("dropTemp") /\ job.faults < 2 => Files = before
  /\ AtStep("dropBackup") => Allowed /\ Files = Effect
  /\ AtStep("closeNew") => job.op = "create" /\ Allowed /\ Files = Effect
  /\ AnswerTellsTheTruth

\* A file that was there has its folder: so the new file can take its place.
Trees == Tree(Files) /\ Tree(before)

\* As long as no clean-up has failed, the temporary names in use are those of the
\* save at work, and it is the request at work that mounted the card.
Tidy ==
  ~unclean =>
    /\ mounted => job.step \notin {"idle", "mount"} /\ job.session
    /\ \A n \in TempNames :
         ~Unused(n) =>
           \/ job.step \in Saving /\ n = job.temp
           \/ job.step \in {"install", "restore", "dropBackup"} /\ n = job.backup


\* The rest of what a step of the handler leaves alone.
SameKind == job'.op = job.op /\ job'.session = job.session

LEMMA GotoRest ==
  ASSUME job \in Job, NEW s, Goto(s)
  PROVE  SameKind /\ job'.ok = job.ok /\ job'.faults = job.faults
BY DEF Goto, Job, SameKind

LEMMA FailingRest ==
  ASSUME job \in Job, NEW s, NEW k, Failing(k, s)
  PROVE  SameKind /\ job'.ok = job.ok /\ job'.faults = job.faults + 1
BY DEF Failing, Job, SameKind

LEMMA SucceedRest ==
  ASSUME job \in Job, Succeed
  PROVE  SameKind /\ job'.ok /\ job'.faults = job.faults
BY DEF Succeed, Job, SameKind

LEMMA FilesType == TypeOK => Files \in [Paths -> Contents \cup {Absent, Folder, Torn}]
BY DEF TypeOK, Files, Names

\* What the calls of the file system do to the user's files.
LEMMA SetTemp ==
  ASSUME TypeOK, NEW n \in TempNames, NEW v, card' = [card EXCEPT ![n] = v]
  PROVE  Files' = Files
BY FilesAssumption DEF TypeOK, Files, Names

LEMMA SetPath ==
  ASSUME TypeOK, NEW p \in Paths, NEW v, card' = [card EXCEPT ![p] = v]
  PROVE  Files' = [Files EXCEPT ![p] = v]
BY DEF TypeOK, Files, Names

LEMMA RenameOut ==
  ASSUME TypeOK, NEW p \in Paths, NEW n \in TempNames, card' = Renamed(p, n)
  PROVE  Files' = [Files EXCEPT ![p] = Absent] /\ card'[n] = card[p]
<1>1. p # n /\ p \in Names /\ n \in Names
  BY FilesAssumption DEF Names
<1>2. card'[n] = card[p]
  BY <1>1 DEF TypeOK, Renamed
<1>3. \A q \in Paths : card'[q] = IF q = p THEN Absent ELSE card[q]
  BY <1>1, FilesAssumption DEF TypeOK, Renamed, Names
<1> QED
  BY <1>2, <1>3 DEF Files

LEMMA RenameIn ==
  ASSUME TypeOK, NEW p \in Paths, NEW n \in TempNames, card' = Renamed(n, p)
  PROVE  Files' = [Files EXCEPT ![p] = card[n]] /\ card'[n] = Absent
<1>1. p # n /\ p \in Names /\ n \in Names
  BY FilesAssumption DEF Names
<1>2. card'[n] = Absent
  BY <1>1 DEF TypeOK, Renamed
<1>3. \A q \in Paths : card'[q] = IF q = p THEN card[n] ELSE card[q]
  BY <1>1, FilesAssumption DEF TypeOK, Renamed, Names
<1> QED
  BY <1>2, <1>3 DEF Files

\* A path may change where its folder is there and, if it ceases to be one,
\* nothing is in it.
LEMMA TreeSet ==
  ASSUME NEW fs \in [Paths -> Contents \cup {Absent, Folder, Torn}], Tree(fs),
         NEW p \in Paths, NEW v,
         v # Absent /\ Parent[p] # Root => Parent[p] # p /\ fs[Parent[p]] = Folder,
         \/ v = Folder
         \/ fs[p] # Folder
         \/ \A q \in Paths : Parent[q] = p => fs[q] = Absent
  PROVE  Tree([fs EXCEPT ![p] = v])
<1> DEFINE gs == [fs EXCEPT ![p] = v]
<1> SUFFICES ASSUME NEW q \in Paths, gs[q] # Absent, Parent[q] # Root
             PROVE  gs[Parent[q]] = Folder
  BY DEF Tree
<1>1. Parent[q] \in Paths /\ p # Root
  BY FilesAssumption
<1>2. CASE q = p
  BY <1>1, <1>2
<1>3. CASE q # p
  <2>1. fs[Parent[q]] = Folder /\ fs[q] # Absent
    BY <1>3 DEF Tree
  <2> QED
    BY <1>1, <2>1
<1> QED
  BY <1>2, <1>3

LEMMA TreesStep ==
  ASSUME TypeOK, Locals, FilesOfSave, Trees, Outcome, [Next]_vars
  PROVE  Trees'
<1> DEFINE Same == Files' = Files /\ before' = before
<1> USE FilesAssumption DEF Locals, AtStep, Starting, Moved, Saving
<1>1. Same => Trees'
  BY DEF Trees, Tree
<1>2. \A p \in Paths : Files[p] = card[p]
  BY DEF Files
<1>3. ASSUME NEW v, Files' = [Files EXCEPT ![job.path] = v], before' = before, job.path \in Paths,
             v # Absent /\ Parent[job.path] # Root =>
               Parent[job.path] # job.path /\ Files[Parent[job.path]] = Folder,
             \/ v = Folder
             \/ Files[job.path] # Folder
             \/ \A q \in Paths : Parent[q] = job.path => Files[q] = Absent
      PROVE  Trees'
  <2>1. Tree([Files EXCEPT ![job.path] = v])
    BY <1>3, FilesType, TreeSet DEF Trees
  <2> QED
    BY <1>3, <2>1 DEF Trees, Tree
<1>4. CASE Request
  <2>1. Files' = Files /\ before' = Files
    BY <1>4 DEF Request, Files
  <2> QED
    BY <2>1 DEF Trees, Tree
<1>5. CASE Mount \/ Unmount \/ PowerCut \/ CloseNewFile \/ LookUpTarget
  <2>1. Same
    BY <1>5 DEF Mount, Unmount, PowerCut, CloseNewFile, LookUpTarget, Files
  <2> QED
    BY <1>1, <2>1
<1>6. CASE OpenTemp
  <2>1. before' = before /\ (card' = card \/ \E n \in TempNames : card' = [card EXCEPT ![n] = Torn])
    BY <1>6 DEF OpenTemp
  <2>2. Same
    BY <2>1, SetTemp DEF Files
  <2> QED
    BY <1>1, <2>2
<1>7. CASE WriteTemp
  <2>1. before' = before /\ job.temp \in TempNames
        /\ (card' = card \/ card' = [card EXCEPT ![job.temp] = job.content])
    BY <1>7 DEF WriteTemp
  <2>2. Same
    BY <2>1, SetTemp DEF Files
  <2> QED
    BY <1>1, <2>2
<1>8. CASE MoveToBackup
  <2>1. /\ job.path \in Paths /\ job.backup \in TempNames /\ before' = before
        /\ card' = card \/ card' = Renamed(job.path, job.backup)
    BY <1>8 DEF MoveToBackup, TypeOK, Job
  <2>2. Files = before /\ before[job.path] # Folder
    BY <1>8 DEF MoveToBackup, Outcome
  <2>3. CASE card' = card
    BY <1>1, <2>1, <2>3 DEF Files
  <2>4. CASE card' = Renamed(job.path, job.backup)
    <3>1. Files' = [Files EXCEPT ![job.path] = Absent]
      BY <2>1, <2>4, RenameOut
    <3> QED
      BY <1>3, <2>1, <2>2, <3>1
  <2> QED
    BY <2>1, <2>3, <2>4
<1>9. CASE Install
  <2>1. job.path \in Paths /\ job.temp \in TempNames /\ before' = before
    BY <1>9 DEF Install, TypeOK, Job
  <2>2. CASE card' = card
    BY <1>1, <2>1, <2>2 DEF Files
  <2>3. CASE CanRename(job.temp, job.path) /\ card' = Renamed(job.temp, job.path)
    <3>1. Files' = [Files EXCEPT ![job.path] = card[job.temp]]
      BY <2>1, <2>3, RenameIn
    <3>2. Files[job.path] = Absent /\ (Parent[job.path] = Root \/ Files[Parent[job.path]] = Folder)
      BY <1>2, <2>1, <2>3 DEF CanRename, HasParent
    <3> QED
      BY <1>3, <2>1, <3>1, <3>2 DEF Absent, Folder
  <2> QED
    BY <2>2, <2>3, <1>9 DEF Install
<1>10. CASE RestoreBackup
  <2>1. /\ job.path \in Paths /\ job.backup \in TempNames /\ before' = before
        /\ card' = card \/ card' = Renamed(job.backup, job.path)
    BY <1>10 DEF RestoreBackup, TypeOK, Job
  <2>2. CASE card' = card
    BY <1>1, <2>1, <2>2 DEF Files
  <2>3. CASE card' = Renamed(job.backup, job.path)
    <3>1. Files' = [Files EXCEPT ![job.path] = card[job.backup]]
      BY <2>1, <2>3, RenameIn
    <3>2. Files = WithoutTarget /\ card[job.backup] = before[job.path]
      BY <1>10 DEF RestoreBackup, Outcome
    <3>3. Files' = before
      BY <2>1, <3>1, <3>2 DEF WithoutTarget, TypeOK
    <3> QED
      BY <2>1, <3>3 DEF Trees, Tree
  <2> QED
    BY <2>1, <2>2, <2>3
<1>11. CASE DropTemp
  <2>1. before' = before /\ job.temp \in TempNames
        /\ (card' = card \/ card' = [card EXCEPT ![job.temp] = Absent])
    BY <1>11 DEF DropTemp
  <2>2. Same
    BY <2>1, SetTemp DEF Files
  <2> QED
    BY <1>1, <2>2
<1>12. CASE DropBackup
  <2>1. before' = before /\ job.backup \in TempNames
        /\ (card' = card \/ card' = [card EXCEPT ![job.backup] = Absent])
    BY <1>12 DEF DropBackup, TypeOK, Job
  <2>2. Same
    BY <2>1, SetTemp DEF Files
  <2> QED
    BY <1>1, <2>2
<1>13. CASE CreateFile
  <2>1. job.path \in Paths /\ before' = before
    BY <1>13 DEF CreateFile
  <2>2. CASE card' = card
    BY <1>1, <2>1, <2>2 DEF Files
  <2>3. CASE card' = [card EXCEPT ![job.path] = Empty] /\ card[job.path] = Absent /\ HasParent(job.path)
    <3>1. Files' = [Files EXCEPT ![job.path] = Empty]
      BY <2>1, <2>3, SetPath
    <3>2. Files[job.path] = Absent /\ (Parent[job.path] = Root \/ Files[Parent[job.path]] = Folder)
      BY <1>2, <2>1, <2>3 DEF HasParent
    <3> QED
      BY <1>3, <2>1, <3>1, <3>2 DEF Absent, Folder
  <2>4. CASE card' = [card EXCEPT ![job.path] = Empty] /\ card[job.path] \notin {Absent, Folder}
    <3>1. Files' = [Files EXCEPT ![job.path] = Empty]
      BY <2>1, <2>4, SetPath
    <3>2. Files[job.path] \notin {Absent, Folder}
      BY <1>2, <2>1, <2>4
    <3>3. Parent[job.path] # Root => Files[Parent[job.path]] = Folder
      BY <2>1, <3>2 DEF Trees, Tree
    <3> QED
      BY <1>3, <2>1, <3>1, <3>2, <3>3
  <2> QED
    BY <2>2, <2>3, <2>4, <1>13 DEF CreateFile
<1>14. CASE MakeFolder
  <2>1. job.path \in Paths /\ before' = before
    BY <1>14 DEF MakeFolder
  <2>2. CASE card' = card
    BY <1>1, <2>1, <2>2 DEF Files
  <2>3. CASE card' = [card EXCEPT ![job.path] = Folder] /\ card[job.path] = Absent /\ HasParent(job.path)
    <3>1. Files' = [Files EXCEPT ![job.path] = Folder]
      BY <2>1, <2>3, SetPath
    <3>2. Files[job.path] = Absent /\ (Parent[job.path] = Root \/ Files[Parent[job.path]] = Folder)
      BY <1>2, <2>1, <2>3 DEF HasParent
    <3> QED
      BY <1>3, <2>1, <3>1, <3>2 DEF Absent, Folder
  <2> QED
    BY <2>2, <2>3, <1>14 DEF MakeFolder
<1>15. CASE Delete
  <2>1. job.path \in Paths /\ before' = before
    BY <1>15 DEF Delete
  <2>2. CASE card' = card
    BY <1>1, <2>1, <2>2 DEF Files
  <2>3. CASE card' = [card EXCEPT ![job.path] = Absent] /\ CanDelete(job.path)
    <3>1. Files' = [Files EXCEPT ![job.path] = Absent]
      BY <2>1, <2>3, SetPath
    <3>2. \A q \in Paths : Parent[q] = job.path => Files[q] = Absent
      BY <1>2, <2>1, <2>3 DEF CanDelete
    <3> QED
      BY <1>3, <2>1, <3>1, <3>2
  <2> QED
    BY <2>2, <2>3, <1>15 DEF Delete
<1>16. CASE UNCHANGED vars
  BY <1>1, <1>16 DEF vars, Files
<1> QED
  BY <1>4, <1>5, <1>6, <1>7, <1>8, <1>9, <1>10, <1>11, <1>12, <1>13, <1>14, <1>15, <1>16
  DEF Next, Save

\* Of the requests, a save alone comes to the steps of a save; and what a request
\* was allowed to do and what it does stays so as long as its arguments do.
LEMMA SameEffect ==
  ASSUME SameRequest, job'.op = job.op, before' = before
  PROVE  /\ Effect' = Effect /\ WithoutTarget' = WithoutTarget
         /\ Allowed /\ (job.faults > 0 => job'.faults > 0) => Allowed'
BY DEF SameRequest, Effect, WithoutTarget, Allowed

\* A step that ends the handler's work without success and leaves the files as
\* they were when the request came.
LEMMA RefusedOutcome ==
  ASSUME job'.step \in {"answer", "dropTemp"}, ~job'.ok,
         job'.step = "dropTemp" => job'.op = "save",
         job'.faults < 2 => Files' = before'
  PROVE  Outcome'
BY DEF Outcome, AnswerTellsTheTruth, AtStep, Saving

LEMMA OutcomeStep ==
  ASSUME TypeOK, Locals, FilesOfSave, Trees, Outcome, [Next]_vars
  PROVE  Outcome'
<1>1. \A s : Goto(s) => /\ job'.step = s /\ SameRequest /\ SameKind
                        /\ job'.ok = job.ok /\ job'.faults = job.faults
  BY GotoFields, GotoRest DEF TypeOK
<1>2. \A s, k : Failing(k, s) => /\ job'.step = s /\ SameRequest /\ SameKind
                                 /\ job'.ok = job.ok /\ job'.faults = job.faults + 1
  BY FailingFields, FailingRest DEF TypeOK
<1>3. Succeed => /\ job'.step = "answer" /\ SameRequest /\ SameKind
                 /\ job'.ok /\ job'.faults = job.faults
  BY SucceedFields, SucceedRest DEF TypeOK
<1>4. \A p \in Paths : Files[p] = card[p]
  BY DEF Files
<1>5. job.faults \in Nat /\ Files \in [Paths -> Contents \cup {Absent, Folder, Torn}]
      /\ before \in [Paths -> Contents \cup {Absent, Folder, Torn}]
  BY FilesType DEF TypeOK, Job
<1>6. SameKind => job'.op = job.op
  BY DEF SameKind
<1> USE FilesAssumption DEF Locals, AtStep, Starting, Moved, Saving
<1>7. CASE Request
  <2>1. /\ job'.step = "mount" /\ ~job'.ok /\ job'.faults = 0
        /\ Files' = Files /\ before' = Files
    BY <1>7 DEF Request, NoJob, Files
  <2> QED
    BY <2>1 DEF Outcome, AnswerTellsTheTruth
<1>8. CASE Mount
  <2>1. Files' = before' /\ before' = before /\ ~job.ok /\ job.faults = 0
    BY <1>8 DEF Mount, Outcome, Files
  <2>2. \/ job'.step = "start" /\ ~job'.ok /\ job'.faults = 0
        \/ job'.step = "answer" /\ ~job'.ok
    BY <1>1, <1>2, <1>8, <2>1 DEF Mount, TypeOK, Job
  <2> QED
    BY <2>1, <2>2, RefusedOutcome DEF Outcome, AnswerTellsTheTruth
<1>9. CASE Unmount \/ PowerCut
  <2>1. job'.step = "idle" /\ ~job'.ok
    BY <1>9 DEF Unmount, PowerCut, NoJob
  <2> QED
    BY <2>1 DEF Outcome, AnswerTellsTheTruth
<1>10. CASE OpenTemp
  <2>1. before' = before /\ (card' = card \/ \E n \in TempNames : card' = [card EXCEPT ![n] = Torn])
    BY <1>10 DEF OpenTemp
  <2>2. Files' = before' /\ before' = before /\ ~job.ok /\ job.faults = 0 /\ job.op = "save"
    BY <1>10, <2>1, SetTemp DEF OpenTemp, Outcome, Files
  <2>3. \/ job'.step = "write" /\ ~job'.ok /\ job'.faults = 0 /\ job'.op = "save"
        \/ job'.step = "answer" /\ ~job'.ok
    BY <1>1, <1>2, <1>10, <2>2 DEF OpenTemp, TypeOK, Job
  <2> QED
    BY <2>2, <2>3, RefusedOutcome DEF Outcome, AnswerTellsTheTruth
<1>11. CASE WriteTemp
  <2>1. before' = before /\ job.temp \in TempNames
        /\ (card' = card \/ card' = [card EXCEPT ![job.temp] = job.content])
    BY <1>11 DEF WriteTemp
  <2>2. Files' = before' /\ before' = before /\ ~job.ok /\ job.faults = 0 /\ job.op = "save"
    BY <1>11, <2>1, SetTemp DEF WriteTemp, Outcome, Files
  <2>3. \/ job'.step = "replace" /\ ~job'.ok /\ job'.faults = 0 /\ job'.op = "save"
        \/ job'.step = "dropTemp" /\ ~job'.ok /\ job'.op = "save"
    BY <1>1, <1>2, <1>6, <1>11, <2>2 DEF WriteTemp
  <2> QED
    BY <2>2, <2>3, RefusedOutcome DEF Outcome, AnswerTellsTheTruth
<1>12. CASE LookUpTarget
  <2>1. /\ Files' = before' /\ before' = before /\ ~job.ok /\ job.faults = 0 /\ job.op = "save"
        /\ job.backup = Nowhere /\ Files = before /\ job.path \in Paths
    BY <1>12 DEF LookUpTarget, Outcome, Files
  <2>2. CASE Goto("dropTemp")
    BY <1>1, <1>6, <2>1, <2>2, RefusedOutcome
  <2>3. CASE Goto("install") \/ Failing("lookup", "install")
    <3>1. job'.step = "install" /\ ~job'.ok /\ job'.op = "save" /\ job'.backup = Nowhere
      BY <1>1, <1>2, <1>6, <2>1, <2>3 DEF SameRequest
    <3> QED
      BY <2>1, <3>1 DEF Outcome, AnswerTellsTheTruth
  <2>4. ASSUME NEW n \in TempNames, job' = [job EXCEPT !.step = "backup", !.backup = n],
               card[job.path] \notin {Absent, Folder}
        PROVE  Outcome'
    <3>1. /\ job'.step = "backup" /\ ~job'.ok /\ job'.op = "save" /\ job'.faults = 0
          /\ job'.path = job.path
      BY <2>1, <2>4 DEF TypeOK, Job
    <3>2. before[job.path] \notin {Absent, Folder}
      BY <1>4, <2>1, <2>4
    <3> QED
      BY <2>1, <3>1, <3>2 DEF Outcome, AnswerTellsTheTruth
  <2> QED
    BY <1>12, <2>2, <2>3, <2>4 DEF LookUpTarget
<1>13. CASE MoveToBackup
  <2>1. /\ job.path \in Paths /\ job.backup \in TempNames /\ before' = before
        /\ Files = before /\ job.faults = 0 /\ ~job.ok /\ job.op = "save"
        /\ before[job.path] \notin {Absent, Folder}
    BY <1>13 DEF MoveToBackup, Outcome, TypeOK, Job
  <2>2. CASE card' = Renamed(job.path, job.backup) /\ Goto("install")
    <3>1. Files' = [Files EXCEPT ![job.path] = Absent] /\ card'[job.backup] = card[job.path]
      BY <2>1, <2>2, RenameOut
    <3>2. /\ job'.step = "install" /\ SameRequest /\ job'.op = "save" /\ job'.faults = 0
          /\ ~job'.ok
      BY <1>1, <1>6, <2>1, <2>2
    <3>3. Files' = WithoutTarget' /\ card'[job'.backup] = before'[job'.path]
      BY <1>4, <2>1, <3>1, <3>2 DEF WithoutTarget, SameRequest
    <3> QED
      BY <2>1, <3>2, <3>3 DEF Outcome, AnswerTellsTheTruth, SameRequest
  <2>3. CASE /\ job' = [job EXCEPT !.step = "dropTemp", !.backup = Nowhere, !.faults = @ + 1]
             /\ UNCHANGED card
    <3>1. job'.step = "dropTemp" /\ ~job'.ok /\ job'.op = "save" /\ Files' = Files
      BY <2>1, <2>3 DEF TypeOK, Job, Files
    <3> QED
      BY <2>1, <3>1, RefusedOutcome
  <2> QED
    BY <1>13, <2>2, <2>3 DEF MoveToBackup
<1>14. CASE Install
  <2>1. /\ job.path \in Paths /\ job.temp \in TempNames /\ before' = before /\ ~job.ok
        /\ job.op = "save"
        /\ IF Moved
           THEN /\ Files = WithoutTarget /\ before[job.path] \notin {Absent, Folder}
                /\ card[job.backup] = before[job.path] /\ job.faults = 0
           ELSE Files = before
    BY <1>14 DEF Install, Outcome
  <2>2. CASE CanRename(job.temp, job.path) /\ card' = Renamed(job.temp, job.path)
             /\ IF Moved
                THEN job' = [job EXCEPT !.step = "dropBackup", !.temp = Nowhere]
                ELSE job' = [job EXCEPT !.step = "answer", !.temp = Nowhere, !.ok = TRUE]
    <3>1. /\ job'.path = job.path /\ job'.op = job.op /\ job'.content = job.content
          /\ job'.step = IF Moved THEN "dropBackup" ELSE "answer"
          /\ ~Moved => job'.ok
          /\ Moved => ~job'.ok
      BY <2>1, <2>2 DEF TypeOK, Job
    <3>2. Files' = [Files EXCEPT ![job.path] = job.content] /\ card[job.path] = Absent
      BY <1>14, <2>1, <2>2, RenameIn DEF CanRename, Install, FilesOfSave
    <3>3. Effect' = [before EXCEPT ![job.path] = job.content]
      BY <2>1, <3>1 DEF Effect
    <3>4. Files' = Effect'
      BY <1>5, <2>1, <3>2, <3>3 DEF WithoutTarget
    <3>5. before[job.path] # Folder
      BY <1>4, <2>1, <3>2 DEF Absent, Folder
    <3>6. Allowed'
      BY <2>1, <3>1, <3>5 DEF Allowed
    <3> QED
      BY <2>1, <3>1, <3>4, <3>6 DEF Outcome, AnswerTellsTheTruth
  <2>3. CASE ~CanRename(job.temp, job.path) /\ Goto(AfterInstallFailed) /\ UNCHANGED card
    <3>1. ~Moved
      <4> SUFFICES ASSUME Moved PROVE CanRename(job.temp, job.path)
        BY <2>3
      <4>1. card[job.temp] # Absent /\ card[job.path] = Absent
        BY <1>14 DEF Install, FilesOfSave, TypeOK, Job
      <4>2. Parent[job.path] # Root =>
              Parent[job.path] \in Paths /\ before[Parent[job.path]] = Folder
        BY <2>1 DEF Trees, Tree
      <4>3. Parent[job.path] # Root => card[Parent[job.path]] = Folder
        BY <1>4, <1>5, <2>1, <4>2 DEF WithoutTarget
      <4>4. HasParent(job.path)
        BY <4>2, <4>3 DEF HasParent
      <4> QED
        BY <4>1, <4>4 DEF CanRename
    <3>2. job'.step = "dropTemp" /\ ~job'.ok /\ job'.op = "save" /\ Files' = Files
      BY <1>1, <1>6, <2>1, <2>3, <3>1 DEF AfterInstallFailed, Files
    <3> QED
      BY <2>1, <3>1, <3>2, RefusedOutcome
  <2>4. CASE Failing("io", AfterInstallFailed) /\ UNCHANGED card
    <3>1. /\ job'.step = AfterInstallFailed /\ SameRequest /\ ~job'.ok /\ job'.op = "save"
          /\ job'.faults = job.faults + 1 /\ Files' = Files
      BY <1>2, <1>6, <2>1, <2>4 DEF Files
    <3>2. CASE Moved
      <4>1. job'.faults = 1 /\ job'.step = "restore" /\ WithoutTarget' = WithoutTarget
        BY <2>1, <3>1, <3>2 DEF AfterInstallFailed, WithoutTarget, SameRequest
      <4> QED
        BY <2>1, <2>4, <3>1, <3>2, <4>1 DEF Outcome, AnswerTellsTheTruth, SameRequest
    <3>3. CASE ~Moved
      BY <2>1, <3>1, <3>3, RefusedOutcome DEF AfterInstallFailed
    <3> QED
      BY <3>2, <3>3
  <2> QED
    BY <1>14, <2>2, <2>3, <2>4 DEF Install
<1>15. CASE RestoreBackup
  <2>1. /\ job.path \in Paths /\ job.backup \in TempNames /\ before' = before /\ ~job.ok
        /\ job.op = "save" /\ Files = WithoutTarget /\ card[job.backup] = before[job.path]
        /\ job.faults = 1
    BY <1>15 DEF RestoreBackup, Outcome, TypeOK, Job
  <2>2. CASE card' = Renamed(job.backup, job.path) /\ Goto("dropTemp")
    <3>1. Files' = [Files EXCEPT ![job.path] = card[job.backup]]
      BY <2>1, <2>2, RenameIn
    <3>2. Files' = before
      BY <1>5, <2>1, <3>1 DEF WithoutTarget
    <3>3. job'.step = "dropTemp" /\ ~job'.ok /\ job'.op = "save"
      BY <1>1, <1>6, <2>1, <2>2
    <3> QED
      BY <2>1, <3>2, <3>3, RefusedOutcome
  <2>3. CASE Failing("io", "dropTemp")
    <3>1. job'.step = "dropTemp" /\ ~job'.ok /\ job'.op = "save" /\ job'.faults = 2
      BY <1>2, <1>6, <2>1, <2>3
    <3> QED
      BY <3>1, RefusedOutcome
  <2> QED
    BY <1>15, <2>2, <2>3 DEF RestoreBackup
<1>16. CASE DropTemp
  <2>1. /\ before' = before /\ job.temp \in TempNames /\ ~job.ok
        /\ job.faults < 2 => Files = before
        /\ card' = card \/ card' = [card EXCEPT ![job.temp] = Absent]
    BY <1>16 DEF DropTemp, Outcome
  <2>2. Files' = Files
    BY <2>1, SetTemp DEF Files
  <2>3. job'.step = "answer" /\ ~job'.ok /\ job'.faults \in {job.faults, job.faults + 1}
    BY <1>1, <1>2, <1>16, <2>1 DEF DropTemp
  <2>4. job'.faults < 2 => job.faults < 2
    BY <1>5, <2>3
  <2> QED
    BY <2>1, <2>2, <2>3, <2>4, RefusedOutcome
<1>17. CASE DropBackup
  <2>1. /\ before' = before /\ job.backup \in TempNames /\ job.op = "save"
        /\ Allowed /\ Files = Effect
        /\ card' = card \/ card' = [card EXCEPT ![job.backup] = Absent]
    BY <1>17 DEF DropBackup, Outcome, TypeOK, Job
  <2>2. Files' = Files
    BY <2>1, SetTemp DEF Files
  <2>3. job'.step = "answer" /\ job'.ok /\ SameRequest /\ job'.op = job.op
    BY <1>3, <1>6, <1>17 DEF DropBackup, TypeOK, Job, SameRequest
  <2>4. Effect' = Effect /\ Allowed'
    BY <2>1, <2>3, SameEffect DEF Allowed, SameRequest
  <2> QED
    BY <2>1, <2>2, <2>3, <2>4 DEF Outcome, AnswerTellsTheTruth
<1>18. CASE CreateFile
  <2>1. /\ job.path \in Paths /\ before' = before /\ Files = before /\ job.faults = 0
        /\ ~job.ok /\ job.op = "create"
    BY <1>18 DEF CreateFile, Outcome
  <2>2. CASE UNCHANGED card /\ (Goto("answer") \/ Failing("io", "answer"))
    <3>1. job'.step = "answer" /\ ~job'.ok /\ Files' = Files
      BY <1>1, <1>2, <2>1, <2>2 DEF Files
    <3> QED
      BY <2>1, <3>1, RefusedOutcome
  <2>3. CASE /\ card' = [card EXCEPT ![job.path] = Empty]
             /\ \/ card[job.path] = Absent /\ Goto("closeNew")
                \/ Failing("lookup", "closeNew")
    <3>1. /\ job'.step = "closeNew" /\ ~job'.ok /\ SameRequest /\ job'.op = "create"
          /\ card[job.path] = Absent \/ job'.faults > 0
      BY <1>1, <1>2, <1>6, <2>1, <2>3
    <3>2. Files' = [Files EXCEPT ![job.path] = Empty]
      BY <2>1, <2>3, SetPath
    <3>3. Files' = Effect'
      BY <2>1, <3>1, <3>2 DEF Effect, SameRequest
    <3>4. Allowed'
      BY <1>4, <2>1, <3>1 DEF Allowed, SameRequest
    <3> QED
      BY <3>1, <3>3, <3>4 DEF Outcome, AnswerTellsTheTruth
  <2> QED
    BY <1>18, <2>2, <2>3 DEF CreateFile
<1>19. CASE CloseNewFile
  <2>1. /\ before' = before /\ Files' = Files /\ ~job.ok /\ job.op = "create"
        /\ Allowed /\ Files = Effect
    BY <1>19 DEF CloseNewFile, Outcome, Files
  <2>2. /\ job'.step = "answer" /\ SameRequest /\ job'.op = "create"
        /\ \/ job'.ok /\ job'.faults = job.faults
           \/ ~job'.ok /\ job'.faults = job.faults + 1
    BY <1>2, <1>3, <1>6, <1>19, <2>1 DEF CloseNewFile
  <2>3. Effect' = Effect
    BY <2>1, <2>2, SameEffect
  <2>4. job'.ok => Allowed'
    BY <2>1, <2>2 DEF Allowed, SameRequest
  <2>5. ~job'.ok /\ job'.faults < 2 => job'.faults = 1
    BY <1>5, <2>2
  <2> QED
    BY <2>1, <2>2, <2>3, <2>4, <2>5 DEF Outcome, AnswerTellsTheTruth
<1>20. CASE MakeFolder
  <2>1. /\ job.path \in Paths /\ before' = before /\ Files = before /\ job.faults = 0
        /\ ~job.ok /\ job.op = "mkdir"
    BY <1>20 DEF MakeFolder, Outcome
  <2>2. CASE UNCHANGED card /\ (Goto("answer") \/ Failing("io", "answer"))
    <3>1. job'.step = "answer" /\ ~job'.ok /\ Files' = Files
      BY <1>1, <1>2, <2>1, <2>2 DEF Files
    <3> QED
      BY <2>1, <3>1, RefusedOutcome
  <2>3. CASE card[job.path] = Absent /\ card' = [card EXCEPT ![job.path] = Folder] /\ Succeed
    <3>1. job'.step = "answer" /\ job'.ok /\ SameRequest /\ job'.op = "mkdir"
      BY <1>3, <1>6, <2>1, <2>3
    <3>2. Files' = [Files EXCEPT ![job.path] = Folder]
      BY <2>1, <2>3, SetPath
    <3>3. Files' = Effect'
      BY <2>1, <3>1, <3>2 DEF Effect, SameRequest
    <3>4. Allowed'
      BY <1>4, <2>1, <2>3, <3>1 DEF Allowed, SameRequest
    <3> QED
      BY <3>1, <3>3, <3>4 DEF Outcome, AnswerTellsTheTruth
  <2> QED
    BY <1>20, <2>2, <2>3 DEF MakeFolder
<1>21. CASE Delete
  <2>1. /\ job.path \in Paths /\ before' = before /\ Files = before /\ job.faults = 0
        /\ ~job.ok /\ job.op = "delete"
    BY <1>21 DEF Delete, Outcome
  <2>2. CASE UNCHANGED card /\ (Goto("answer") \/ Failing("io", "answer") \/ Failing("lookup", "answer"))
    <3>1. job'.step = "answer" /\ ~job'.ok /\ Files' = Files
      BY <1>1, <1>2, <2>1, <2>2 DEF Files
    <3> QED
      BY <2>1, <3>1, RefusedOutcome
  <2>3. CASE card' = [card EXCEPT ![job.path] = Absent] /\ Succeed
    <3>1. job'.step = "answer" /\ job'.ok /\ SameRequest /\ job'.op = "delete"
      BY <1>3, <1>6, <2>1, <2>3
    <3>2. Files' = [Files EXCEPT ![job.path] = Absent]
      BY <2>1, <2>3, SetPath
    <3>3. Files' = Effect'
      BY <2>1, <3>1, <3>2 DEF Effect, SameRequest
    <3>4. Allowed'
      BY <3>1 DEF Allowed
    <3> QED
      BY <3>1, <3>3, <3>4 DEF Outcome, AnswerTellsTheTruth
  <2> QED
    BY <1>21, <2>2, <2>3 DEF Delete
<1>22. CASE UNCHANGED vars
  <2>1. UNCHANGED <<card, job, before>> /\ Files' = Files
    BY <1>22 DEF vars, Files
  <2> QED
    BY <2>1 DEF Outcome, AnswerTellsTheTruth, Effect, WithoutTarget, Allowed
<1> QED
  BY <1>7, <1>8, <1>9, <1>10, <1>11, <1>12, <1>13, <1>14, <1>15, <1>16, <1>17, <1>18, <1>19,
     <1>20, <1>21, <1>22
  DEF Next, Save

-----------------------------------------------------------------------------
(* What is left behind.                                                    *)

LEMMA TidyStep ==
  ASSUME TypeOK, Locals, FilesOfSave, Tidy, [Next]_vars
  PROVE  Tidy'
<1> SUFFICES ASSUME ~unclean'
             PROVE  /\ mounted' => job'.step \notin {"idle", "mount"} /\ job'.session
                    /\ \A n \in TempNames :
                         card'[n] # Absent =>
                           \/ job'.step \in Saving /\ n = job'.temp
                           \/ /\ job'.step \in {"install", "restore", "dropBackup"}
                              /\ n = job'.backup
  BY DEF Tidy, Unused
<1>1. \A s : Goto(s) => job'.step = s /\ SameRequest /\ SameKind
  BY GotoFields, GotoRest DEF TypeOK
<1>2. \A s, k : Failing(k, s) => job'.step = s /\ SameRequest /\ SameKind
  BY FailingFields, FailingRest DEF TypeOK
<1>3. Succeed => job'.step = "answer" /\ SameRequest /\ SameKind
  BY SucceedFields, SucceedRest DEF TypeOK
<1>4. ~unclean =>
        /\ mounted => job.step \notin {"idle", "mount"} /\ job.session
        /\ \A n \in TempNames :
             card[n] # Absent =>
               \/ job.step \in Saving /\ n = job.temp
               \/ job.step \in {"install", "restore", "dropBackup"} /\ n = job.backup
  BY DEF Tidy, Unused
<1> USE FilesAssumption DEF Locals, AtStep, Starting, Moved, Saving
<1>5. CASE Request
  BY <1>4, <1>5 DEF Request, NoJob
<1>6. CASE Mount
  <2>1. job.step = "mount" /\ UNCHANGED <<card, unclean>>
    BY <1>6 DEF Mount
  <2>2. ~mounted /\ \A n \in TempNames : card'[n] = Absent
    BY <1>4, <2>1
  <2>3. job'.step \in {"start", "answer"}
    BY <1>1, <1>2, <1>6 DEF Mount, TypeOK, Job
  <2>4. mounted' => job'.session
    BY <1>6, <2>2 DEF Mount, TypeOK, Job
  <2> QED
    BY <2>2, <2>3, <2>4
<1>7. CASE Unmount
  BY <1>4, <1>7 DEF Unmount, NoJob
<1>8. CASE PowerCut
  BY <1>8 DEF PowerCut
<1>9. CASE OpenTemp
  <2>1. CASE UNCHANGED card
    <3>1. job'.step \in {"write", "answer"} /\ job'.session = job.session
      BY <1>1, <1>2, <1>9 DEF OpenTemp, TypeOK, Job, SameKind
    <3>2. job.step = "start" /\ UNCHANGED <<mounted, unclean>>
      BY <1>9 DEF OpenTemp
    <3>3. \A n \in TempNames : card'[n] = Absent
      BY <1>4, <2>1, <3>2
    <3>4. mounted' => job'.session
      BY <1>4, <3>1, <3>2
    <3> QED
      BY <3>1, <3>3, <3>4
  <2>2. CASE ~UNCHANGED card
    <3>1. PICK m \in TempNames :
            /\ card' = [card EXCEPT ![m] = Torn]
            /\ job' = [job EXCEPT !.step = "write", !.temp = m]
            /\ UNCHANGED unclean
      BY <1>9, <2>2, <1>2 DEF OpenTemp
    <3>2. job'.step = "write" /\ job'.temp = m /\ job'.session = job.session
      BY <3>1 DEF TypeOK, Job
    <3>3. \A n \in TempNames : n # m => card'[n] = card[n]
      BY <3>1 DEF TypeOK, Names
    <3>4. job.step = "start" /\ UNCHANGED <<mounted, unclean>>
      BY <1>9 DEF OpenTemp
    <3>5. \A n \in TempNames : card'[n] # Absent => n = m
      BY <1>4, <3>3, <3>4
    <3>6. mounted' => job'.session
      BY <1>4, <3>2, <3>4
    <3> QED
      BY <3>2, <3>5, <3>6
  <2> QED
    BY <2>1, <2>2
<1>10. CASE WriteTemp
  <2>1. /\ job'.step \in {"replace", "dropTemp"} /\ SameRequest /\ SameKind
        /\ UNCHANGED <<unclean, mounted>>
    BY <1>1, <1>2, <1>10 DEF WriteTemp
  <2>2. \A n \in TempNames : n # job.temp => card'[n] = card[n]
    BY <1>10 DEF WriteTemp, TypeOK, Names
  <2>3. \A n \in TempNames : card'[n] # Absent => n = job.temp
    BY <1>4, <1>10, <2>1, <2>2 DEF WriteTemp
  <2>4. job.step = "write" /\ job'.temp = job.temp /\ job'.session = job.session
    BY <1>10, <2>1 DEF WriteTemp, SameRequest, SameKind
  <2>5. mounted' => job'.session
    BY <1>4, <2>1, <2>4
  <2> QED
    BY <2>1, <2>3, <2>4, <2>5
<1>11. CASE LookUpTarget
  <2>1. /\ job'.step \in {"dropTemp", "install", "backup"} /\ job'.temp = job.temp
        /\ job'.session = job.session /\ UNCHANGED <<unclean, mounted, card>>
    BY <1>1, <1>2, <1>11 DEF LookUpTarget, SameRequest, SameKind, TypeOK, Job
  <2>2. job.step = "replace"
    BY <1>11 DEF LookUpTarget
  <2>3. \A n \in TempNames : card'[n] # Absent => n = job.temp
    BY <1>4, <2>1, <2>2
  <2>4. mounted' => job'.session
    BY <1>4, <2>1
  <2> QED
    BY <2>1, <2>3, <2>4
<1>12. CASE MoveToBackup
  <2>1. UNCHANGED <<unclean, mounted>>
    BY <1>12 DEF MoveToBackup
  <2>2. CASE card' = Renamed(job.path, job.backup) /\ Goto("install")
    <3>1. job'.step = "install" /\ SameRequest /\ SameKind
      BY <1>1, <2>2
    <3>2. \A n \in TempNames : n # job.backup => card'[n] = card[n]
      BY <1>12, <2>2 DEF MoveToBackup, Renamed, TypeOK, Names
    <3> QED
      BY <1>4, <1>12, <2>1, <3>1, <3>2 DEF MoveToBackup, SameRequest, SameKind
  <2>3. CASE /\ UNCHANGED card
             /\ job' = [job EXCEPT !.step = "dropTemp", !.backup = Nowhere, !.faults = @ + 1]
    <3>1. job'.step = "dropTemp" /\ job'.temp = job.temp /\ job'.session = job.session
      BY <2>3 DEF TypeOK, Job
    <3>2. job.step = "backup"
      BY <1>12 DEF MoveToBackup
    <3>3. \A n \in TempNames : card'[n] # Absent => n = job.temp
      BY <1>4, <2>1, <2>3, <3>2
    <3>4. mounted' => job'.session
      BY <1>4, <2>1, <3>1, <3>2
    <3> QED
      BY <3>1, <3>3, <3>4
  <2> QED
    BY <1>12, <2>2, <2>3 DEF MoveToBackup
<1>13. CASE Install
  <2>1. UNCHANGED <<unclean, mounted>>
    BY <1>2, <1>13 DEF Install
  <2>2. CASE card' = Renamed(job.temp, job.path)
             /\ IF Moved
                THEN job' = [job EXCEPT !.step = "dropBackup", !.temp = Nowhere]
                ELSE job' = [job EXCEPT !.step = "answer", !.temp = Nowhere, !.ok = TRUE]
    <3>1. /\ job'.step = IF Moved THEN "dropBackup" ELSE "answer"
          /\ job'.backup = job.backup /\ job'.session = job.session
      BY <2>2 DEF TypeOK, Job
    <3>2. card'[job.temp] = Absent /\ \A n \in TempNames : n # job.temp => card'[n] = card[n]
      BY <1>13, <2>2 DEF Install, Renamed, TypeOK, Names
    <3> QED
      BY <1>4, <1>13, <2>1, <3>1, <3>2 DEF Install
  <2>3. CASE UNCHANGED card /\ (Goto(AfterInstallFailed) \/ Failing("io", AfterInstallFailed))
    <3>1. /\ job'.step = AfterInstallFailed /\ SameRequest /\ SameKind
      BY <1>1, <1>2, <2>3
    <3> QED
      BY <1>4, <1>13, <2>1, <2>3, <3>1 DEF Install, AfterInstallFailed, SameRequest, SameKind
  <2> QED
    BY <1>2, <1>13, <2>2, <2>3 DEF Install
<1>14. CASE RestoreBackup
  <2>1. /\ job'.step = "dropTemp" /\ SameRequest /\ SameKind /\ UNCHANGED <<unclean, mounted>>
        /\ card' = Renamed(job.backup, job.path)
    BY <1>1, <1>2, <1>14 DEF RestoreBackup
  <2>2. job.backup \in TempNames
    BY <1>14 DEF RestoreBackup, TypeOK, Job
  <2>3. card'[job.backup] = Absent /\ \A n \in TempNames : n # job.backup => card'[n] = card[n]
    BY <1>14, <2>1, <2>2 DEF RestoreBackup, Renamed, TypeOK, Names
  <2> QED
    BY <1>4, <1>14, <2>1, <2>2, <2>3 DEF RestoreBackup, SameRequest, SameKind
<1>15. CASE DropTemp
  <2>1. /\ job'.step = "answer" /\ SameRequest /\ SameKind /\ UNCHANGED <<unclean, mounted>>
        /\ card' = [card EXCEPT ![job.temp] = Absent]
    BY <1>1, <1>2, <1>15 DEF DropTemp
  <2>2. card'[job.temp] = Absent /\ \A n \in TempNames : n # job.temp => card'[n] = card[n]
    BY <1>15, <2>1 DEF DropTemp, TypeOK, Names
  <2> QED
    BY <1>4, <1>15, <2>1, <2>2 DEF DropTemp, SameRequest, SameKind
<1>16. CASE DropBackup
  <2>1. /\ job'.step = "answer" /\ SameRequest /\ SameKind /\ UNCHANGED <<unclean, mounted>>
        /\ card' = [card EXCEPT ![job.backup] = Absent]
    BY <1>3, <1>16 DEF DropBackup
  <2>2. job.backup \in TempNames
    BY <1>16 DEF DropBackup, TypeOK, Job
  <2>3. card'[job.backup] = Absent /\ \A n \in TempNames : n # job.backup => card'[n] = card[n]
    BY <2>1, <2>2 DEF TypeOK, Names
  <2> QED
    BY <1>4, <1>16, <2>1, <2>2, <2>3 DEF DropBackup, SameRequest, SameKind
<1>17. CASE CreateFile \/ CloseNewFile \/ MakeFolder \/ Delete
  <2>1. /\ job.step \in {"start", "closeNew"} /\ job.path \in Paths
        /\ UNCHANGED <<unclean, mounted>>
        /\ card' = card \/ \E v : card' = [card EXCEPT ![job.path] = v]
    BY <1>2, <1>17 DEF CreateFile, CloseNewFile, MakeFolder, Delete
  <2>2. job'.step \in {"answer", "closeNew"} /\ SameKind
    BY <1>1, <1>2, <1>3, <1>17 DEF CreateFile, CloseNewFile, MakeFolder, Delete
  <2>3. \A n \in TempNames : card'[n] = card[n]
    BY <2>1 DEF TypeOK, Names
  <2> QED
    BY <1>4, <2>1, <2>2, <2>3 DEF SameKind
<1>18. CASE UNCHANGED vars
  BY <1>4, <1>18 DEF vars
<1> QED
  BY <1>5, <1>6, <1>7, <1>8, <1>9, <1>10, <1>11, <1>12, <1>13, <1>14, <1>15, <1>16, <1>17, <1>18
  DEF Next, Save

LEMMA InitRest == Init => Trees /\ Outcome /\ Tidy
<1> SUFFICES ASSUME Init PROVE Trees /\ Outcome /\ Tidy
  OBVIOUS
<1>1. PICK f \in [Paths -> Contents \cup {Absent, Folder}] :
        /\ Tree(f) /\ before = f
        /\ card = [n \in Names |-> IF n \in Paths THEN f[n] ELSE Absent]
  BY DEF Init
<1>2. Files = f
  BY <1>1 DEF Files, Names
<1>3. Trees
  BY <1>1, <1>2 DEF Trees
<1>4. Outcome
  BY DEF Init, NoJob, Outcome, AnswerTellsTheTruth, AtStep, Saving
<1>5. \A n \in TempNames : card[n] = Absent
  BY <1>1, FilesAssumption DEF Names
<1>6. Tidy
  BY <1>5 DEF Init, NoJob, Tidy, Unused
<1> QED
  BY <1>3, <1>4, <1>6

\* A request answered with success has done what it was asked and nothing else,
\* and one answered with an error has changed nothing if only one call failed, but
\* for a file it created and could not close: at every step of every handler, whatever
\* is on the card, since the new file finds its folder where the old one was
\* (replace_file_with_temp).
THEOREM AnswersAreTrue == Spec => []AnswerTellsTheTruth
<1>1. FilesInv /\ Trees /\ Outcome /\ [Next]_vars => Trees' /\ Outcome'
  BY TreesStep, OutcomeStep DEF FilesInv
<1>2. Outcome => AnswerTellsTheTruth
  BY DEF Outcome
<1> QED
  BY <1>1, <1>2, InitRest, FilesCorrect, PTL DEF Spec

\* No request leaves a temporary file or a mounted card behind, by whichever of its
\* returns it ends and whichever call has failed, unless the call that was to clean
\* up failed or the power ended (replace_file_with_temp, ~SdCardSession).
THEOREM NothingIsLeft == Spec => []NothingLeftBehind
<1>1. FilesInv /\ Tidy /\ [Next]_vars => Tidy'
  BY TidyStep DEF FilesInv
<1>2. Tidy => NothingLeftBehind
  BY DEF Tidy, NothingLeftBehind, AtStep, Saving
<1> QED
  BY <1>1, <1>2, InitRest, FilesCorrect, PTL DEF Spec
=============================================================================
