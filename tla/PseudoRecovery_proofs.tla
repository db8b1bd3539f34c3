----------------------- MODULE PseudoRecovery_proofs -----------------------
(***************************************************************************)
(* The user's boot script survives and comes back, and the board has       *)
(* something to boot, for every set of scripts and any number of reboots   *)
(* into recovery, of power cuts and of commands that fail.                 *)
(***************************************************************************)
EXTENDS PseudoRecovery, TLAPS

\* What can be in a file that a copy, a sync or a power cut leaves.
LEMMA ContentsTold ==
    /\ {Absent, Torn, Rec, Image} \subseteq Contents
    /\ Scripts \cup {Absent} \subseteq Contents
    /\ Rec \notin Scripts \cup {Absent} /\ Torn \notin Scripts \cup {Absent}
    /\ Image \notin Scripts \cup {Absent}
  BY RecoveryAssumption DEF Contents, Absent, Torn, Rec, Image

\* A command that is done keeps the types of what it does not write.
LEMMA StepKeepsType ==
    ASSUME NEW command \in Commands, NEW next \in Commands \cup {"none"},
           RecoveryTypeOK, Step(command, next),
           file' \in [FileNames -> Contents], disk' \in [FileNames -> Contents]
    PROVE  RecoveryTypeOK'
  BY DEF Step, bounds, RecoveryTypeOK

\* So does one that fails.
LEMMA FailsKeepsType ==
    ASSUME NEW command \in Commands, NEW next \in Commands \cup {"none"},
           RecoveryTypeOK, Fails(command, next),
           file' \in [FileNames -> Contents], disk' \in [FileNames -> Contents]
    PROVE  RecoveryTypeOK'
  <1>1. failures' \in 0 .. MaxFailures
    BY RecoveryAssumption DEF Fails, RecoveryTypeOK
  <1>2. mishaps' \subseteq Mishaps
    BY DEF Fails, RecoveryTypeOK, Mishaps
  <1> QED
    BY <1>1, <1>2 DEF Fails, RecoveryTypeOK

\* A copy, begun, done or failed, keeps the files' types.
LEMMA CopyType ==
    ASSUME NEW command \in Commands, NEW f \in FileNames, NEW what \in Contents,
           NEW next \in Commands \cup {"none"}, RecoveryTypeOK,
           Copy(command, f, what, next)
    PROVE  RecoveryTypeOK'
  <1>1. disk' \in [FileNames -> Contents]
    BY DEF Copy, RecoveryTypeOK
  <1>2. file' \in [FileNames -> Contents]
    BY ContentsTold DEF Copy, RecoveryTypeOK
  <1>3. CASE Fails(command, next)
    BY <1>1, <1>2, <1>3, FailsKeepsType
  <1>4. CASE ~Fails(command, next)
    BY <1>1, <1>2, <1>4 DEF Copy, bounds, RecoveryTypeOK
  <1> QED BY <1>3, <1>4

\* What the backup does: it leaves the other files alone, and it is under
\* way, done, or failed and told so.
LEMMA BackupDoes ==
    ASSUME RecoveryTypeOK, Backup
    PROVE  /\ UNCHANGED <<disk, mine, system>> /\ script = "backup"
           /\ \A g \in FileNames \ {"bak"} : file'[g] = file[g]
           /\ \/ /\ copying' = TRUE /\ script' = "backup"
                 /\ mishaps' = mishaps /\ file["boot"] # Absent
              \/ /\ script' = "boot"
                 /\ \/ /\ mishaps' = mishaps
                       /\ file'["bak"] = IF file["boot"] = Absent
                                         THEN file["bak"] ELSE file["boot"]
                    \/ mishaps' = mishaps \cup {"backup"}
  <1>1. CASE file["boot"] = Absent
    BY <1>1 DEF Backup, Step
  <1>2. CASE file["boot"] # Absent
    BY <1>2 DEF Backup, Copy, Fails, RecoveryTypeOK, FileNames
  <1> QED BY <1>1, <1>2

\* So does a copy of the recovery image or its boot script.
LEMMA PutScriptDoes ==
    ASSUME RecoveryTypeOK, PutScript
    PROVE  /\ UNCHANGED <<disk, mine, system>> /\ script = "boot"
           /\ \A g \in FileNames \ {"boot"} : file'[g] = file[g]
           /\ \/ script' = "boot" /\ mishaps' = mishaps
              \/ /\ copying' = FALSE /\ script' = "uboot"
                 /\ \/ mishaps' = mishaps /\ file'["boot"] = Rec
                    \/ mishaps' = mishaps \cup {"boot"}
  BY DEF PutScript, Copy, Fails, RecoveryTypeOK, FileNames

\* So does a copy of the recovery image or its boot script.
LEMMA PutUbootDoes ==
    ASSUME RecoveryTypeOK, PutUboot
    PROVE  /\ UNCHANGED <<disk, mine, system>> /\ script = "uboot"
           /\ \A g \in FileNames \ {"uboot"} : file'[g] = file[g]
           /\ \/ script' = "uboot" /\ mishaps' = mishaps
              \/ /\ copying' = FALSE /\ script' = "kernel"
                 /\ \/ mishaps' = mishaps /\ file'["uboot"] = Image
                    \/ mishaps' = mishaps \cup {"uboot"}
  BY DEF PutUboot, Copy, Fails, RecoveryTypeOK, FileNames

\* So does a copy of the recovery image or its boot script.
LEMMA PutKernelDoes ==
    ASSUME RecoveryTypeOK, PutKernel
    PROVE  /\ UNCHANGED <<disk, mine, system>> /\ script = "kernel"
           /\ \A g \in FileNames \ {"kernel"} : file'[g] = file[g]
           /\ \/ script' = "kernel" /\ mishaps' = mishaps
              \/ /\ copying' = FALSE /\ script' = "sync"
                 /\ \/ mishaps' = mishaps /\ file'["kernel"] = Image
                    \/ mishaps' = mishaps \cup {"kernel"}
  BY DEF PutKernel, Copy, Fails, RecoveryTypeOK, FileNames

\* And so does putting the backup back.
LEMMA RestoreDoes ==
    ASSUME RecoveryTypeOK, Restore,
           script = "restore" /\ copying => file["bak"] # Absent
    PROVE  /\ UNCHANGED <<disk, mine, system>> /\ script = "restore"
           /\ \A g \in FileNames \ {"boot"} : file'[g] = file[g]
           /\ \/ /\ script' = "restore" /\ file["bak"] # Absent
                 /\ mishaps' = mishaps
              \/ /\ copying' = FALSE /\ script' = "umount"
                 /\ \/ mishaps' = mishaps /\ file'["boot"] = file["bak"]
                    \/ mishaps' = mishaps \cup {"restore"}
  <1>1. CASE file["bak"] = Absent
    BY <1>1 DEF Restore, Step, Fails, RecoveryTypeOK, FileNames
  <1>2. CASE file["bak"] # Absent
    BY <1>2 DEF Restore, Copy, Fails, RecoveryTypeOK, FileNames
  <1> QED BY <1>1, <1>2

\* Every step keeps the types.
LEMMA StepType ==
    ASSUME RecoveryTypeOK, [Next]_vars PROVE RecoveryTypeOK'
  <1> USE RecoveryAssumption, ContentsTold
  <1>1. CASE UserWrites
    BY <1>1 DEF UserWrites, RecoveryTypeOK, places, bounds, FileNames
  <1>2. CASE SetupRecovery
    <2>1. setups' \in 0 .. MaxSetups
      BY <1>2 DEF SetupRecovery, RecoveryTypeOK
    <2>2. mishaps' \subseteq Mishaps
      BY <1>2 DEF SetupRecovery, RecoveryTypeOK, Mishaps
    <2> QED
      BY <1>2, <2>1, <2>2 DEF SetupRecovery, RecoveryTypeOK, Commands
  <1>3. CASE Reboot
    BY <1>3 DEF Reboot, RecoveryTypeOK, bounds, Mishaps
  <1>4. CASE Boot
    BY <1>4 DEF Boot, RecoveryTypeOK, bounds, Commands, AfterBoot
  <1>5. CASE LeaveRecovery
    BY <1>5 DEF LeaveRecovery, RecoveryTypeOK, bounds
  <1>6. CASE PowerCut
    <2>1. disk' \in [FileNames -> Contents]
      BY <1>6 DEF PowerCut, RecoveryTypeOK
    <2>2. cuts' \in 0 .. MaxCuts
      BY <1>6 DEF PowerCut, RecoveryTypeOK
    <2> QED
      BY <1>6, <2>1, <2>2 DEF PowerCut, RecoveryTypeOK, Mishaps
  <1>7. CASE UNCHANGED vars
    BY <1>7 DEF vars, places, bounds, RecoveryTypeOK
  <1>8. CASE PrepStep \/ PostStep
    <2>0. file \in [FileNames -> Contents] /\ disk \in [FileNames -> Contents]
      BY DEF RecoveryTypeOK
    <2>1. file["boot"] \in Contents /\ file["bak"] \in Contents
      BY DEF RecoveryTypeOK, FileNames
    <2>9. CASE Mount
      BY <2>0, <2>9, StepKeepsType, FailsKeepsType DEF Mount, Commands
    <2>10. CASE Remount
      BY <2>0, <2>10, StepKeepsType, FailsKeepsType DEF Remount, Commands
    <2>2. CASE Backup
      BY <2>0, <2>1, <2>2, CopyType, StepKeepsType
         DEF Backup, Commands, FileNames
    <2>3. CASE PutScript
      BY <2>3, CopyType DEF PutScript, Commands, FileNames
    <2>4. CASE PutUboot
      BY <2>4, CopyType DEF PutUboot, Commands, FileNames
    <2>5. CASE PutKernel
      BY <2>5, CopyType DEF PutKernel, Commands, FileNames
    <2>6. CASE Sync
      BY <2>0, <2>6, StepKeepsType DEF Sync, Commands
    <2>7. CASE Restore
      <3>1. CASE file["bak"] # Absent
        BY <2>1, <2>7, <3>1, CopyType DEF Restore, Commands, FileNames
      <3>2. CASE file["bak"] = Absent
        <4>1. /\ file' \in [FileNames -> Contents]
              /\ disk' \in [FileNames -> Contents]
          BY <2>0, <2>7, <3>2 DEF Restore
        <4> QED
          BY <2>7, <3>2, <4>1, StepKeepsType, FailsKeepsType
             DEF Restore, Commands
      <3> QED BY <3>1, <3>2
    <2>8. CASE Umount
      BY <2>0, <2>8, StepKeepsType, FailsKeepsType DEF Umount, Commands
    <2> QED
      BY <1>8, <2>2, <2>3, <2>4, <2>5, <2>6, <2>7, <2>8, <2>9, <2>10
         DEF PrepStep, PostStep
  <1> QED
    BY <1>1, <1>2, <1>3, <1>4, <1>5, <1>6, <1>7, <1>8 DEF Next

----------------------------------------------------------------------------
\* The card begins as the user left it.
LEMMA InitInv == Init => RecoveryInv
  <1> SUFFICES ASSUME Init PROVE RecoveryInv
    OBVIOUS
  <1>1. file = disk /\ file \in [FileNames -> Contents] /\ file["boot"] = mine
    BY ContentsTold DEF Init, FileNames, Contents
  <1>2. mine = Absent => file["bak"] = Absent
    BY DEF Init, FileNames
  <1>3. RecoveryTypeOK
    <2>1. disk \in [FileNames -> Contents]
      BY <1>1
    <2>2. /\ setups \in 0 .. MaxSetups /\ cuts \in 0 .. MaxCuts
          /\ failures \in 0 .. MaxFailures
      BY RecoveryAssumption DEF Init
    <2>3. system = "android" /\ script = "none" /\ mishaps = {}
      BY DEF Init
    <2>4. copying \in BOOLEAN /\ rebooting \in BOOLEAN
          /\ mine \in Scripts \cup {Absent}
      BY DEF Init
    <2> QED
      BY <1>1, <2>1, <2>2, <2>3, <2>4 DEF RecoveryTypeOK
  <1>4. PlaceInv
    BY <1>1 DEF Init, PlaceInv
  <1>5. BackupInv
    BY <1>1, <1>2, ContentsTold DEF Init, BackupInv, Prep, Before
  <1>6. ImageInv
    BY <1>1, ContentsTold DEF Init, ImageInv
  <1> QED
    BY <1>1, <1>3, <1>4, <1>5, <1>6
       DEF Init, RecoveryInv, ScriptKept, RestoresWhatWas, NeverStuck

\* What a script does and does not touch.
LEMMA PlaceStep ==
    ASSUME RecoveryInv, [Next]_vars PROVE PlaceInv'
  <1> USE DEF RecoveryInv, PlaceInv, Prep, Post, Before
  <1>0. /\ script \in Prep => system = "android"
        /\ script \in Post => system = "recovery"
    BY DEF RecoveryTypeOK
  <1>1. CASE UserWrites
    BY <1>1 DEF UserWrites, places
  <1>2. CASE SetupRecovery
    BY <1>2 DEF SetupRecovery
  <1>3. CASE Reboot
    BY <1>3 DEF Reboot
  <1>4. CASE Boot
    BY <1>4 DEF Boot
  <1>5. CASE LeaveRecovery
    BY <1>5 DEF LeaveRecovery
  <1>6. CASE PowerCut
    BY <1>6 DEF PowerCut
  <1>7. CASE UNCHANGED vars
    BY <1>7 DEF vars, places
  <1>8. CASE Mount
    BY <1>8, <1>0 DEF Mount, Step, Fails
  <1>9. CASE Backup
    BY <1>9, <1>0, BackupDoes
  <1>10. CASE PutScript
    BY <1>10, <1>0, PutScriptDoes
  <1>11. CASE PutUboot
    BY <1>11, <1>0, PutUbootDoes
  <1>12. CASE PutKernel
    BY <1>12, <1>0, PutKernelDoes
  <1>13. CASE Sync
    BY <1>13, <1>0 DEF Sync, Step
  <1>14. CASE Remount
    BY <1>14, <1>0 DEF Remount, Step, Fails
  <1>15. CASE Restore
    BY <1>15, <1>0, RestoreDoes DEF FileNames
  <1>16. CASE Umount
    BY <1>16, <1>0 DEF Umount, Step, Fails
  <1> QED
    BY <1>1, <1>2, <1>3, <1>4, <1>5, <1>6, <1>7, <1>8, <1>9, <1>10, <1>11,
       <1>12, <1>13, <1>14, <1>15, <1>16 DEF Next, PrepStep, PostStep

\* The card is the user's unless something went wrong.
LEMMA BackupStep ==
    ASSUME RecoveryInv, [Next]_vars
    PROVE  (BackupInv /\ ScriptKept /\ RestoresWhatWas)'
  <1> USE DEF RecoveryInv, BackupInv, ScriptKept, RestoresWhatWas, PlaceInv,
              Prep, Post, Before, Good, Without
  <1>0. /\ file["boot"] \in Contents /\ mine \in Scripts \cup {Absent}
        /\ Rec # mine /\ Torn # mine /\ Rec # Absent
    BY ContentsTold DEF RecoveryTypeOK, FileNames, Rec, Absent
  <1>01. /\ script \in Prep => system = "android"
         /\ script \in Post => system = "recovery"
    BY DEF RecoveryTypeOK
  <1>1. CASE UserWrites
    <2>1. /\ file'["boot"] = mine' /\ file'["bak"] = file["bak"]
          /\ file' = disk' /\ mine' # Rec
      BY <1>1, ContentsTold DEF UserWrites, RecoveryTypeOK, FileNames
    <2> QED
      BY <1>1, <2>1 DEF UserWrites, places
  <1>2. CASE SetupRecovery
    BY <1>2, <1>0 DEF SetupRecovery
  <1>3. CASE Reboot
    <2>1. \/ script \in Before \/ script \in Prep \ Before
          \/ script = "none"
      BY <1>3 DEF Reboot
    <2> QED
      BY <1>3, <2>1, <1>0 DEF Reboot
  <1>4. CASE Boot
    BY <1>4, <1>0 DEF Boot, AfterBoot
  <1>5. CASE LeaveRecovery
    BY <1>5 DEF LeaveRecovery
  <1>6. CASE PowerCut
    <2>1. file' = disk' /\ UNCHANGED mine
      BY <1>6 DEF PowerCut
    <2>2. \A f \in FileNames : file[f] = disk[f] => disk'[f] = disk[f]
      BY <1>6 DEF PowerCut
    <2> QED
      BY <1>6, <2>1, <2>2, <1>0 DEF PowerCut, FileNames
  <1>7. CASE UNCHANGED vars
    BY <1>7 DEF vars, places
  <1>8. CASE Mount
    BY <1>8, <1>01 DEF Mount, Step, Fails
  <1>9. CASE Backup
    BY <1>9, <1>0, <1>01, BackupDoes DEF FileNames
  <1>10. CASE PutScript
    BY <1>10, <1>01, PutScriptDoes DEF FileNames
  <1>11. CASE PutUboot
    BY <1>11, <1>01, PutUbootDoes DEF FileNames
  <1>12. CASE PutKernel
    BY <1>12, <1>01, PutKernelDoes DEF FileNames
  <1>13. CASE Sync
    BY <1>13, <1>01 DEF Sync, Step
  <1>14. CASE Remount
    BY <1>14, <1>01 DEF Remount, Step, Fails
  <1>15. CASE Restore
    BY <1>15, <1>0, <1>01, RestoreDoes DEF FileNames
  <1>16. CASE Umount
    BY <1>16, <1>01 DEF Umount, Step, Fails
  <1> QED
    BY <1>1, <1>2, <1>3, <1>4, <1>5, <1>6, <1>7, <1>8, <1>9, <1>10, <1>11,
       <1>12, <1>13, <1>14, <1>15, <1>16 DEF Next, PrepStep, PostStep

\* A card that boots recovery has all of its image.
LEMMA ImageStep ==
    ASSUME RecoveryInv, [Next]_vars PROVE (ImageInv /\ NeverStuck)'
  <1> USE DEF RecoveryInv, ImageInv, NeverStuck, PlaceInv, Prep, Post, Before,
              Without, Whole
  <1>0. Rec \notin Scripts \cup {Absent}
    BY ContentsTold
  <1>01. /\ script \in Prep => system = "android"
         /\ script \in Post => system = "recovery"
    BY DEF RecoveryTypeOK
  <1>1. CASE UserWrites
    BY <1>1, <1>0 DEF UserWrites, places, RecoveryTypeOK, FileNames
  <1>2. CASE SetupRecovery
    BY <1>2, <1>0 DEF SetupRecovery, RecoveryTypeOK
  <1>3. CASE Reboot
    BY <1>3 DEF Reboot
  <1>4. CASE Boot
    BY <1>4 DEF Boot, AfterBoot
  <1>5. CASE LeaveRecovery
    BY <1>5 DEF LeaveRecovery
  <1>6. CASE PowerCut
    <2>1. file' = disk'
      BY <1>6 DEF PowerCut
    <2>2. \A f \in FileNames : file[f] = disk[f] => disk'[f] = disk[f]
      BY <1>6 DEF PowerCut
    <2> QED
      BY <1>6, <2>1, <2>2 DEF PowerCut, FileNames
  <1>7. CASE UNCHANGED vars
    BY <1>7 DEF vars, places
  <1>8. CASE Mount
    BY <1>8, <1>01 DEF Mount, Step, Fails
  <1>9. CASE Backup
    BY <1>9, <1>01, BackupDoes DEF FileNames
  <1>10. CASE PutScript
    BY <1>10, <1>01, PutScriptDoes DEF FileNames
  <1>11. CASE PutUboot
    BY <1>11, <1>01, PutUbootDoes DEF FileNames
  <1>12. CASE PutKernel
    BY <1>12, <1>01, PutKernelDoes DEF FileNames
  <1>13. CASE Sync
    BY <1>13, <1>01 DEF Sync, Step
  <1>14. CASE Remount
    BY <1>14, <1>01 DEF Remount, Step, Fails
  <1>15. CASE Restore
    BY <1>15, <1>01, RestoreDoes DEF FileNames
  <1>16. CASE Umount
    BY <1>16, <1>01 DEF Umount, Step, Fails
  <1> QED
    BY <1>1, <1>2, <1>3, <1>4, <1>5, <1>6, <1>7, <1>8, <1>9, <1>10, <1>11,
       <1>12, <1>13, <1>14, <1>15, <1>16 DEF Next, PrepStep, PostStep

\* The inductive invariant holds, however early the reboot, whenever the
\* power goes and whichever command of a script fails.
THEOREM RecoveryCorrect == RecoverySpec => []RecoveryInv
  <1>1. RecoveryInv /\ [Next]_vars => RecoveryInv'
    BY StepType, PlaceStep, BackupStep, ImageStep DEF RecoveryInv
  <1> QED
    BY InitInv, <1>1, PTL DEF RecoverySpec

\* The user's boot script is whole in one of its two places, until the power
\* goes in the first script, the copy that backs it up fails, or the first
\* script runs again over what is not his.
THEOREM ScriptKeptHolds == RecoverySpec => []ScriptKept
  <1>1. RecoveryInv => ScriptKept
    BY DEF RecoveryInv
  <1> QED BY <1>1, RecoveryCorrect, PTL

\* Recovery whose script is done leaves the card as the user had it, if no
\* command that has a part in it failed.
THEOREM RestoresWhatWasHolds == RecoverySpec => []RestoresWhatWas
  <1>1. RecoveryInv => RestoresWhatWas
    BY DEF RecoveryInv
  <1> QED BY <1>1, RecoveryCorrect, PTL

\* An early reboot, a power cut in the first script and a failed copy of the
\* image are the only ways to a board without a system to boot.
THEOREM NeverStuckHolds == RecoverySpec => []NeverStuck
  <1>1. RecoveryInv => NeverStuck
    BY DEF RecoveryInv
  <1> QED BY <1>1, RecoveryCorrect, PTL
=============================================================================
