--------------------------- MODULE PseudoRecovery ---------------------------
(***************************************************************************)
(* How a board without a recovery partition is booted into recovery        *)
(* (recovery/pseudorec-to-sd, setup-recovery and postrecoveryboot.sh).     *)
(* Before the reboot a script saves the boot script of the SD card, puts   *)
(* one in its place that boots the recovery image, and copies that image;  *)
(* in recovery another script puts the saved one back.                     *)
(*                                                                         *)
(* setup-recovery only starts the first script and sleeps three seconds:   *)
(* the reboot may come before the script is done, and after it was started *)
(* again.  A copy is two steps, the file being unusable in between; what   *)
(* has not been synced when the power goes is lost or cut short.  Neither  *)
(* script looks at the status of a command: after a mount, a copy, a       *)
(* removal or an unmount that failed it goes on with the next.             *)
(*                                                                         *)
(* The boot loader and the rest of the system are modelled from how the    *)
(* scripts use them: a script that is not whole is ignored, an image that  *)
(* is not whole does not start, a reboot that was asked for syncs first.   *)
(***************************************************************************)
EXTENDS Naturals

CONSTANTS
    Scripts,   \* boot scripts of the user
    MaxSetups, \* bound: reboots into recovery asked for
    MaxCuts,   \* bound: power cuts
    MaxFailures \* bound: commands of the scripts that fail

Absent == "absent"   Torn == "torn"
Rec == "rec"         \* recoveryboot.txt as boot.scr
Image == "image"
FileNames == {"boot", "bak", "uboot", "kernel"}
Contents == Scripts \cup {Absent, Torn, Rec, Image}

ASSUME RecoveryAssumption ==
    /\ Scripts \cap {Absent, Torn, Rec, Image} = {}
    /\ MaxSetups \in Nat /\ MaxCuts \in Nat /\ MaxFailures \in Nat

VARIABLES
    system,     \* what runs: "android", "recovery", the "loader", or "stuck"
    script,     \* next command of the script that runs, or "none"
    copying,    \* that command is in the middle of its copy
    rebooting,  \* setup-recovery is asleep before the reboot
    file, disk, \* the files as the system sees them, and on the card
    setups, cuts, failures,
    mine,       \* history: the boot script the user wants
    mishaps     \* history: what went wrong since the first script last began
                \* with the user's boot script in place, or none if he has none

places == <<system, script, copying, rebooting>>
bounds == <<setups, cuts, failures>>
vars == <<places, file, disk, bounds, mine, mishaps>>

Commands == {"mount", "backup", "boot", "uboot", "kernel", "sync",
             "remount", "restore", "umount"}
Mishaps == Commands         \* that command failed
  \cup {"early",    \* the reboot came before the first script was done
        "cut",      \* the power went while the first script ran
        "cutBack",  \* the power went in recovery
        "again",    \* the first script ran again, on a boot script that was
                    \* not the user's: what an earlier run had left there
        "stale"}    \* the user had no script, and a backup was there
AfterBoot == {"remount", "restore", "umount", "cutBack"}

\* Every variable holds a value of its kind.
RecoveryTypeOK ==
    /\ system \in {"android", "recovery", "loader", "stuck"}
    /\ script \in Commands \cup {"none"}
    /\ copying \in BOOLEAN /\ rebooting \in BOOLEAN
    /\ file \in [FileNames -> Contents] /\ disk \in [FileNames -> Contents]
    /\ setups \in 0 .. MaxSetups /\ cuts \in 0 .. MaxCuts
    /\ failures \in 0 .. MaxFailures
    /\ mine \in Scripts \cup {Absent}
    /\ mishaps \subseteq Mishaps

Init ==
    /\ system = "android" /\ script = "none"
    /\ copying = FALSE /\ rebooting = FALSE
    /\ mine \in Scripts \cup {Absent}
    /\ file = [f \in FileNames |-> IF f = "boot" THEN mine ELSE Absent]
    /\ disk = file
    /\ setups = 0 /\ cuts = 0 /\ failures = 0 /\ mishaps = {}

\* A command of a script is done, or fails, and the next one follows.
Step(command, next) ==
    /\ script = command /\ script' = next
    /\ UNCHANGED <<system, copying, rebooting, bounds, mine, mishaps>>
Fails(command, next) ==
    /\ script = command /\ script' = next
    /\ copying' = FALSE
    /\ failures < MaxFailures /\ failures' = failures + 1
    /\ mishaps' = mishaps \cup {command}
    /\ UNCHANGED <<system, rebooting, setups, cuts, mine>>

\* cp -f what into f.  One that fails before it has begun to write leaves f as
\* it was or has removed it; one that fails later, on a full card, leaves it
\* torn.
Copy(command, f, what, next) ==
    /\ UNCHANGED disk
    /\ \/ /\ ~copying /\ copying' = TRUE /\ script = command
          /\ file' = [file EXCEPT ![f] = Torn]
          /\ UNCHANGED <<system, script, rebooting, bounds, mine, mishaps>>
       \/ /\ copying /\ copying' = FALSE /\ script = command /\ script' = next
          /\ file' = [file EXCEPT ![f] = what]
          /\ UNCHANGED <<system, rebooting, bounds, mine, mishaps>>
       \/ /\ Fails(command, next)
          /\ \E left \in IF copying THEN {Torn} ELSE {file[f], Absent} :
                 file' = [file EXCEPT ![f] = left]

----------------------------------------------------------------------------
(* Android.                                                                *)

\* The user puts a boot script of his own on the card, or removes it.
UserWrites ==
    /\ system = "android" /\ script = "none" /\ ~rebooting
    /\ mine' \in (Scripts \cup {Absent}) \ {mine}
    /\ file' = [file EXCEPT !["boot"] = mine']
    /\ disk' = file'
    /\ UNCHANGED <<places, bounds, mishaps>>

\* setup-recovery starts the service prep-recovery, which runs
\* pseudorec-to-sd once each time it is started and is not running.
SetupRecovery ==
    /\ system = "android" /\ script = "none"
    /\ setups < MaxSetups
    /\ setups' = setups + 1
    /\ rebooting' = TRUE
    /\ script' = "mount"
    /\ mishaps' = IF file["boot"] = mine
                  THEN {m \in {"stale"} : mine = Absent /\ file["bak"] # Absent}
                  ELSE mishaps \cup {m \in {"again"} : file["boot"] # Absent}
    /\ UNCHANGED <<system, copying, file, disk, cuts, failures, mine>>

\* pseudorec-to-sd, command by command.  The system has mounted the card at
\* the same place as a rule, and then a mount that fails changes nothing.
\* Without the card there is nothing to save, the copies go to the directory
\* underneath, and the rest of the script does not matter.
Mount ==
    /\ Step("mount", "backup") \/ Fails("mount", "none")
    /\ UNCHANGED <<file, disk>>

\* Mutant: a backup that is there is kept.
Backup_KeepsOld ==
    IF file["boot"] = Absent \/ (file["bak"] # Absent /\ ~copying)
    THEN Step("backup", "boot") /\ UNCHANGED <<file, disk>>
    ELSE Copy("backup", "bak", file["boot"], "boot")

Backup ==
    IF file["boot"] = Absent
    THEN Step("backup", "boot") /\ UNCHANGED <<file, disk>>
    ELSE Copy("backup", "bak", file["boot"], "boot")

\* Mutant: the image is taken for there.
PutKernel_Forgets == Step("kernel", "sync") /\ UNCHANGED <<file, disk>>

\* Mutant: a script that is there is not replaced.
PutScript_KeepsOld ==
    IF file["boot"] \notin {Absent, Torn}
    THEN Step("boot", "uboot") /\ UNCHANGED <<file, disk>>
    ELSE Copy("boot", "boot", Rec, "uboot")

PutScript == Copy("boot", "boot", Rec, "uboot")
PutUboot  == Copy("uboot", "uboot", Image, "kernel")
PutKernel == Copy("kernel", "kernel", Image, "sync")

\* sync and umount.
Sync == Step("sync", "none") /\ disk' = file /\ UNCHANGED file

\* The reboot that setup-recovery delays.  It syncs what is written so far.
Reboot ==
    /\ system = "android" /\ rebooting
    /\ system' = "loader"
    /\ script' = "none" /\ copying' = FALSE /\ rebooting' = FALSE
    /\ disk' = file /\ UNCHANGED file
    /\ mishaps' = mishaps \cup {m \in {"early"} : script # "none"}
    /\ UNCHANGED <<bounds, mine>>

----------------------------------------------------------------------------
(* The boot loader, and recovery.                                          *)

Boot ==
    /\ system = "loader"
    /\ IF disk["boot"] # Rec
       THEN system' = "android" /\ UNCHANGED <<script, mishaps>>
       ELSE IF disk["uboot"] = Image /\ disk["kernel"] = Image
       THEN /\ system' = "recovery" /\ script' = "remount"
            /\ mishaps' = mishaps \ AfterBoot
       ELSE system' = "stuck" /\ UNCHANGED <<script, mishaps>>
    /\ file' = disk
    /\ UNCHANGED <<copying, rebooting, disk, bounds, mine>>

\* postrecoveryboot.sh mounts the card it was booted from.  Without it the
\* rest of the script does nothing.
Remount ==
    /\ Step("remount", "restore") \/ Fails("remount", "none")
    /\ UNCHANGED <<file, disk>>

\* Mutant: without a backup the script stays.
Restore_KeepsScript ==
    IF file["bak"] # Absent THEN Copy("restore", "boot", file["bak"], "umount")
    ELSE Step("restore", "umount") /\ UNCHANGED <<file, disk>>

\* It puts the backup back, which stays where it is, or removes the script.
Restore ==
    IF file["bak"] # Absent THEN Copy("restore", "boot", file["bak"], "umount")
    ELSE /\ UNCHANGED disk
         /\ \/ /\ Step("restore", "umount")
               /\ file' = [file EXCEPT !["boot"] = Absent]
            \/ Fails("restore", "umount") /\ UNCHANGED file

\* What is not unmounted stays unwritten until recovery reboots.
Umount ==
    /\ \/ Step("umount", "none") /\ disk' = file
       \/ Fails("umount", "none") /\ UNCHANGED disk
    /\ UNCHANGED file

\* Recovery is left by a reboot, once its script is done.
LeaveRecovery ==
    /\ system = "recovery" /\ script = "none"
    /\ system' = "loader"
    /\ disk' = file
    /\ UNCHANGED <<script, copying, rebooting, file, bounds, mine, mishaps>>

----------------------------------------------------------------------------
\* The power goes.  Of a file that is not as it is on the card, the card has
\* what it had, what was written, or a part of it.
PowerCut ==
    /\ system \in {"android", "recovery"}
    /\ cuts < MaxCuts /\ cuts' = cuts + 1
    /\ \E lost, part \in SUBSET {f \in FileNames : file[f] # disk[f]} :
         disk' = [f \in FileNames |-> IF f \in lost THEN disk[f]
                                     ELSE IF f \in part THEN Torn ELSE file[f]]
    /\ file' = disk'
    /\ system' = "loader"
    /\ script' = "none" /\ copying' = FALSE /\ rebooting' = FALSE
    /\ mishaps' = mishaps
         \cup {m \in {"cut"} : system = "android" /\ script # "none"}
         \cup {m \in {"cutBack"} : system = "recovery"}
    /\ UNCHANGED <<setups, failures, mine>>

PrepStep == Mount \/ Backup \/ PutScript \/ PutUboot \/ PutKernel \/ Sync
PostStep == Remount \/ Restore \/ Umount

Next == \/ UserWrites \/ SetupRecovery \/ PrepStep \/ Reboot
        \/ Boot \/ PostStep \/ LeaveRecovery \/ PowerCut

\* Scripts run on, the sleep ends, and the board boots.
Fairness ==
    /\ WF_vars(PrepStep) /\ WF_vars(PostStep) /\ WF_vars(Reboot)
    /\ WF_vars(Boot) /\ WF_vars(LeaveRecovery)

RecoverySpec == Init /\ [][Next]_vars /\ Fairness

----------------------------------------------------------------------------
(* Properties.                                                             *)

Without(bad) == mishaps \cap bad = {}

\* A user's boot script is whole in boot.scr or in the backup, on the card
\* too: however early the reboot comes, and though the power goes or any
\* command fails while the script is put back.  It can be lost in three ways
\* only: the power goes in the first script, whose backup is not synced
\* before boot.scr is overwritten; the copy that makes the backup fails,
\* which nobody looks at; or the first script runs again over what it, or a
\* restore that failed, has left in boot.scr, and takes that for the user's.
ScriptKept ==
    mine # Absent /\ Without({"cut", "again", "backup"}) =>
        /\ mine \in {file["boot"], file["bak"]}
        /\ system \in {"recovery", "loader"} => mine \in {disk["boot"], disk["bak"]}

\* Recovery that has run its script to the end leaves boot.scr as the user
\* had it, unless one of its own commands failed, or his script was lost as
\* above, or he had none and a backup of an earlier time was there.  It is on
\* the card, unless it could not be unmounted.
RestoresWhatWas ==
    (/\ system = "recovery" /\ script = "none"
     /\ Without({"cut", "again", "backup", "stale", "remount", "restore"}))
        => /\ file["boot"] = mine
           /\ "umount" \notin mishaps => disk["boot"] = mine

\* The board is left without a system to boot only if the reboot comes, or
\* the power goes, in the first script, or if a copy of the recovery image
\* failed.  A failing mount, backup or copy of the boot script leaves one.
NeverStuck ==
    system = "stuck" => ~Without({"early", "cut", "uboot", "kernel"})

\* Who asks for recovery gets it, and then his own system with his own boot
\* script.  The first unless the reboot comes early, the power goes in the
\* script or a command that it needs fails; the second unless his script was
\* lost, a command of the restore fails or the power goes in recovery.
RecoveryReached ==
    LET toGo   == {"early", "cut", "mount", "boot", "uboot", "kernel"}
        toBack == {"cut", "again", "backup", "stale",
                   "remount", "restore", "cutBack"}
    IN  /\ (rebooting /\ Without(toGo)) ~>
               (system = "recovery" \/ ~Without(toGo))
        /\ (system = "recovery" /\ Without(toBack)) ~>
               ((system = "android" /\ file["boot"] = mine) \/ ~Without(toBack))

\* Why they hold.  Between the scripts the card is as the system sees it; from
\* the end of the backup until the user's script is back, the backup is his
\* script; a card that boots recovery has the whole image, and recovery does
\* not touch it.
Prep == {"mount", "backup", "boot", "uboot", "kernel", "sync"}
Post == {"remount", "restore", "umount"}
Before == {"mount", "backup"}
PlaceInv == /\ system = "android" => script \in Prep \cup {"none"}
            /\ system = "recovery" => script \in Post \cup {"none"}
            /\ system \in {"loader", "stuck"} => script = "none"
            /\ script \in {"none"} \cup Before \cup {"remount"} =>
                   \/ script = "backup" /\ copying
                   \/ file = disk
                   \/ system = "recovery" /\ "umount" \in mishaps
            /\ script \in {"none", "mount", "sync", "remount", "umount"}
                   => ~copying
            /\ script = "restore" /\ copying => file["bak"] # Absent
Good == /\ Without({"cut", "again", "backup"})
        /\ mine # Absent \/ Without({"stale"})
BackupInv == Good =>
    /\ script \in Before =>
           \/ file["boot"] = mine
           \/ file["boot"] = Absent /\ file["bak"] = mine
    /\ script \in Before /\ mine = Absent => file["bak"] = Absent
    /\ script \in Prep \ Before \/ system = "recovery" => file["bak"] = mine
    /\ script = "none" /\ file["boot"] # mine => file["bak"] = mine
    /\ system = "recovery" =>
          /\ disk["bak"] = mine
          /\ script \in {"umount", "none"} /\ Without({"remount", "restore"})
               => file["boot"] = mine
Whole(f) == f["uboot"] = Image /\ f["kernel"] = Image
ImageInv == Without({"early", "cut", "uboot", "kernel"}) =>
    /\ system # "stuck"
    /\ script \in {"kernel", "sync"} => file["uboot"] = Image
    /\ script = "sync" => Whole(file)
    /\ system = "recovery" => Whole(file) /\ Whole(disk)
    /\ script \in {"none"} \cup Before /\ file["boot"] = Rec => Whole(file)
RecoveryInv == /\ RecoveryTypeOK /\ PlaceInv /\ BackupInv /\ ImageInv
               /\ ScriptKept /\ RestoresWhatWas /\ NeverStuck
=============================================================================
