-------------------------------- MODULE Fota --------------------------------
(***************************************************************************)
(* The firmware update: the application downloads a package into the TMP   *)
(* partition and asks for the update by a word in the last block of TMP    *)
(* (fota.c); the boot loader checks the package, marks the update as       *)
(* running in that block, copies block by block and clears the mark        *)
(* (fota_internal.c), then starts whatever is installed (main.c of the     *)
(* boot loader).  Power may fail between any two flash operations.         *)
(*                                                                         *)
(* A package is a model value with a checksum that is always right, a torn *)
(* one is Torn.  The binaries of a package are one run of blocks, since    *)
(* fota_copy visits them in order.                                         *)
(*                                                                         *)
(* The names that every specification has carry a prefix here, and so can  *)
(* be told from those of Ccci where both are used (HandoverProofs).        *)
(***************************************************************************)
EXTENDS Naturals

CONSTANTS
    Packages,   \* the firmware versions there are
    Torn,       \* what TMP holds when a download did not end, or none was made
    Blank,      \* an erased block, or one a power failure left in the middle
    None,       \* no application runs (only for the abstract specification)
    Size,       \* blocks of the installed firmware
    Leftover,   \* what the bytes of the mark may hold that are never initialised
    Faulty      \* whether an operation of the flash may report an error

ASSUME FotaAssumption ==
    /\ Size \in Nat \ {0}
    /\ Torn \notin Packages /\ Blank \notin Packages /\ None \notin Packages
    /\ Leftover # {} /\ Leftover \subseteq {"marker", "other"}
    /\ Faulty \in BOOLEAN

VARIABLES
    image,    \* the blocks of the CM4 partition, which the boot loader starts
    tmp,      \* the package in TMP
    first,    \* first word of the last block: m_magic_ver of the trigger, m_ver of the record
    marker,   \* m_marker in the same block
    runs,     \* what runs: the application ("app", "trigger") or a step of the boot loader
    at        \* the block being copied

fotaVars == <<image, tmp, first, marker, runs, at>>

Blocks == 1 .. Size
Application == {"app", "trigger"}
Steps == {"boot", "check", "mark", "markErase", "markWrite", "erase", "program", "status", "statusWrite"}

FotaTypeOK ==
    /\ image \in [Blocks -> Packages \cup {Blank}]
    /\ tmp \in Packages \cup {Torn}
    /\ first \in {"blank", "magic", "zero"}
    /\ marker \in {"blank", "marker", "other"}
    /\ runs \in Application \cup Steps
    /\ at \in Blocks

\* The device is delivered with some version.
FotaInit ==
    /\ \E p \in Packages : image = [b \in Blocks |-> p]
    /\ tmp = Torn /\ first = "blank" /\ marker = "blank"
    /\ runs = "boot" /\ at = 1

Holds(p) == \A b \in Blocks : image[b] = p
Whole == \E p \in Packages : Holds(p)

\* How an operation of the flash may end.
Outcomes == IF Faulty THEN BOOLEAN ELSE {TRUE}

\* Programming clears bits: the mark is what it is given only on erased bytes or
\* over the same bytes.
Programmed(old, new) == IF old \in {"blank", new} THEN new ELSE "other"
-----------------------------------------------------------------------------
(* The application *)

\* A download writes TMP from its first block (fota_download_by_http), and
\* fota_make_empty erases that block: the old package is gone at once.
BeginDownload ==
    /\ runs \in Application
    /\ tmp' = Torn
    /\ UNCHANGED <<image, first, marker, runs, at>>

\* The last part arrives.  A download that breaks leaves TMP torn.
EndDownload(p) ==
    /\ runs \in Application /\ tmp = Torn
    /\ tmp' = p
    /\ UNCHANGED <<image, first, marker, runs, at>>

\* fota_trigger_update, which no caller ties to the end of a download: it erases
\* the last block and then writes the word.
TriggerErase ==
    /\ runs = "app"
    /\ \E ok \in Outcomes :
          IF ok THEN first' = "blank" /\ marker' = "blank" /\ runs' = "trigger"
                ELSE UNCHANGED <<first, marker, runs>>
    /\ UNCHANGED <<image, tmp, at>>

TriggerWrite ==
    /\ runs = "trigger"
    /\ \E ok \in Outcomes : first' = IF ok THEN "magic" ELSE first
    /\ runs' = "app"
    /\ UNCHANGED <<image, tmp, marker, at>>

\* The application resets the device, crashes, or loses power.
Reset ==
    /\ runs \in Application
    /\ runs' = "boot"
    /\ UNCHANGED <<image, tmp, first, marker, at>>
-----------------------------------------------------------------------------
(* The boot loader *)

PowerLoss ==
    /\ runs \in Steps \ {"boot"}
    /\ runs' = "boot"
    /\ UNCHANGED <<image, tmp, first, marker, at>>

\* What is read in the last block, and the checksums of the header and the binaries.
Marked == marker = "marker"
Triggered == first = "magic"
Intact == tmp \in Packages

\* Mutant: only the trigger is looked at, so an interrupted update is not resumed.
BootTriggered ==
    /\ runs = "boot"
    /\ \E read1, read2 \in Outcomes :
          runs' = IF read1 /\ read2 /\ Triggered THEN "check" ELSE "app"
    /\ UNCHANGED <<image, tmp, first, marker, at>>

\* bl_fota_process: without mark and trigger the application is started; a read
\* that fails counts as neither.
Boot ==
    /\ runs = "boot"
    /\ \E read1, read2 \in Outcomes :
          runs' = IF (read1 /\ Marked) \/ (read2 /\ Triggered) THEN "check" ELSE "app"
    /\ UNCHANGED <<image, tmp, first, marker, at>>

\* Mutant: the result of the check is dropped.
CheckIgnored ==
    /\ runs = "check"
    /\ \E ok \in Outcomes : runs' = IF ok THEN "mark" ELSE "status"
    /\ UNCHANGED <<image, tmp, first, marker, at>>

\* The header and the binaries are read and compared with their checksums.
Check ==
    /\ runs = "check"
    /\ \E ok \in Outcomes : runs' = IF ok /\ Intact THEN "mark" ELSE "status"
    /\ UNCHANGED <<image, tmp, first, marker, at>>

\* An update that was interrupted has its mark already.
Mark ==
    /\ runs = "mark"
    /\ \E ok \in Outcomes : runs' = IF ok /\ Marked THEN "erase" ELSE "markErase"
    /\ at' = 1
    /\ UNCHANGED <<image, tmp, first, marker>>

\* The result of erasing the last block is ignored.
EraseLast ==
    \E ok \in Outcomes : first' = (IF ok THEN "blank" ELSE first)
                         /\ marker' = (IF ok THEN "blank" ELSE marker)

MarkErase ==
    /\ runs = "markErase"
    /\ EraseLast
    /\ runs' = "markWrite"
    /\ UNCHANGED <<image, tmp, at>>

MarkWrite ==
    /\ runs = "markWrite"
    /\ \E ok \in Outcomes :
          IF ok THEN first' = "zero" /\ marker' = Programmed(marker, "marker") /\ runs' = "erase"
                ELSE runs' = "app" /\ UNCHANGED <<first, marker>>
    /\ UNCHANGED <<image, tmp, at>>

\* fota_write erases a block when it comes to it and programs it.  An error ends
\* the update, and the application is started.
EraseBlock ==
    /\ runs = "erase"
    /\ \E ok \in Outcomes :
          IF ok THEN image' = [image EXCEPT ![at] = Blank] /\ runs' = "program"
                ELSE runs' = "app" /\ UNCHANGED image
    /\ UNCHANGED <<tmp, first, marker, at>>

\* Mutant of the next: the offset is not advanced.
ProgramBlockSame ==
    /\ runs = "program"
    /\ \E ok \in Outcomes :
          IF ok THEN /\ image' = [image EXCEPT ![at] = tmp]
                     /\ runs' = IF at = Size THEN "status" ELSE "erase"
                ELSE runs' = "app" /\ UNCHANGED image
    /\ UNCHANGED <<tmp, first, marker, at>>

ProgramBlock ==
    /\ runs = "program"
    /\ \E ok \in Outcomes :
          IF ok THEN /\ image' = [image EXCEPT ![at] = tmp]
                     /\ runs' = IF at = Size THEN "status" ELSE "erase"
                     /\ at' = IF at = Size THEN at ELSE at + 1
                ELSE runs' = "app" /\ UNCHANGED <<image, at>>
    /\ UNCHANGED <<tmp, first, marker>>

\* _fota_write_update_status, after the copy and after a package was refused: the
\* record it writes has m_marker uninitialised.  main then starts the application.
StatusErase ==
    /\ runs = "status"
    /\ EraseLast
    /\ runs' = "statusWrite"
    /\ UNCHANGED <<image, tmp, at>>

StatusWrite ==
    /\ runs = "statusWrite"
    /\ \E ok \in Outcomes, m \in Leftover :
          IF ok THEN first' = "zero" /\ marker' = Programmed(marker, m)
                ELSE UNCHANGED <<first, marker>>
    /\ runs' = "app"
    /\ UNCHANGED <<image, tmp, at>>
-----------------------------------------------------------------------------
Loader ==
    \/ Boot \/ Check \/ Mark \/ MarkErase \/ MarkWrite
    \/ EraseBlock \/ ProgramBlock \/ StatusErase \/ StatusWrite

FotaNext ==
    \/ BeginDownload \/ TriggerErase \/ TriggerWrite \/ Reset \/ PowerLoss \/ Loader
    \/ \E p \in Packages : EndDownload(p)

FotaSpec == FotaInit /\ [][FotaNext]_fotaVars

\* The boot loader is a loop without waiting.
FairFotaSpec == FotaSpec /\ WF_fotaVars(Loader)
-----------------------------------------------------------------------------
(* Properties *)

\* While the installed firmware is not whole the mark is set, the package it comes
\* from is complete, and the boot loader runs: power may fail, and no application
\* is started that could overwrite the package (fota_internal.c:797-823).
Resumable ==
    ~Whole => /\ marker = "marker" /\ tmp \in Packages
              /\ runs \in {"boot", "check", "mark", "erase", "program"}

Copying ==
    /\ runs = "check" => marker = "marker" \/ first = "magic"
    /\ runs \in {"mark", "markErase", "markWrite"} => tmp \in Packages
    /\ runs \in {"markErase", "markWrite"} => at = 1
    /\ runs = "markWrite" => marker = "blank"
    /\ runs \in {"erase", "program"} =>
          /\ marker = "marker" /\ tmp \in Packages
          /\ \A b \in Blocks : b < at => image[b] = tmp

FotaInv == FotaTypeOK /\ Resumable /\ Copying

\* The update is atomic although it is copied block by block, can be interrupted
\* anywhere and is then started again from the first block: the version counts as
\* replaced when the first block is erased.
Running == IF runs \notin Application THEN None ELSE IF Whole THEN image[1] ELSE Blank
Installed == IF Whole THEN image[1] ELSE tmp
Update == INSTANCE FotaUpdate WITH installed <- Installed, staged <- tmp, running <- Running
ImageSpec == Update!Spec

\* Unless power fails for ever again, an update that has its mark ends with the package
\* installed, however often it was interrupted.
Finishes ==
    ([]<><<PowerLoss>>_fotaVars)
    \/ \A p \in Packages :
          runs = "boot" /\ marker = "marker" /\ tmp = p ~> runs \in Application /\ Holds(p)

\* The same for one that was only requested: a power failure between the erasing of
\* the word and the writing of the mark (fota_internal.c:392-411) forgets it.
RequestKept ==
    ([]<><<PowerLoss>>_fotaVars)
    \/ \A p \in Packages :
          runs = "boot" /\ first = "magic" /\ tmp = p ~> runs \in Application /\ Holds(p)

\* When an update is over its mark is gone ("clean marker", fota_internal.c:825).
MarkCleared == [][runs = "statusWrite" /\ runs' = "app" => marker' # "marker"]_fotaVars
=============================================================================
