------------------------------ MODULE GameData ------------------------------
(***************************************************************************)
(* Game data on the SD card: the startup gate (game_data_gate.cpp), the    *)
(* extraction of a disc image (disc_extractor.cpp) and the launcher's two  *)
(* boot paths (melee-switch-gcc-compat.patch), over any number of launches *)
(* of the program.                                                         *)
(*                                                                         *)
(* A file-system call is atomic and, once it returned, on the card.  The   *)
(* process may die before any of them.  Writes are buffered by stdio, so   *)
(* an error can surface as late as fclose, where nobody looks at it.       *)
(***************************************************************************)
EXTENDS Naturals, FiniteSets

CONSTANTS NEntries,     \* entries of the disc's file table, the root excluded
          Dirs,         \* the entries that are directories
          Length,       \* [1..NEntries -> chunks of the file]
          Held,         \* [1..NEntries -> chunks of it a cut-off image holds]
          UserDeletes,  \* may the user delete files/ between two launches?
          MaxFaults     \* bound: failing file-system calls

Entries == 1..NEntries
Files == Entries \ Dirs

ASSUME GameDataAssumption ==
    /\ NEntries \in Nat
    /\ Dirs \subseteq Entries
    /\ Length \in [Entries -> Nat] /\ Held \in [Entries -> Nat]
    /\ UserDeletes \in BOOLEAN
    /\ MaxFaults \in Nat

Content == {"absent", "short", "good"}     \* short: cut off, or torn

(* "cut": an image that ends somewhere behind its file table, as a copy to *)
(* the card that was broken off leaves it.  Only the header and the table  *)
(* are looked at before the files are read, so it is taken for a disc.     *)
Image == {"none", "whole", "cut"}

VARIABLES
    disc,       \* card: the disc image: "none", "whole" or "cut"
    dir,        \* card: files/ exists
    target,     \* card: [Files -> Content], the extracted files
    part,       \* card: [Files -> Content], their .part files
    manifest,   \* card: the completion manifest
    mpart,      \* card: its .part file
    meta,       \* card: disc.meta
    boot,       \* card: disc-boot.bin
    pc,         \* where the process is; "off" between two launches
    index,      \* the entry gc_disc_walk_fst is at
    written,    \* chunks of it in the .part file
    result,     \* of extractGameFiles: "none", "ok", "canceled" or "failed"
    arg,        \* what the gate returned: "none", "disc" or the sentinel "loose"
    faults,     \* calls that failed so far
    late        \* files (0: the manifest) whose writing failed only at fclose

card == <<disc, dir, target, part, manifest, mpart, meta, boot>>
process == <<pc, index, written, result, arg>>
vars == <<card, process, faults, late>>

Extracting == {"walk", "write", "remove", "rename", "publish", "mremove", "mrename"}

(* The type invariant.                                                     *)
TypeOK ==
    /\ disc \in Image /\ dir \in BOOLEAN /\ late \subseteq Files \cup {0}
    /\ target \in [Files -> Content] /\ part \in [Files -> Content]
    /\ manifest \in Content /\ mpart \in Content /\ meta \in Content /\ boot \in Content
    /\ pc \in Extracting \cup {"off", "menu", "launch", "meta", "fonts", "boot", "play", "error"}
    /\ index \in 0..NEntries + 1 /\ written \in Nat
    /\ pc \in {"write", "remove", "rename"} => index \in Files
    /\ pc \in Extracting => index > 0
    /\ result \in {"none", "ok", "canceled", "failed"}
    /\ arg \in {"none", "disc", "loose"}
    /\ faults \in 0..MaxFaults

Nothing == [f \in Files |-> "absent"]

(* A new card with or without a disc image.                                *)
Init ==
    /\ disc \in Image /\ dir = FALSE
    /\ target = Nothing /\ part = Nothing
    /\ manifest = "absent" /\ mpart = "absent" /\ meta = "absent" /\ boot = "absent"
    /\ pc = "off" /\ index = 0 /\ written = 0 /\ result = "none" /\ arg = "none"
    /\ faults = 0 /\ late = {}

Fail == faults < MaxFaults /\ faults' = faults + 1 /\ UNCHANGED late
LateError(f) == faults < MaxFaults /\ faults' = faults + 1 /\ late' = late \cup {f}
NoFault == UNCHANGED <<faults, late>>

(* isExtractionComplete: the directory exists and the manifest, which lies *)
(* beside it, starts with the magic line.                                  *)
Complete == dir /\ manifest = "good"

-----------------------------------------------------------------------------
(* EnsureGameDataAvailable up to the menu.  Without disc image, and        *)
(* without all that a boot from files/ needs, it asks for an image and the *)
(* program ends.                                                           *)
Gate ==
    /\ pc = "off"
    /\ \/ /\ disc = "none" /\ Complete /\ meta # "absent" /\ boot # "absent"
          /\ pc' = "launch" /\ arg' = "loose"
       \/ disc # "none" /\ Complete /\ pc' = "launch" /\ arg' = "disc"
       \/ disc # "none" /\ ~Complete /\ pc' = "menu" /\ UNCHANGED arg
    /\ UNCHANGED <<card, index, written, result>>
    /\ NoFault

(* B plays from the disc image (+ ends the process).                       *)
Menu ==
    /\ pc = "menu"
    /\ pc' = "launch" /\ arg' = "disc"
    /\ UNCHANGED <<card, index, written, result>>
    /\ NoFault

(* extractGameFiles returns; whatever the result, the gate continues with  *)
(* the disc image.                                                         *)
Return(res) ==
    /\ pc' = "launch" /\ arg' = "disc" /\ result' = res
    /\ index' = 0 /\ written' = 0

(* The progress callback wants the run stopped (+ pressed, or the applet   *)
(* is being closed); a call of the run fails.                              *)
Cancel == NoFault /\ Return("canceled")
Abort == Fail /\ Return("failed")

(* The walk goes on to the next entry, or, after the last one, to the      *)
(* manifest.                                                               *)
Advance ==
    /\ pc' = (IF index = NEntries THEN "publish" ELSE "walk")
    /\ index' = index + 1 /\ written' = 0
    /\ UNCHANGED <<result, arg>>

(* A: the image is validated and opened again and files/ created, each of  *)
(* which can fail; the first progress report can already cancel.           *)
ExtractStart ==
    /\ pc = "menu"
    /\ UNCHANGED <<disc, target, part, manifest, mpart, meta, boot>>
    /\ \/ Abort /\ UNCHANGED dir
       \/ /\ dir' = TRUE
          /\ \/ Cancel
             \/ /\ NoFault
                /\ pc' = (IF NEntries = 0 THEN "publish" ELSE "walk")
                /\ index' = 1 /\ written' = 0
                /\ UNCHANGED <<result, arg>>

(* extractCallback on a directory.                                         *)
WalkDir ==
    /\ pc = "walk" /\ index \in Dirs
    /\ UNCHANGED card
    /\ \/ NoFault /\ Advance
       \/ Abort

(* extractOneFile: the .part file is created or truncated ...              *)
BadOpenDir ==                              \* mutant: is_dir ignored
    /\ pc = "walk"
    /\ part' = [part EXCEPT ![index] = "short"]
    /\ pc' = "write" /\ written' = 0
    /\ UNCHANGED <<disc, dir, target, manifest, mpart, meta, boot, index, result, arg>>
    /\ NoFault

FileOpen ==
    /\ pc = "walk" /\ index \in Files
    /\ UNCHANGED <<disc, dir, target, manifest, mpart, meta, boot>>
    /\ \/ /\ part' = [part EXCEPT ![index] = "short"]
          /\ pc' = "write" /\ written' = 0
          /\ UNCHANGED <<index, result, arg>> /\ NoFault
       \/ Abort /\ UNCHANGED part

(* ... written chunk by chunk, with a progress report after each.  Behind  *)
(* the end of a cut-off image a read gives zero bytes, which is an error   *)
(* like a failed read or write.  An error or a cancel removes the file ... *)
Available == IF disc = "cut" THEN Held[index] ELSE Length[index]

BadChunkKept ==                            \* mutant: a stopped file is renamed
    /\ pc = "write" /\ written < Length[index]
    /\ \/ written' = written + 1 /\ UNCHANGED pc
       \/ pc' = "remove" /\ UNCHANGED written
    /\ UNCHANGED <<card, index, result, arg>>
    /\ NoFault

BadChunkEmpty ==                           \* mutant: a read of zero bytes is no error
    /\ pc = "write" /\ written < Length[index]
    /\ written' = (IF written < Available THEN written + 1 ELSE written)
    /\ UNCHANGED <<card, pc, index, result, arg>>
    /\ NoFault

FileChunk ==
    /\ pc = "write" /\ written < Length[index]
    /\ UNCHANGED <<disc, dir, target, manifest, mpart, meta, boot>>
    /\ \/ /\ written < Available /\ written' = written + 1
          /\ UNCHANGED <<part, pc, index, result, arg>> /\ NoFault
       \/ /\ part' = [part EXCEPT ![index] = "absent"]
          /\ \/ written < Available /\ Cancel
             \/ written >= Available /\ NoFault /\ Return("failed")
             \/ Abort

(* ... closed, the result of fclose ignored ...                            *)
FileClose ==
    /\ pc = "write" /\ written = Length[index]
    /\ pc' = "remove"
    /\ \/ part' = [part EXCEPT ![index] = "good"] /\ NoFault
       \/ UNCHANGED part /\ LateError(index)
    /\ UNCHANGED <<disc, dir, target, manifest, mpart, meta, boot, index, written, result, arg>>

(* ... and moved into place: the old file is removed first, and a failed   *)
(* rename leaves neither; after it comes a progress report.                *)
FileRemove ==
    /\ pc = "remove"
    /\ pc' = "rename"
    /\ target' = [target EXCEPT ![index] = "absent"]
    /\ UNCHANGED <<disc, dir, part, manifest, mpart, meta, boot, index, written, result, arg>>
    /\ NoFault

BadRenamePublishes ==                      \* mutant: a cancel ends the walk only
    /\ pc = "rename"
    /\ target' = [target EXCEPT ![index] = part[index]]
    /\ part' = [part EXCEPT ![index] = "absent"]
    /\ Advance \/ (pc' = "publish" /\ UNCHANGED <<index, written, result, arg>>)
    /\ UNCHANGED <<disc, dir, manifest, mpart, meta, boot>>
    /\ NoFault

BadRenameCopies ==                         \* mutant: copied, not renamed
    /\ pc = "rename"
    /\ target' = [target EXCEPT ![index] = part[index]]
    /\ Advance \/ Return("canceled")
    /\ UNCHANGED <<disc, dir, part, manifest, mpart, meta, boot>>
    /\ NoFault

FileRename ==
    /\ pc = "rename"
    /\ UNCHANGED <<disc, dir, manifest, mpart, meta, boot>>
    /\ \/ /\ target' = [target EXCEPT ![index] = part[index]]
          /\ part' = [part EXCEPT ![index] = "absent"]
          /\ (Advance /\ NoFault) \/ Cancel
       \/ Abort /\ UNCHANGED <<target, part>>

(* The manifest is written beside files/ and moved into place the same     *)
(* way; ofstream's destructor swallows a late error too.                   *)
Publish ==
    /\ pc = "publish"
    /\ UNCHANGED <<disc, dir, target, part, manifest, meta, boot>>
    /\ \/ /\ pc' = "mremove"
          /\ (mpart' = "good" /\ NoFault) \/ (mpart' = "short" /\ LateError(0))
          /\ UNCHANGED <<index, written, result, arg>>
       \/ Abort /\ UNCHANGED mpart

ManifestRemove ==
    /\ pc = "mremove"
    /\ pc' = "mrename"
    /\ manifest' = "absent"
    /\ UNCHANGED <<disc, dir, target, part, mpart, meta, boot, index, written, result, arg>>
    /\ NoFault

BadManifestRename ==                       \* mutant: ec not looked at
    /\ pc = "mrename"
    /\ Return("ok")
    /\ \/ manifest' = mpart /\ mpart' = "absent" /\ NoFault
       \/ Fail /\ UNCHANGED <<manifest, mpart>>
    /\ UNCHANGED <<disc, dir, target, part, meta, boot>>

ManifestRename ==
    /\ pc = "mrename"
    /\ UNCHANGED <<disc, dir, target, part, meta, boot>>
    /\ \/ manifest' = mpart /\ mpart' = "absent" /\ Return("ok") /\ NoFault
       \/ Abort /\ UNCHANGED <<manifest, mpart>>

-----------------------------------------------------------------------------
(* aurora_dvd_open_files: a cut-off disc.meta is rejected.                 *)
OpenFiles == meta = "good"

(* pc_launcher_run with the sentinel: when the files cannot be opened the  *)
(* launcher reports an error.                                              *)
LaunchLoose ==
    /\ pc = "launch" /\ arg = "loose"
    /\ pc' = (IF OpenFiles THEN "play" ELSE "error")
    /\ UNCHANGED <<card, index, written, result, arg>>
    /\ NoFault

(* ... with a disc image: it is inspected and opened, then disc.meta and   *)
(* disc-boot.bin are captured, each unless a file of that name exists.     *)
(* Both are written in place, and the results ignored.                     *)
LaunchDisc ==
    /\ pc = "launch" /\ arg = "disc"
    /\ \/ pc' = "fonts" /\ meta # "absent" /\ UNCHANGED meta /\ NoFault
       \/ pc' = "meta" /\ meta = "absent" /\ meta' = "short" /\ NoFault
       \/ pc' = "fonts" /\ meta = "absent" /\ UNCHANGED meta /\ Fail
       \/ pc' = "error" /\ UNCHANGED meta /\ Fail
    /\ UNCHANGED <<disc, dir, target, part, manifest, mpart, boot, index, written, result, arg>>

SaveMeta ==
    /\ pc = "meta" /\ pc' = "fonts"
    /\ (meta' = "good" /\ NoFault) \/ (UNCHANGED meta /\ Fail)
    /\ UNCHANGED <<disc, dir, target, part, manifest, mpart, boot, index, written, result, arg>>

OpenDiscBoot ==
    /\ pc = "fonts"
    /\ \/ pc' = "play" /\ boot # "absent" /\ UNCHANGED boot /\ NoFault
       \/ pc' = "boot" /\ boot = "absent" /\ boot' = "short" /\ NoFault
       \/ pc' = "play" /\ boot = "absent" /\ UNCHANGED boot /\ Fail
    /\ UNCHANGED <<disc, dir, target, part, manifest, mpart, meta, index, written, result, arg>>

SaveDiscBoot ==
    /\ pc = "boot" /\ pc' = "play"
    /\ (boot' = "good" /\ NoFault) \/ (UNCHANGED boot /\ Fail)
    /\ UNCHANGED <<disc, dir, target, part, manifest, mpart, meta, index, written, result, arg>>

(* The process ends, by itself once the game runs or by a crash at any     *)
(* other point, and keeps nothing but the card.                            *)
End ==
    /\ pc # "off" /\ pc' = "off"
    /\ index' = 0 /\ written' = 0 /\ result' = "none" /\ arg' = "none"
    /\ UNCHANGED card
    /\ NoFault

(* Between two launches the user copies, replaces or removes the disc      *)
(* image, or deletes files/ to win back the space.                         *)
User ==
    /\ pc = "off"
    /\ UNCHANGED <<manifest, mpart, meta, boot, process>> /\ NoFault
    /\ \/ disc' \in Image \ {disc} /\ UNCHANGED <<dir, target, part>>
       \/ /\ UserDeletes /\ dir
          /\ dir' = FALSE /\ target' = Nothing /\ part' = Nothing
          /\ UNCHANGED disc

Extract ==
    \/ WalkDir \/ FileOpen \/ FileChunk \/ FileClose \/ FileRemove \/ FileRename
    \/ Publish \/ ManifestRemove \/ ManifestRename

Next ==
    \/ Gate \/ Menu \/ ExtractStart \/ Extract
    \/ LaunchLoose \/ LaunchDisc \/ SaveMeta \/ OpenDiscBoot \/ SaveDiscBoot
    \/ End \/ User

Spec == Init /\ [][Next]_vars

(* The extraction is a loop of the running process: it goes on, and does   *)
(* so without the help of a cancel or of a failing call.                   *)
GoesOn == Extract /\ result' # "canceled" /\ faults' = faults

FairSpec == Spec /\ WF_vars(GoesOn)

-----------------------------------------------------------------------------
(* What disc_extractor.cpp says of the manifest: it "proves every file was *)
(* written, not just that the directory exists (which a half-finished run  *)
(* would already satisfy)".  One unseen error of fclose is enough to break *)
(* it, and so is a deleted files/ directory (NextLaunchTrusts).            *)
ManifestProves ==
    Complete => \A f \in Files : target[f] = "good"

(* What the code does ensure, whatever launch is cancelled, fails or dies  *)
(* where: an extraction that isExtractionComplete accepts has every file,  *)
(* and one of them is cut off only if closing it failed, which nobody saw. *)
ManifestCovers ==
    Complete => \A f \in Files :
                   target[f] = "good" \/ (target[f] = "short" /\ f \in late)

(* The claim of ManifestProves as seen by the next launch.                 *)
NextLaunchTrusts ==
    pc = "off" => ManifestProves

(* The game reads any file it finds under files/, complete extraction or   *)
(* not: no cancel, crash or reported error leaves a cut-off file under its *)
(* final name.  Only an error of fclose does, which the code ignores.      *)
NoTornFile ==
    \A f \in Files : target[f] = "short" => f \in late

(* The result of a run and what the next launch will see.  After a run     *)
(* that was canceled or failed, isExtractionComplete says no.  After "ok"  *)
(* the manifest is in place and says yes, unless an unseen error of its    *)
(* own cut it off.                                                         *)
ResultHonest ==
    pc = "launch" =>
        /\ result \in {"canceled", "failed"} => ~Complete
        /\ result = "ok" => dir /\ (manifest = "good" \/ (manifest = "short" /\ 0 \in late))

(* What disc_extractor.h says of the result: "Returns ok=false with a      *)
(* message on any failure".  A run that returns ok is then a complete one. *)
(* Fails when the manifest's own stream does, in its destructor.           *)
OkIsComplete ==
    pc = "launch" /\ result = "ok" => Complete

(* A successful run also picks up what cancelled, failed or killed runs    *)
(* left behind: no .part file survives it.                                 *)
NoLeftover ==
    pc = "launch" /\ result = "ok" => \A f \in Files : part[f] = "absent"

(* A boot without the disc image is only ever chosen when disc.meta can be *)
(* opened: the gate says of disc.meta and disc-boot.bin "Both files are    *)
(* written automatically the first time the game runs with the disc        *)
(* present."  Fails: a disc.meta that a crash tore is never written again.  *)
LooseBootOpens ==
    arg = "loose" => meta = "good"

(* An extraction ends, also on an image that ends before its files do: it  *)
(* is published, canceled, fails or dies with the process.                 *)
ExtractEnds ==
    pc \in Extracting ~> pc \notin Extracting

=============================================================================
