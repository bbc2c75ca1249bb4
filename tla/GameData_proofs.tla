--------------------------- MODULE GameData_proofs ---------------------------
(***************************************************************************)
(* Proofs about GameData: the completion manifest, the visibility of       *)
(* cut-off files and the result of an extraction, for every file table,    *)
(* every file length and any number of faults and crashes.  What concerns  *)
(* the manifest holds as long as nobody deletes files/ behind its back.    *)
(* Errors of fclose, which the code ignores, are named in each statement.  *)
(***************************************************************************)
EXTENDS GameData, TLAPS

Publishing == {"publish", "mremove", "mrename"}

(* In place: in full, or cut off by an error of fclose that nobody saw.    *)
InPlace(f) == target[f] = "good" \/ (target[f] = "short" /\ f \in late)

(* The walk: what lies before the entry it is at is in place.              *)
WalkInv ==
    /\ pc \in {"off", "menu"} \cup Extracting => result = "none"
    /\ pc \in Extracting =>
          /\ dir
          /\ \A f \in Files : f < index => InPlace(f) /\ part[f] = "absent"
    /\ pc \in Publishing => index = NEntries + 1

(* The file being moved into place: complete, but for an unseen error.     *)
PartInv ==
    /\ pc = "write" => part[index] = "short"
    /\ pc \in {"remove", "rename"} =>
          part[index] = "good" \/ (part[index] = "short" /\ index \in late)
    /\ pc \in {"mremove", "mrename"} =>
          mpart = "good" \/ (mpart = "short" /\ 0 \in late)

(* The manifest: the gate offers an extraction only while there is none,   *)
(* and one that is there tells the truth.                                  *)
ManifestInv ==
    /\ pc \in {"menu"} \cup Extracting => manifest # "good"
    /\ manifest = "good" => dir /\ \A f \in Files : InPlace(f)
    /\ ResultHonest

(* The inductive invariant.  ManifestCovers alone is not inductive: that   *)
(* the last rename of a run publishes the truth needs WalkInv, and that no *)
(* later run takes the files away again needs that the gate offers an      *)
(* extraction only while there is none.                                    *)
IInv ==
    /\ TypeOK
    /\ WalkInv
    /\ PartInv
    /\ NoTornFile
    /\ NoLeftover
    /\ ~UserDeletes => ManifestInv

(* The entries that are files, as numbers.                                 *)
LEMMA FilesInRange ==
    \A f \in Files : f \in Nat /\ 1 <= f /\ f <= NEntries
BY GameDataAssumption DEF Files, Entries

(* What extractCallback returns to: the next entry once this one is in     *)
(* place, or the manifest after the last one.                              *)
LEMMA AdvanceMoves ==
    ASSUME index \in 1..NEntries, Advance
    PROVE  /\ pc' \in {"walk", "publish"}
           /\ index' \in 1..NEntries + 1 /\ index' = index + 1
           /\ written' = 0 /\ result' = result /\ arg' = arg
           /\ pc' = "publish" => index' = NEntries + 1
           /\ pc' = "walk" => index' \in 1..NEntries
BY GameDataAssumption DEF Advance

(* A new card satisfies the inductive invariant.                           *)
LEMMA InitEstablishes ==
    Init => IInv
PROOF
<1> SUFFICES ASSUME Init PROVE IInv
    OBVIOUS
<1>1. TypeOK
    <2>1. disc \in Image /\ dir \in BOOLEAN /\ late \subseteq Files \cup {0}
        BY DEF Init
    <2>2. target \in [Files -> Content] /\ part \in [Files -> Content]
        BY DEF Init, Nothing, Content
    <2>3. index \in 0..NEntries + 1 /\ written \in Nat /\ faults \in 0..MaxFaults
        BY GameDataAssumption DEF Init
    <2> QED
        BY <2>1, <2>2, <2>3 DEF Init, TypeOK, Content, Extracting
<1>2. WalkInv /\ PartInv
    BY DEF Init, WalkInv, PartInv, Extracting, Publishing
<1>3. NoTornFile /\ NoLeftover /\ ManifestInv
    BY DEF Init, NoTornFile, ManifestInv, ResultHonest, NoLeftover, Nothing, Extracting
<1> QED
    BY <1>1, <1>2, <1>3 DEF IInv, Init

(* Every step of the gate, the extraction, the launcher and the user keeps *)
(* it.                                                                     *)
LEMMA NextPreserves ==
    ASSUME IInv, [Next]_vars
    PROVE  IInv'
PROOF
<1> USE GameDataAssumption, FilesInRange
<1> USE DEF IInv, WalkInv, PartInv, ManifestInv, TypeOK, NoTornFile, ResultHonest, NoLeftover,
            InPlace, Complete, Image, Extracting, Publishing, Content, card, process,
            NoFault, Fail, Cancel, Abort
<1>1. CASE Gate
    BY <1>1 DEF Gate
<1>2. CASE Menu
    BY <1>2 DEF Menu
<1>3. CASE ExtractStart
    <2>1. TypeOK'
        <3>1. index' \in 0..NEntries + 1 /\ written' \in Nat /\ faults' \in 0..MaxFaults
            BY <1>3 DEF ExtractStart, Return
        <3>2. pc' \in {"launch", "publish", "walk"} /\ (pc' # "launch" => index' > 0)
            BY <1>3 DEF ExtractStart, Return
        <3>3. dir' \in BOOLEAN
            BY <1>3 DEF ExtractStart
        <3>4. result' \in {"none", "ok", "canceled", "failed"} /\ arg' \in {"none", "disc", "loose"}
            BY <1>3 DEF ExtractStart, Return
        <3> QED
            BY <1>3, <3>1, <3>2, <3>3, <3>4 DEF ExtractStart
    <2>2. WalkInv'
        BY <1>3 DEF ExtractStart, Return
    <2>3. PartInv'
        BY <1>3 DEF ExtractStart, Return
    <2>4. NoTornFile'
        BY <1>3 DEF ExtractStart, Return
    <2>5. (~UserDeletes => ManifestInv)'
        BY <1>3 DEF ExtractStart, Return
    <2>6. NoLeftover'
        BY <1>3 DEF ExtractStart, Return
    <2> QED
        BY <2>1, <2>2, <2>3, <2>4, <2>5, <2>6
<1>4. CASE WalkDir
    <2>1. index \in 1..NEntries /\ \A f \in Files : f < index + 1 => f < index
        BY <1>4 DEF WalkDir, Files, Entries
    <2>2. CASE Advance /\ NoFault
        BY <1>4, <2>1, <2>2, AdvanceMoves DEF WalkDir
    <2>3. CASE Abort
        BY <1>4, <2>3 DEF WalkDir, Return
    <2> QED
        BY <1>4, <2>2, <2>3 DEF WalkDir
<1>5. CASE FileOpen
    <2>1. TypeOK'
        <3>1. index' \in 0..NEntries + 1 /\ written' \in Nat /\ faults' \in 0..MaxFaults
            BY <1>5 DEF FileOpen, Return
        <3>2. pc' = "launch" \/ (pc' = "write" /\ index' \in Files /\ index' > 0)
            BY <1>5 DEF FileOpen, Return
        <3>3. part' \in [Files -> Content]
            BY <1>5 DEF FileOpen
        <3>4. result' \in {"none", "ok", "canceled", "failed"} /\ arg' \in {"none", "disc", "loose"}
            BY <1>5 DEF FileOpen, Return
        <3> QED
            BY <1>5, <3>1, <3>2, <3>3, <3>4 DEF FileOpen
    <2>2. WalkInv'
        BY <1>5 DEF FileOpen, Return
    <2>3. PartInv'
        BY <1>5 DEF FileOpen, Return
    <2>4. NoTornFile'
        BY <1>5 DEF FileOpen, Return
    <2>5. (~UserDeletes => ManifestInv)'
        BY <1>5 DEF FileOpen, Return
    <2>6. NoLeftover'
        BY <1>5 DEF FileOpen, Return
    <2> QED
        BY <2>1, <2>2, <2>3, <2>4, <2>5, <2>6
<1>6. CASE FileChunk
    <2>1. TypeOK'
        BY <1>6 DEF FileChunk, Return
    <2>2. WalkInv'
        BY <1>6 DEF FileChunk, Return
    <2>3. PartInv'
        BY <1>6 DEF FileChunk, Return
    <2>4. NoTornFile'
        BY <1>6 DEF FileChunk, Return
    <2>5. (~UserDeletes => ManifestInv)'
        BY <1>6 DEF FileChunk, Return
    <2>6. NoLeftover'
        BY <1>6 DEF FileChunk, Return
    <2> QED
        BY <2>1, <2>2, <2>3, <2>4, <2>5, <2>6
<1>7. CASE FileClose
    <2>1. TypeOK'
        BY <1>7 DEF FileClose, LateError
    <2>2. WalkInv'
        BY <1>7 DEF FileClose, LateError
    <2>3. PartInv'
        <3>1. index \in Files /\ index' = index /\ pc' = "remove"
            BY <1>7 DEF FileClose
        <3>2. CASE part' = [part EXCEPT ![index] = "good"]
            BY <3>1, <3>2
        <3>3. CASE part' = part /\ late' = late \cup {index}
            <4>1. part[index] = "short"
                BY <1>7 DEF FileClose
            <4> QED
                BY <3>1, <3>3, <4>1
        <3> QED
            BY <1>7, <3>2, <3>3 DEF FileClose, LateError
    <2>4. NoTornFile'
        BY <1>7 DEF FileClose, LateError
    <2>5. (~UserDeletes => ManifestInv)'
        BY <1>7 DEF FileClose, LateError
    <2>6. NoLeftover'
        BY <1>7 DEF FileClose, LateError
    <2> QED
        BY <2>1, <2>2, <2>3, <2>4, <2>5, <2>6
<1>8. CASE FileRemove
    BY <1>8 DEF FileRemove
<1>9. CASE FileRename
    <2>1. TypeOK'
        BY <1>9 DEF FileRename, Return, Advance
    <2>2. WalkInv'
        BY <1>9 DEF FileRename, Return, Advance
    <2>3. PartInv'
        BY <1>9 DEF FileRename, Return, Advance
    <2>4. NoTornFile'
        BY <1>9 DEF FileRename, Return, Advance
    <2>5. (~UserDeletes => ManifestInv)'
        BY <1>9 DEF FileRename, Return, Advance
    <2>6. NoLeftover'
        BY <1>9 DEF FileRename, Return, Advance
    <2> QED
        BY <2>1, <2>2, <2>3, <2>4, <2>5, <2>6
<1>10. CASE Publish
    BY <1>10 DEF Publish, Return, LateError
<1>11. CASE ManifestRemove
    BY <1>11 DEF ManifestRemove
<1>12. CASE ManifestRename
    BY <1>12 DEF ManifestRename, Return
<1>13. CASE LaunchLoose
    BY <1>13 DEF LaunchLoose
<1>14. CASE LaunchDisc
    BY <1>14 DEF LaunchDisc
<1>15. CASE SaveMeta
    BY <1>15 DEF SaveMeta
<1>16. CASE OpenDiscBoot
    BY <1>16 DEF OpenDiscBoot
<1>17. CASE SaveDiscBoot
    BY <1>17 DEF SaveDiscBoot
<1>18. CASE End
    BY <1>18 DEF End
<1>19. CASE User
    <2>1. TypeOK'
        <3>1. disc' \in Image
            BY <1>19 DEF User
        <3>2. /\ dir' \in BOOLEAN
              /\ target' \in [Files -> Content] /\ part' \in [Files -> Content]
            <4>1. Nothing \in [Files -> Content]
                BY DEF Nothing, Content
            <4>2. CASE dir' = dir /\ target' = target /\ part' = part
                BY <4>2
            <4>3. CASE dir' = FALSE /\ target' = Nothing /\ part' = Nothing
                BY <4>1, <4>3
            <4> QED
                BY <1>19, <4>2, <4>3 DEF User
        <3> QED
            BY <1>19, <3>1, <3>2 DEF User
    <2>2. WalkInv'
        BY <1>19 DEF User, Nothing
    <2>3. PartInv'
        BY <1>19 DEF User, Nothing
    <2>4. NoTornFile'
        BY <1>19 DEF User, Nothing
    <2>5. (~UserDeletes => ManifestInv)'
        BY <1>19 DEF User, Nothing
    <2>6. NoLeftover'
        BY <1>19 DEF User, Nothing
    <2> QED
        BY <2>1, <2>2, <2>3, <2>4, <2>5, <2>6
<1>20. CASE UNCHANGED vars
    BY <1>20 DEF vars
<1> QED
    BY <1>1, <1>2, <1>3, <1>4, <1>5, <1>6, <1>7, <1>8, <1>9, <1>10, <1>11, <1>12,
       <1>13, <1>14, <1>15, <1>16, <1>17, <1>18, <1>19, <1>20 DEF Next, Extract

(* Every reachable state of every run of launches satisfies the inductive  *)
(* invariant.                                                              *)
THEOREM Invariant == Spec => []IInv
PROOF
<1>1. Init => IInv
    BY InitEstablishes
<1>2. IInv /\ [Next]_vars => IInv'
    BY NextPreserves
<1> QED
    BY <1>1, <1>2, PTL DEF Spec

(* Type correctness, which includes that the walk works on an entry of the *)
(* table whenever it works on a file.                                      *)
THEOREM TypeCorrect == Spec => []TypeOK
PROOF
<1>1. IInv => TypeOK
    BY DEF IInv
<1> QED
    BY <1>1, Invariant, PTL

(* For any disc and whatever was cancelled, failed or killed before, an    *)
(* extraction that isExtractionComplete accepts has every file, and every  *)
(* file whose fclose did not fail has it in full.                          *)
THEOREM ManifestSound ==
    ASSUME ~UserDeletes PROVE Spec => []ManifestCovers
PROOF
<1>1. IInv => ManifestCovers
    BY DEF IInv, ManifestInv, ManifestCovers, Complete, InPlace
<1> QED
    BY <1>1, Invariant, PTL

(* The .part protocol: a file cut off under its final name can only come   *)
(* from an fclose whose error nobody saw, whatever the user deletes.       *)
THEOREM NoTorn == Spec => []NoTornFile
PROOF
<1>1. IInv => NoTornFile
    BY DEF IInv
<1> QED
    BY <1>1, Invariant, PTL

(* After a canceled or failed run isExtractionComplete says no.  After one *)
(* that reports ok the manifest is in place, whole but for an unseen error *)
(* of its own.                                                             *)
THEOREM ResultSound ==
    ASSUME ~UserDeletes PROVE Spec => []ResultHonest
PROOF
<1>1. IInv => ResultHonest
    BY DEF IInv, ManifestInv
<1> QED
    BY <1>1, Invariant, PTL

(* A successful extraction leaves no .part file of any earlier run behind. *)
THEOREM NoPartLeft == Spec => []NoLeftover
PROOF
<1>1. IInv => NoLeftover
    BY DEF IInv
<1> QED
    BY <1>1, Invariant, PTL

=============================================================================
