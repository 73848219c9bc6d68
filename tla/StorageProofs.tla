---------------------------- MODULE StorageProofs ----------------------------
(***************************************************************************)
(* The steps of save_chain implement a cell that is written at once, for   *)
(* any number of saves, failures, kills and losses of power.               *)
(***************************************************************************)
EXTENDS ChainStorage, SequenceTheorems, TLAPS

-----------------------------------------------------------------------------
(* Sequences of files.                                                     *)

\* What Append does to the entries and to the last one.
LEMMA AppendFacts ==
    ASSUME NEW S, NEW s \in Seq(S), NEW e \in S
    PROVE  /\ Append(s, e) \in Seq(S)
           /\ Len(Append(s, e)) = Len(s) + 1
           /\ DOMAIN Append(s, e) = 1..(Len(s) + 1)
           /\ \A n \in 1..Len(s) : Append(s, e)[n] = s[n]
           /\ Append(s, e)[Len(s) + 1] = e
           /\ Last(Append(s, e)) = e
<1>1. Len(s) \in Nat
    OBVIOUS
<1> QED
    BY <1>1 DEF Last

\* What is left of a sequence from one of its entries on.
LEMMA SuffixFacts ==
    ASSUME NEW S, NEW s \in Seq(S), NEW k \in DOMAIN s
    PROVE  /\ SubSeq(s, k, Len(s)) \in Seq(S)
           /\ SubSeq(s, k, Len(s)) # <<>>
           /\ Len(SubSeq(s, k, Len(s))) = Len(s) - k + 1
           /\ DOMAIN SubSeq(s, k, Len(s)) = 1..(Len(s) - k + 1)
           /\ \A n \in 1..(Len(s) - k + 1) :
                 n + k - 1 \in DOMAIN s /\ SubSeq(s, k, Len(s))[n] = s[n + k - 1]
           /\ Last(SubSeq(s, k, Len(s))) = Last(s)
<1> DEFINE t == SubSeq(s, k, Len(s))
<1>1. Len(s) \in Nat /\ k \in 1..Len(s) /\ DOMAIN s = 1..Len(s)
    OBVIOUS
<1>2. /\ t \in Seq(S)
      /\ Len(t) = Len(s) - k + 1
      /\ DOMAIN t = 1..(Len(s) - k + 1)
    BY <1>1
<1>3. \A n \in 1..(Len(s) - k + 1) : t[n] = s[n + k - 1] /\ n + k - 1 \in DOMAIN s
    BY <1>1
<1>4. Len(s) - k + 1 \in 1..(Len(s) - k + 1) /\ (Len(s) - k + 1) + k - 1 = Len(s)
    BY <1>1
<1> HIDE DEF t
<1>5. t # <<>>
    <2>1. Len(t) # 0
        BY <1>1, <1>2
    <2> QED
        BY <2>1, EmptySeq
<1>6. Last(t) = Last(s)
    BY <1>2, <1>3, <1>4 DEF Last
<1> QED
    BY <1>2, <1>3, <1>5, <1>6 DEF t

-----------------------------------------------------------------------------
(* The invariant.                                                          *)

Files == [state : {"missing", "empty", "torn", "whole"}, chain : Nat, synced : BOOLEAN]

StorageTypeOK ==
    /\ pending \in Seq(Files) /\ pending # <<>>
    /\ tmp \in Files
    /\ program \in Programs
    /\ step \in SaveSteps
    /\ saving \in Nat /\ saves \in Nat /\ answered \in Nat

\* The path holds nothing but whole files that fsync has written, each with a
\* later chain than the one before.
PendingInv ==
    /\ \A n \in DOMAIN pending :
          /\ pending[n].synced
          /\ pending[n].state \in {"missing", "whole"}
          /\ pending[n].chain <= saves
    /\ \A m, n \in DOMAIN pending : m < n => pending[m].chain < pending[n].chain

\* The chain being saved is the latest; once fsync is done, so is the
\* temporary file, and after the replacement the path holds it.
SaveInv ==
    /\ step # "idle" => saving = saves
    /\ step \in {"open", "dump", "flush", "fsync", "replace"} =>
          \A n \in DOMAIN pending : pending[n].chain < saving
    /\ step = "fsync" => tmp = Whole(saving)
    /\ step = "replace" => tmp = [Whole(saving) EXCEPT !.synced = TRUE]
    /\ step = "return" => ChainFile.chain = saving

StorageInv ==
    /\ StorageTypeOK
    /\ PendingInv
    /\ SaveInv
    /\ AnsweredSaveIsLoaded

\* The length of what the path may hold.
LEMMA PendingFacts ==
    ASSUME StorageTypeOK
    PROVE  /\ Len(pending) \in Nat \ {0}
           /\ DOMAIN pending = 1..Len(pending)
           /\ \A n \in DOMAIN pending : pending[n] \in Files
           /\ Len(pending) \in DOMAIN pending
           /\ ChainFile = pending[Len(pending)]
           /\ ChainFile \in Files
BY DEF StorageTypeOK, ChainFile, Last

LEMMA InitInv == StorageInit => StorageInv
<1> SUFFICES ASSUME StorageInit PROVE StorageInv
    OBVIOUS
<1>1. Missing \in Files /\ Missing.chain = 0 /\ Missing.synced /\ Missing.state = "missing"
    BY DEF Missing, Files
<1>2. Len(pending) = 1 /\ DOMAIN pending = {1} /\ pending[1] = Missing
    BY DEF StorageInit
<1>3. pending \in Seq(Files) /\ pending # <<>>
    BY <1>1 DEF StorageInit
<1>4. ChainFile = Missing
    BY <1>2 DEF ChainFile, Last
<1>5. StorageTypeOK
    BY <1>1, <1>3 DEF StorageTypeOK, StorageInit, Programs, SaveSteps
<1>6. PendingInv
    BY <1>1, <1>2 DEF PendingInv, StorageInit
<1>7. SaveInv
    BY DEF SaveInv, StorageInit
<1>8. AnsweredSaveIsLoaded
    BY <1>1, <1>4 DEF AnsweredSaveIsLoaded, LoadChain, StorageInit
<1> QED
    BY <1>5, <1>6, <1>7, <1>8 DEF StorageInv

\* A new call of save_chain has a chain later than all others.
LEMMA CallSaveInv ==
    ASSUME StorageInv, CallSave, program' \in Programs,
           UNCHANGED <<pending, tmp, answered>>
    PROVE  StorageInv'
<1>1. saves' = saves + 1 /\ saving' = saves' /\ step' = "open"
    BY DEF CallSave
<1>2. StorageTypeOK'
    BY <1>1 DEF StorageInv, StorageTypeOK, SaveSteps
<1>3. \A n \in DOMAIN pending : pending[n].chain \in Nat
    BY PendingFacts DEF StorageInv, Files
<1>4. PendingInv'
    BY <1>1, <1>3 DEF StorageInv, PendingInv, StorageTypeOK
<1>5. SaveInv'
    BY <1>1, <1>3 DEF StorageInv, PendingInv, StorageTypeOK, SaveInv
<1>6. AnsweredSaveIsLoaded'
    BY DEF StorageInv, AnsweredSaveIsLoaded, ChainFile
<1> QED
    BY <1>2, <1>4, <1>5, <1>6 DEF StorageInv

\* A step of save_chain that leaves the path alone and goes on from "here"
\* to "next" needs a look only at the temporary file.
LEMMA TmpStepInv ==
    ASSUME StorageInv, UNCHANGED <<pending, answered, saves, saving>>,
           program' \in Programs, tmp' \in Files,
           step' \in SaveSteps \ {"return"},
           step' # "idle" => step \in {"open", "dump", "flush", "fsync"},
           step' = "fsync" => tmp' = Whole(saving),
           step' = "replace" => tmp' = [Whole(saving) EXCEPT !.synced = TRUE]
    PROVE  StorageInv'
<1>1. StorageTypeOK'
    BY DEF StorageInv, StorageTypeOK
<1>2. PendingInv'
    BY DEF StorageInv, PendingInv
<1>3. SaveInv'
    BY DEF StorageInv, SaveInv, SaveSteps
<1>4. AnsweredSaveIsLoaded'
    BY DEF StorageInv, AnsweredSaveIsLoaded, ChainFile
<1> QED
    BY <1>1, <1>2, <1>3, <1>4 DEF StorageInv

LEMMA ReplaceFileInv == StorageInv /\ ReplaceFile => StorageInv'
<1> SUFFICES ASSUME StorageInv, ReplaceFile PROVE StorageInv'
    OBVIOUS
<1>1. /\ step = "replace" /\ step' = "return"
      /\ pending' = Append(pending, tmp)
      /\ tmp' = Missing
      /\ UNCHANGED <<program, saving, saves, answered>>
    BY DEF ReplaceFile, At
<1>2. /\ tmp.chain = saving /\ tmp.synced /\ tmp.state = "whole" /\ tmp \in Files
      /\ saving = saves /\ saves \in Nat /\ answered \in Nat
      /\ pending \in Seq(Files) /\ Len(pending) \in Nat
      /\ DOMAIN pending = 1..Len(pending)
    BY <1>1, PendingFacts DEF StorageInv, SaveInv, StorageTypeOK, Whole
<1>3. /\ pending' \in Seq(Files)
      /\ DOMAIN pending' = 1..(Len(pending) + 1)
      /\ \A n \in 1..Len(pending) : pending'[n] = pending[n]
      /\ pending'[Len(pending) + 1] = tmp
      /\ ChainFile' = tmp
    <2>1. /\ Append(pending, tmp) \in Seq(Files)
          /\ DOMAIN Append(pending, tmp) = 1..(Len(pending) + 1)
          /\ \A n \in 1..Len(pending) : Append(pending, tmp)[n] = pending[n]
          /\ Append(pending, tmp)[Len(pending) + 1] = tmp
          /\ Last(Append(pending, tmp)) = tmp
        BY <1>2, AppendFacts
    <2> QED
        BY <1>1, <2>1 DEF ChainFile
<1>4. \A n \in 1..Len(pending) : pending[n].chain < saving /\ pending[n].chain \in Nat
    BY <1>1, <1>2, PendingFacts DEF StorageInv, SaveInv, Files
<1>5. StorageTypeOK'
    BY <1>1, <1>3, <1>2 DEF StorageInv, StorageTypeOK, SaveSteps, Missing, Files
<1>6. PendingInv'
    <2>1. \A n \in DOMAIN pending' :
             pending'[n].synced /\ pending'[n].state \in {"missing", "whole"}
             /\ pending'[n].chain <= saves'
        BY <1>1, <1>2, <1>3 DEF StorageInv, PendingInv
    <2>2. ASSUME NEW m \in DOMAIN pending', NEW n \in DOMAIN pending', m < n
          PROVE  pending'[m].chain < pending'[n].chain
        <3>1. CASE n \in 1..Len(pending)
            BY <1>2, <1>3, <2>2, <3>1 DEF StorageInv, PendingInv
        <3>2. CASE n = Len(pending) + 1
            BY <1>2, <1>3, <1>4, <2>2, <3>2
        <3> QED
            BY <1>2, <1>3, <3>1, <3>2
    <2> QED
        BY <2>1, <2>2 DEF PendingInv
<1>7. SaveInv'
    BY <1>1, <1>2, <1>3 DEF SaveInv
<1>8. AnsweredSaveIsLoaded'
    <2>1. answered <= ChainFile.chain /\ ChainFile.chain < saving /\ ChainFile.chain \in Nat
        BY <1>4, <1>2, PendingFacts DEF StorageInv, AnsweredSaveIsLoaded, LoadChain
    <2> QED
        BY <1>1, <1>2, <1>3, <2>1 DEF AnsweredSaveIsLoaded, LoadChain
<1> QED
    BY <1>5, <1>6, <1>7, <1>8 DEF StorageInv

LEMMA ReturnFromSaveInv == StorageInv /\ ReturnFromSave => StorageInv'
<1> SUFFICES ASSUME StorageInv, ReturnFromSave PROVE StorageInv'
    OBVIOUS
<1>1. /\ step = "return" /\ step' = "idle"
      /\ answered' = saving
      /\ UNCHANGED <<pending, tmp, saving, saves>>
      /\ program' \in Programs
    BY DEF ReturnFromSave, AfterSave, Programs
<1>2. StorageTypeOK' /\ PendingInv' /\ SaveInv'
    BY <1>1 DEF StorageInv, StorageTypeOK, PendingInv, SaveInv, SaveSteps
<1>3. AnsweredSaveIsLoaded'
    BY <1>1 DEF StorageInv, SaveInv, AnsweredSaveIsLoaded, LoadChain, ChainFile, StorageTypeOK
<1> QED
    BY <1>2, <1>3 DEF StorageInv

LEMMA FlushDirectoryInv == StorageInv /\ FlushDirectory => StorageInv'
<1> SUFFICES ASSUME StorageInv, FlushDirectory PROVE StorageInv'
    OBVIOUS
<1>1. PICK k \in 2..Len(pending) : pending' = SubSeq(pending, k, Len(pending))
    BY DEF FlushDirectory
<1>2. UNCHANGED <<tmp, program, step, saving, saves, answered>>
    BY DEF FlushDirectory
<1>3. /\ Len(pending) \in Nat /\ DOMAIN pending = 1..Len(pending)
      /\ pending \in Seq(Files) /\ k \in DOMAIN pending
    BY <1>1, PendingFacts DEF StorageInv, StorageTypeOK
<1>4. /\ pending' \in Seq(Files) /\ pending' # <<>>
      /\ DOMAIN pending' = 1..(Len(pending) - k + 1)
      /\ \A n \in DOMAIN pending' :
            n + k - 1 \in DOMAIN pending /\ pending'[n] = pending[n + k - 1]
      /\ ChainFile' = ChainFile
    <2> DEFINE rest == SubSeq(pending, k, Len(pending))
    <2>1. /\ rest \in Seq(Files) /\ rest # <<>>
          /\ DOMAIN rest = 1..(Len(pending) - k + 1)
          /\ \A n \in 1..(Len(pending) - k + 1) :
                n + k - 1 \in DOMAIN pending /\ rest[n] = pending[n + k - 1]
          /\ Last(rest) = Last(pending)
        BY <1>3, SuffixFacts
    <2> QED
        BY <1>1, <2>1 DEF ChainFile
<1>5. StorageTypeOK'
    BY <1>2, <1>4 DEF StorageInv, StorageTypeOK
<1>6. PendingInv'
    <2>1. \A n \in DOMAIN pending' :
             pending'[n].synced /\ pending'[n].state \in {"missing", "whole"}
             /\ pending'[n].chain <= saves'
        BY <1>2, <1>4 DEF StorageInv, PendingInv
    <2>2. ASSUME NEW m \in DOMAIN pending', NEW n \in DOMAIN pending', m < n
          PROVE  pending'[m].chain < pending'[n].chain
        <3>1. /\ m + k - 1 \in DOMAIN pending /\ n + k - 1 \in DOMAIN pending
              /\ m + k - 1 < n + k - 1
            BY <1>3, <1>4, <2>2
        <3> QED
            BY <1>4, <3>1 DEF StorageInv, PendingInv
    <2> QED
        BY <2>1, <2>2 DEF PendingInv
<1>7. SaveInv'
    BY <1>2, <1>4 DEF StorageInv, SaveInv
<1>8. AnsweredSaveIsLoaded'
    BY <1>2, <1>4 DEF StorageInv, AnsweredSaveIsLoaded
<1> QED
    BY <1>5, <1>6, <1>7, <1>8 DEF StorageInv

\* fsync has written all that the path may hold, so a loss of power changes
\* none of it.
LEMMA OnDiskIsPending ==
    ASSUME StorageInv, NEW n \in DOMAIN pending
    PROVE  OnDisk(pending[n]) = {pending[n]}
BY DEF StorageInv, PendingInv, OnDisk

LEMMA OnDiskIsFile ==
    ASSUME NEW file \in Files, NEW other \in OnDisk(file)
    PROVE  other \in Files
<1>1. \A f \in Files : [f EXCEPT !.synced = TRUE] \in Files
    BY DEF Files
<1>2. Empty \in Files /\ Torn \in Files
    BY DEF Empty, Torn, Files
<1> QED
    BY <1>1, <1>2 DEF OnDisk

LEMMA LosePowerInv == StorageInv /\ LosePower => StorageInv'
<1> SUFFICES ASSUME StorageInv, LosePower PROVE StorageInv'
    OBVIOUS
<1>1. PICK n \in DOMAIN pending : \E file \in OnDisk(pending[n]) :
          /\ pending' = <<file>>
          /\ answered' = IF LoadChain(file) < answered THEN LoadChain(file) ELSE answered
    BY DEF LosePower
<1>2. /\ pending' = <<pending[n]>>
      /\ answered' = IF pending[n].chain < answered THEN pending[n].chain ELSE answered
    BY <1>1, OnDiskIsPending DEF LoadChain
<1>3. /\ program' = "none" /\ step' = "idle" /\ UNCHANGED <<saving, saves>>
      /\ tmp' \in OnDisk(tmp) \cup {Missing}
    BY DEF LosePower, Stop
<1>4. pending[n] \in Files
    <2>1. \A m \in DOMAIN pending : pending[m] \in Files
        BY PendingFacts DEF StorageInv
    <2> QED
        BY <2>1
<1>5. tmp' \in Files
    <2>1. tmp \in Files /\ Missing \in Files
        BY DEF StorageInv, StorageTypeOK, Missing, Files
    <2>2. \A file \in OnDisk(tmp) : file \in Files
        BY <2>1, OnDiskIsFile
    <2> QED
        BY <1>3, <2>1, <2>2
<1>6. /\ pending' \in Seq(Files) /\ pending' # <<>>
      /\ DOMAIN pending' = {1} /\ pending'[1] = pending[n] /\ ChainFile' = pending[n]
    BY <1>2, <1>4 DEF ChainFile, Last
<1>7. pending[n].chain \in Nat /\ answered \in Nat
    BY <1>4 DEF Files, StorageInv, StorageTypeOK
<1>8. StorageTypeOK'
    BY <1>2, <1>3, <1>5, <1>6, <1>7 DEF StorageInv, StorageTypeOK, Programs, SaveSteps
<1>9. PendingInv'
    BY <1>3, <1>6 DEF StorageInv, PendingInv
<1>10. SaveInv'
    BY <1>3 DEF SaveInv
<1>11. AnsweredSaveIsLoaded'
    BY <1>2, <1>6, <1>7 DEF AnsweredSaveIsLoaded, LoadChain
<1> QED
    BY <1>8, <1>9, <1>10, <1>11 DEF StorageInv

\* The other steps of programs touch no file and no variable of save_chain.
LEMMA ProgramStepInv ==
    ASSUME StorageInv, program' \in Programs,
           UNCHANGED <<pending, tmp, step, saving, saves, answered>>
    PROVE  StorageInv'
BY DEF StorageInv, StorageTypeOK, PendingInv, SaveInv, AnsweredSaveIsLoaded, ChainFile

LEMMA NextInv == StorageInv /\ [StorageNext]_storageVars => StorageInv'
<1> SUFFICES ASSUME StorageInv, [StorageNext]_storageVars PROVE StorageInv'
    OBVIOUS
<1>1. /\ tmp \in Files /\ Missing \in Files /\ Empty \in Files /\ Torn \in Files
      /\ Whole(saving) \in Files
      /\ program \in Programs
    BY DEF StorageInv, StorageTypeOK, Missing, Empty, Torn, Whole, Files
<1>2. CASE StartValidator
    <2>1. CASE ChainFile.state = "missing"
        BY <1>2, <2>1, CallSaveInv DEF StartValidator, Programs
    <2>2. CASE ChainFile.state # "missing"
        BY <1>2, <2>2, ProgramStepInv DEF StartValidator, Programs
    <2> QED
        BY <2>1, <2>2
<1>3. CASE SaveBlocks \/ RunTool
    BY <1>1, <1>3, CallSaveInv DEF SaveBlocks, RunTool, Programs
<1>4. CASE Listen
    BY <1>4, ProgramStepInv DEF Listen, Programs
<1>5. CASE OpenTmp
    BY <1>1, <1>5, TmpStepInv DEF OpenTmp, At, SaveSteps
<1>6. CASE DumpChain
    BY <1>1, <1>6, TmpStepInv DEF DumpChain, At, SaveSteps
<1>7. CASE FlushTmp
    BY <1>1, <1>7, TmpStepInv DEF FlushTmp, At, SaveSteps
<1>8. CASE FsyncTmp
    <2>1. tmp = Whole(saving) /\ tmp' = [Whole(saving) EXCEPT !.synced = TRUE]
        BY <1>8 DEF FsyncTmp, At, StorageInv, SaveInv
    <2>2. tmp' \in Files
        BY <1>1, <2>1 DEF Files
    <2> QED
        BY <1>1, <1>8, <2>1, <2>2, TmpStepInv DEF FsyncTmp, At, SaveSteps
<1>9. CASE ReplaceFile
    BY <1>9, ReplaceFileInv
<1>10. CASE ReturnFromSave
    BY <1>10, ReturnFromSaveInv
<1>11. CASE FailSave
    <2>1. program' \in Programs /\ tmp' \in Files
        BY <1>1, <1>11 DEF FailSave, AfterSave, Programs
    <2> QED
        BY <1>11, <2>1, TmpStepInv DEF FailSave, SaveSteps
<1>12. CASE Kill
    BY <1>1, <1>12, TmpStepInv DEF Kill, Stop, SaveSteps, Programs
<1>13. CASE FlushDirectory
    BY <1>13, FlushDirectoryInv
<1>14. CASE LosePower
    BY <1>14, LosePowerInv
<1>15. CASE UNCHANGED storageVars
    BY <1>1, <1>15, ProgramStepInv DEF storageVars
<1> QED
    BY <1>2, <1>3, <1>4, <1>5, <1>6, <1>7, <1>8, <1>9, <1>10, <1>11, <1>12, <1>13,
       <1>14, <1>15 DEF StorageNext

LEMMA StorageInvHolds == StorageSpec => []StorageInv
BY InitInv, NextInv, PTL DEF StorageSpec

-----------------------------------------------------------------------------
(* The theorems.                                                           *)

\* Whatever fails, is killed or loses its power, the file is missing or whole.
THEOREM ChainFileIsWholeHolds == StorageSpec => []ChainFileIsWhole
<1>1. StorageInv => ChainFileIsWhole
    BY OnDiskIsPending DEF ChainFileIsWhole, StorageInv, PendingInv
<1> QED
    BY <1>1, StorageInvHolds, PTL

\* What was reported as saved is loaded, or something later.
THEOREM AnsweredSaveIsLoadedHolds == StorageSpec => []AnsweredSaveIsLoaded
<1>1. StorageInv => AnsweredSaveIsLoaded
    BY DEF StorageInv
<1> QED
    BY <1>1, StorageInvHolds, PTL

\* The versions of the abstract cell.
VersionsOf(files) == [n \in DOMAIN files |-> LoadChain(files[n])]

Versions == VersionsOf(pending)

LEMMA VersionsFacts ==
    ASSUME NEW files \in Seq(Files)
    PROVE  /\ VersionsOf(files) \in Seq(Nat)
           /\ Len(VersionsOf(files)) = Len(files)
           /\ DOMAIN VersionsOf(files) = 1..Len(files)
           /\ \A n \in 1..Len(files) : VersionsOf(files)[n] = files[n].chain
<1>1. Len(files) \in Nat /\ DOMAIN files = 1..Len(files)
    OBVIOUS
<1>2. \A n \in 1..Len(files) : files[n].chain \in Nat
    <2>1. \A n \in 1..Len(files) : files[n] \in Files
        BY <1>1
    <2> QED
        BY <2>1 DEF Files
<1>3. VersionsOf(files) = [n \in 1..Len(files) |-> files[n].chain]
    BY <1>1 DEF VersionsOf, LoadChain
<1> QED
    BY <1>1, <1>2, <1>3

\* os.replace is the abstract save.
LEMMA ReplaceFileIsStore ==
    ASSUME StorageInv, StorageInv', ReplaceFile
    PROVE  /\ Len(Versions') = Len(Versions) + 1
           /\ Cell!Front(Versions') = Versions
           /\ Cell!Last(Versions') > Cell!Last(Versions)
<1>1. /\ pending' = Append(pending, tmp) /\ tmp \in Files /\ tmp.chain = saving
      /\ pending \in Seq(Files) /\ Len(pending) \in Nat \ {0}
    BY PendingFacts DEF ReplaceFile, At, StorageInv, SaveInv, StorageTypeOK, Whole
<1>2. /\ Len(pending') = Len(pending) + 1
      /\ \A n \in 1..Len(pending) : pending'[n] = pending[n]
      /\ pending'[Len(pending) + 1] = tmp
    BY <1>1, AppendFacts
<1>3. /\ Versions \in Seq(Nat) /\ Versions' \in Seq(Nat)
      /\ Len(Versions) = Len(pending) /\ Len(Versions') = Len(pending) + 1
      /\ \A n \in 1..Len(pending) : Versions[n] = pending[n].chain
      /\ \A n \in 1..(Len(pending) + 1) : Versions'[n] = pending'[n].chain
    <2>1. pending \in Seq(Files) /\ pending' \in Seq(Files)
        BY DEF StorageInv, StorageTypeOK
    <2> QED
        BY <1>2, <2>1, VersionsFacts DEF Versions
<1>4. Cell!Front(Versions') = Versions
    <2>1. \A n \in 1..Len(pending) : Versions'[n] = Versions[n]
        BY <1>1, <1>2, <1>3
    <2> QED
        BY <1>1, <1>3, <2>1 DEF Cell!Front
<1>5. Versions[Len(pending)] < saving
    BY <1>1, <1>3, PendingFacts DEF StorageInv, SaveInv, ReplaceFile, At
<1> QED
    BY <1>1, <1>2, <1>3, <1>4, <1>5 DEF Cell!Last

\* Every step saves, hardens or loses versions, or changes none.
LEMMA NextIsCellNext ==
    ASSUME StorageInv, StorageInv', [StorageNext]_storageVars
    PROVE  [Cell!Store \/ Cell!Harden \/ Cell!LosePower]_Versions
<1>1. CASE ReplaceFile
    BY <1>1, ReplaceFileIsStore DEF Cell!Store, Versions, VersionsOf
<1>2. CASE FlushDirectory
    <2>1. PICK k \in 2..Len(pending) : pending' = SubSeq(pending, k, Len(pending))
        BY <1>2 DEF FlushDirectory
    <2>2. /\ Len(pending) \in Nat /\ DOMAIN pending = 1..Len(pending)
          /\ pending \in Seq(Files) /\ k \in DOMAIN pending
        BY <2>1, PendingFacts DEF StorageInv, StorageTypeOK
    <2>3. /\ Len(pending') = Len(pending) - k + 1
          /\ \A n \in 1..(Len(pending) - k + 1) : pending'[n] = pending[n + k - 1]
        BY <2>1, <2>2, SuffixFacts
    <2>4. /\ Versions \in Seq(Nat) /\ Versions' \in Seq(Nat)
          /\ Len(Versions) = Len(pending) /\ Len(Versions') = Len(pending) - k + 1
          /\ \A n \in 1..Len(pending) : Versions[n] = pending[n].chain
          /\ \A n \in 1..(Len(pending) - k + 1) : Versions'[n] = pending'[n].chain
        <3>1. pending \in Seq(Files) /\ pending' \in Seq(Files)
            BY DEF StorageInv, StorageTypeOK
        <3> QED
            BY <2>3, <3>1, VersionsFacts DEF Versions
    <2>5. \A n \in 1..(Len(pending) - k + 1) : Versions'[n] = Versions[n + k - 1]
        <3>1. \A n \in 1..(Len(pending) - k + 1) : n + k - 1 \in 1..Len(pending)
            BY <2>2
        <3> QED
            BY <2>3, <2>4, <3>1
    <2>6. Versions' = SubSeq(Versions, k, Len(Versions))
        <3> DEFINE rest == SubSeq(Versions, k, Len(Versions))
        <3>1. k \in DOMAIN Versions /\ Len(Versions) = Len(pending)
            BY <2>2, <2>4
        <3>2. /\ rest \in Seq(Nat) /\ Len(rest) = Len(pending) - k + 1
              /\ \A n \in 1..(Len(pending) - k + 1) : rest[n] = Versions[n + k - 1]
            BY <2>4, <3>1, SuffixFacts
        <3> HIDE DEF rest
        <3>3. /\ Len(Versions') = Len(rest)
              /\ \A n \in 1..Len(Versions') : Versions'[n] = rest[n]
            BY <2>4, <2>5, <3>2
        <3>4. Versions' = rest
            BY <2>4, <3>2, <3>3, SeqEqual
        <3> QED
            BY <3>4 DEF rest
    <2>7. k \in DOMAIN Versions
        BY <2>2, <2>4
    <2> QED
        BY <2>6, <2>7 DEF Cell!Harden, Versions, VersionsOf
<1>3. CASE LosePower
    <2>1. PICK n \in DOMAIN pending : pending' = <<pending[n]>>
        BY <1>3, OnDiskIsPending DEF LosePower
    <2>2. DOMAIN pending' = {1} /\ pending'[1] = pending[n]
        BY <2>1
    <2>3. Versions' = [m \in {1} |-> Versions[n]]
        BY <2>1, <2>2 DEF Versions, VersionsOf
    <2>4. Versions' = <<Versions[n]>> /\ n \in DOMAIN Versions
        BY <2>1, <2>3 DEF Versions, VersionsOf
    <2> QED
        BY <2>4 DEF Cell!LosePower, Versions, VersionsOf
<1>4. CASE UNCHANGED pending
    BY <1>4 DEF Versions, VersionsOf
<1>5. ReplaceFile \/ FlushDirectory \/ LosePower \/ UNCHANGED pending
    BY DEF StorageNext, StartValidator, SaveBlocks, Listen, RunTool, OpenTmp, DumpChain,
           FlushTmp, FsyncTmp, ReturnFromSave, FailSave, Kill, storageVars
<1> QED
    BY <1>1, <1>2, <1>3, <1>4, <1>5

\* The steps of save_chain implement a cell that is written at once.
THEOREM ImplementsStorageCellHolds == StorageSpec => ImplementsStorageCell
<1>1. StorageInit => Cell!Init
    BY DEF StorageInit, Cell!Init, LoadChain, Missing
<1>2. StorageInv /\ StorageInv' /\ [StorageNext]_storageVars
         => [Cell!Store \/ Cell!Harden \/ Cell!LosePower]_Versions
    BY NextIsCellNext
<1> QED
    BY <1>1, <1>2, StorageInvHolds, PTL
       DEF StorageSpec, ImplementsStorageCell, Cell!Spec, Versions, VersionsOf

=============================================================================
