---------------------------- MODULE ChainStorage ----------------------------
(***************************************************************************)
(* One chain file, step by step: save_chain and load_chain of blockchain.py *)
(* under the programs that use them, one at a time: a validator, and the   *)
(* tools reset_data.py and tamper.py while the validator is stopped.  Any  *)
(* step may fail, the program may be killed between any two, and the       *)
(* machine may lose its power.                                             *)
(*                                                                         *)
(* A chain is the number of its version, in the order of the saves.  What  *)
(* fsync has not written may be lost with the power; so may a replacement, *)
(* as long as the directory has not reached the disk, which save_chain     *)
(* does not wait for.                                                      *)
(***************************************************************************)
EXTENDS Integers, SequencesExt

CONSTANT MAX_SAVES  \* bound on the saves in a behaviour

ASSUME StorageAssumption == MAX_SAVES \in Nat

VARIABLES
    pending,   \* what the path may hold after a loss of power, oldest first;
               \* the last one is what it holds now
    tmp,       \* the temporary file
    program,   \* who uses the file: see Programs
    step,      \* where save_chain is, "idle" outside of it
    saving,    \* its argument chain
    saves,     \* saves begun so far
    answered   \* the last version whose save was reported as done

storageVars == <<pending, tmp, program, step, saving, saves, answered>>

Programs  == {"none", "starting", "serving", "tool"}
SaveSteps == {"idle", "open", "dump", "flush", "fsync", "replace", "return"}

\* The contents of a file, and whether fsync has written them.
Missing  == [state |-> "missing", chain |-> 0, synced |-> TRUE]
Empty    == [state |-> "empty", chain |-> 0, synced |-> FALSE]
Torn     == [state |-> "torn", chain |-> 0, synced |-> FALSE]
Whole(n) == [state |-> "whole", chain |-> n, synced |-> FALSE]

StorageInit ==
    /\ pending = <<Missing>>
    /\ tmp = Missing
    /\ program = "none"
    /\ step = "idle"
    /\ saving = 0
    /\ saves = 0
    /\ answered = 0

ChainFile == Last(pending)

\* load_chain raises ChainLoadError unless this holds.
Loadable(file) == file.state # "torn"

\* What it returns: a missing and an empty file are empty chains.
LoadChain(file) == file.chain

-----------------------------------------------------------------------------
(* The programs.                                                           *)

\* save_chain is called with a chain that was not saved before.
CallSave ==
    /\ saves < MAX_SAVES
    /\ saves' = saves + 1
    /\ saving' = saves + 1
    /\ step' = "open"

\* A validator whose file is missing begins with an empty one; one that
\* cannot read its file refuses to start.
StartValidator ==
    /\ program = "none"
    /\ Loadable(ChainFile)
    /\ program' = "starting"
    /\ IF ChainFile.state = "missing"
       THEN CallSave
       ELSE UNCHANGED <<saves, saving, step>>
    /\ UNCHANGED <<pending, tmp, answered>>

\* The end of append_synced_blocks, and of handle_commit_block: the file is
\* loaded, blocks are appended, the result is saved.
SaveBlocks ==
    /\ program \in {"starting", "serving"}
    /\ step = "idle"
    /\ Loadable(ChainFile)
    /\ CallSave
    /\ UNCHANGED <<pending, tmp, program, answered>>

Listen ==
    /\ program = "starting"
    /\ step = "idle"
    /\ program' = "serving"
    /\ UNCHANGED <<pending, tmp, step, saving, saves, answered>>

\* reset_data.py, which loads nothing, or tamper.py.
RunTool ==
    /\ program = "none"
    /\ program' = "tool"
    /\ CallSave
    /\ UNCHANGED <<pending, tmp, answered>>

-----------------------------------------------------------------------------
(* save_chain.                                                             *)

At(here, next) ==
    /\ step = here
    /\ step' = next
    /\ UNCHANGED <<program, saving, saves>>

\* Faulty variant: the file itself is opened for writing.
OpenInPlace ==
    /\ At("open", "dump")
    /\ pending' = Append(pending, Empty)
    /\ UNCHANGED <<tmp, answered>>

\* What a failed or killed save left in the temporary file is truncated.
OpenTmp ==
    /\ At("open", "dump")
    /\ tmp' = Empty
    /\ UNCHANGED <<pending, answered>>

\* A part of the text has left the buffer of the file object.
DumpChain ==
    /\ At("dump", "flush")
    /\ tmp' \in {Empty, Torn}
    /\ UNCHANGED <<pending, answered>>

FlushTmp ==
    /\ At("flush", "fsync")
    /\ tmp' = Whole(saving)
    /\ UNCHANGED <<pending, answered>>

\* Faulty variant: fsync is left out.
SkipFsync ==
    /\ At("fsync", "replace")
    /\ UNCHANGED <<pending, tmp, answered>>

FsyncTmp ==
    /\ At("fsync", "replace")
    /\ tmp' = [tmp EXCEPT !.synced = TRUE]
    /\ UNCHANGED <<pending, answered>>

ReplaceFile ==
    /\ At("replace", "return")
    /\ pending' = Append(pending, tmp)
    /\ tmp' = Missing
    /\ UNCHANGED answered

\* Who goes on after a save that succeeded; after one that raised only a
\* serving validator does, for it answers with ERROR.
AfterSave(succeeded) ==
    program' = CASE program = "serving"               -> "serving"
                 [] program = "starting" /\ succeeded -> "starting"
                 [] OTHER                             -> "none"

\* OK is answered, or the tool reports its success.
ReturnFromSave ==
    /\ step = "return"
    /\ step' = "idle"
    /\ answered' = saving
    /\ AfterSave(TRUE)
    /\ UNCHANGED <<pending, tmp, saving, saves>>

\* Faulty variant: the exception is not raised again.
SwallowFailure ==
    /\ step \in {"open", "dump", "flush", "fsync", "replace"}
    /\ step' = "idle"
    /\ answered' = saving
    /\ tmp' \in {Missing, tmp}
    /\ AfterSave(TRUE)
    /\ UNCHANGED <<pending, saving, saves>>

\* A step raises; the temporary file is removed, unless that fails as well.
FailSave ==
    /\ step \in {"open", "dump", "flush", "fsync", "replace"}
    /\ step' = "idle"
    /\ tmp' \in {Missing, tmp}
    /\ AfterSave(FALSE)
    /\ UNCHANGED <<pending, saving, saves, answered>>

-----------------------------------------------------------------------------
(* The environment.                                                        *)

Stop == program' = "none" /\ step' = "idle" /\ UNCHANGED <<saving, saves>>

\* The program ends, or is killed; the files stay as they are.
Kill ==
    /\ program # "none"
    /\ Stop
    /\ UNCHANGED <<pending, tmp, answered>>

\* The directory reaches the disk, with the replacements up to some of them.
FlushDirectory ==
    /\ \E n \in 2..Len(pending) : pending' = SubSeq(pending, n, Len(pending))
    /\ UNCHANGED <<tmp, program, step, saving, saves, answered>>

\* What is on the disk of a file that fsync has not written is anybody's guess.
OnDisk(file) ==
    IF file.synced THEN {file} ELSE {[f EXCEPT !.synced = TRUE] : f \in {file, Empty, Torn}}

LosePower ==
    /\ Stop
    /\ \E n \in DOMAIN pending : \E file \in OnDisk(pending[n]) :
          /\ pending' = <<file>>
          /\ answered' = IF LoadChain(file) < answered THEN LoadChain(file) ELSE answered
    /\ tmp' \in OnDisk(tmp) \cup {Missing}

StorageNext ==
    \/ StartValidator
    \/ SaveBlocks
    \/ Listen
    \/ RunTool
    \/ OpenTmp
    \/ DumpChain
    \/ FlushTmp
    \/ FsyncTmp
    \/ ReplaceFile
    \/ ReturnFromSave
    \/ FailSave
    \/ Kill
    \/ FlushDirectory
    \/ LosePower

StorageSpec == StorageInit /\ [][StorageNext]_storageVars

-----------------------------------------------------------------------------

\* Whenever a program is killed and whenever the power is lost, the file is
\* missing or holds a whole chain: no validator refuses to start, and none
\* takes an empty file, which load_chain accepts, for its chain.
ChainFileIsWhole ==
    \A n \in DOMAIN pending : \A file \in OnDisk(pending[n]) :
        file.state \in {"missing", "whole"}

\* A save that was reported as done is what is loaded later, or a later one
\* is, unless the power was lost: not even a failed save undoes it.
AnsweredSaveIsLoaded == LoadChain(ChainFile) >= answered

Cell == INSTANCE StorageCell WITH
    versions <- [n \in DOMAIN pending |-> LoadChain(pending[n])]

\* The steps of save_chain implement a cell that is written at once.
ImplementsStorageCell == Cell!Spec

=============================================================================
