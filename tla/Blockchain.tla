----------------------------- MODULE Blockchain -----------------------------
(***************************************************************************)
(* The pure functions of blockchain.py: building a block, its commit       *)
(* proof, and the checks every chain goes through.  A chain is a sequence  *)
(* of blocks; position n of the sequence is position n-1 of the Python     *)
(* list, so a well-formed chain has chain[n].index = n-1.                  *)
(*                                                                         *)
(* SHA-256 is ideal: the hash of a payload is the payload itself, so two   *)
(* blocks have equal hashes exactly when the four hashed fields agree.     *)
(* The commit proof is outside the hash, as in the code.                   *)
(***************************************************************************)
EXTENDS Integers, SequencesExt

CONSTANT QUORUM  \* quorum_size, 2 in the code

ASSUME QuorumAssumption == QUORUM \in Nat \ {0}

\* "0" * 64, the previous_hash of block 0: no payload has this hash.
GENESIS_PREVIOUS_HASH == [zeros |-> 64]

BlockFields ==
    {"index", "timestamp", "log_data", "previous_hash", "current_hash",
     "commit_proof"}

\* A block that carries no "commit_proof" key.
NoProof == [quorum |-> 0, acks |-> <<>>]

CalculateBlockHash(block) ==
    [index         |-> block.index,
     timestamp     |-> block.timestamp,
     log_data      |-> block.log_data,
     previous_hash |-> block.previous_hash]

CreateBlock(index, timestamp, log_data, previous_hash) ==
    LET payload == [index |-> index, timestamp |-> timestamp,
                    log_data |-> log_data, previous_hash |-> previous_hash]
    IN  [index         |-> index,
         timestamp     |-> timestamp,
         log_data      |-> log_data,
         previous_hash |-> previous_hash,
         current_hash  |-> CalculateBlockHash(payload),
         commit_proof  |-> NoProof]

AddCommitProof(block, acks) ==
    [block EXCEPT !.commit_proof = [quorum |-> QUORUM, acks |-> acks]]

\* No error was collected: the proof claims at least the quorum, holds that
\* many ACKs, all for this very block and all of different validators.
ValidateCommitProof(block) ==
    LET proof == block.commit_proof
        acks  == proof.acks
    IN  /\ proof.quorum >= QUORUM
        /\ Len(acks) >= QUORUM
        /\ Len(acks) >= proof.quorum
        /\ \A m, n \in DOMAIN acks :
              m # n => acks[m].validator_id # acks[n].validator_id
        /\ \A n \in DOMAIN acks : /\ acks[n].block_index = block.index
                                  /\ acks[n].block_hash = block.current_hash

GetLatestHash(chain) ==
    IF chain = <<>> THEN GENESIS_PREVIOUS_HASH ELSE chain[Len(chain)].current_hash

GetLatestIndex(chain) ==
    IF chain = <<>> THEN -1 ELSE chain[Len(chain)].index

\* Faulty variant: off by one.
GetBlocksAfterNextIndex(chain, latest_index) ==
    {chain[n] : n \in {m \in DOMAIN chain : chain[m].index > latest_index + 1}}

\* The result travels as a set: the receiver sorts it by index before use.
GetBlocksAfterIndex(chain, latest_index) ==
    {chain[n] : n \in {m \in DOMAIN chain : chain[m].index > latest_index}}

\* The empty set stands for None, the singleton for the first match.
FindBlockByIndex(chain, index) ==
    {chain[n] : n \in {m \in DOMAIN chain :
                          /\ chain[m].index = index
                          /\ \A k \in 1..(m-1) : chain[k].index # index}}

\* Faulty variant: the link to the previous block is not compared.
VerifyBlockUnlinked(block, previous) ==
    /\ block.index = GetLatestIndex(previous) + 1
    /\ block.current_hash = CalculateBlockHash(block)

\* Faulty variant: the hash of the block is not computed again.
VerifyBlockWithoutHash(block, previous) ==
    /\ block.index = GetLatestIndex(previous) + 1
    /\ block.previous_hash = GetLatestHash(previous)

\* verify_block_detailed found no error; "previous" is the chain that ends
\* in previous_block, empty when there is none.
VerifyBlock(block, previous) ==
    /\ block.index = GetLatestIndex(previous) + 1
    /\ block.previous_hash = GetLatestHash(previous)
    /\ block.current_hash = CalculateBlockHash(block)

\* Faulty variant: only the block's own hash is checked.
ValidateHashOnly(chain, block) == block.current_hash = CalculateBlockHash(block)

\* Faulty variant: its own hash and index are checked, the link is not.
ValidateUnlinked(chain, block) == VerifyBlockUnlinked(block, chain)

ValidateNextBlock(chain, block) == VerifyBlock(block, chain)

\* Faulty variant: a block that is not there yet is appended, gap or not.
AppendWithoutGapCheck(chain, block) ==
    IF FindBlockByIndex(chain, block.index) = {} THEN "appended" ELSE "skipped"

\* The action of append_block_idempotent; "appended" and "skipped" succeed.
AppendBlockIdempotent(chain, block) ==
    LET existing == FindBlockByIndex(chain, block.index)
        expected == GetLatestIndex(chain) + 1
    IN  IF \E b \in existing : b.current_hash = block.current_hash THEN "skipped"
        ELSE IF existing # {} THEN "conflict"
        ELSE IF block.index > expected THEN "gap"
        ELSE IF block.index < expected THEN "conflict"
        ELSE IF ValidateNextBlock(chain, block) THEN "appended"
        ELSE "invalid"

\* What the call leaves in its chain argument.
ChainAfterAppend(chain, block) ==
    IF AppendBlockIdempotent(chain, block) = "appended" THEN Append(chain, block)
                                                        ELSE chain

VerifyChain(chain) ==
    \A n \in DOMAIN chain : VerifyBlock(chain[n], SubSeq(chain, 1, n-1))

-----------------------------------------------------------------------------
(* Types.  Hashes are nested payloads, so there is no finite set of them:  *)
(* a block is typed field by field and a sequence by its own range.        *)

IsSeq(s) == s \in Seq(Range(s))

IsProof(proof) ==
    /\ proof = [quorum |-> proof.quorum, acks |-> proof.acks]
    /\ proof.quorum \in Nat
    /\ IsSeq(proof.acks)

IsBlock(block) ==
    /\ DOMAIN block = BlockFields
    /\ block.index \in Int
    /\ IsProof(block.commit_proof)

IsChain(chain) == IsSeq(chain) /\ \A n \in DOMAIN chain : IsBlock(chain[n])

\* Every block stands at the position its index names.
Indexed(chain) == \A n \in 1..Len(chain) : chain[n].index = n - 1

=============================================================================
