------------------------------- MODULE Tamper -------------------------------
(***************************************************************************)
(* tamper.py: one edit of one block of a stored chain, hashes left as they *)
(* are.                                                                    *)
(***************************************************************************)
EXTENDS Blockchain

\* The texts that replace a hash: no block hashes to them.
TAMPERED_PREVIOUS_HASH == [text |-> "TAMPERED_PREVIOUS_HASH"]
TAMPERED_CURRENT_HASH == [text |-> "TAMPERED_CURRENT_HASH"]

TamperTypes == {"log", "previous_hash", "current_hash", "delete"}

\* The first block with this index; the empty set stands for the ValueError.
FindBlockPosition(chain, block_index) ==
    {n \in DOMAIN chain :
        /\ chain[n].index = block_index
        /\ \A m \in 1..(n - 1) : chain[m].index # block_index}

\* "<old message> [TAMPERED]"
TamperLogData(block) == [block EXCEPT !.log_data = [tampered |-> @]]

\* The chain after the edit of the block at this position.
ApplyTamper(chain, position, tamper_type) ==
    CASE tamper_type = "log"           -> [chain EXCEPT ![position] = TamperLogData(@)]
      [] tamper_type = "previous_hash" ->
            [chain EXCEPT ![position].previous_hash = TAMPERED_PREVIOUS_HASH]
      [] tamper_type = "current_hash"  ->
            [chain EXCEPT ![position].current_hash = TAMPERED_CURRENT_HASH]
      [] tamper_type = "delete"        -> RemoveAt(chain, position)

=============================================================================
