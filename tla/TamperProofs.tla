----------------------------- MODULE TamperProofs -----------------------------
(***************************************************************************)
(* TamperInv is an invariant of TamperSpec, for every value of the         *)
(* constants, and what follows from it: edited blocks stay in the file     *)
(* they were edited in, and the audit tells the truth.  The set that holds *)
(* every intact block is now the producer's chain itself.                  *)
(***************************************************************************)
EXTENDS RestartProofs, TamperedReplication

-----------------------------------------------------------------------------
(* Edits of a chain.                                                       *)

\* A chain that verifies and has only blocks of an indexed chain begins it.
LEMMA VerifiedAmongIsPrefix ==
    ASSUME NEW s, IsSeq(s), VerifyChain(s), NEW t, IsSeq(t), Indexed(t),
           Range(s) \subseteq Range(t)
    PROVE  IsPrefix(s, t)
<1>1. /\ Len(s) \in Nat /\ DOMAIN s = 1..Len(s)
      /\ Len(t) \in Nat /\ DOMAIN t = 1..Len(t)
    BY SeqFacts
<1>2. Indexed(s)
    BY VerifiedIsIndexed
<1>3. ASSUME NEW n \in 1..Len(s)
      PROVE  n \in 1..Len(t) /\ s[n] = t[n]
    <2>1. s[n] \in Range(t)
        BY <1>1 DEF Range
    <2>2. PICK k \in 1..Len(t) : s[n] = t[k]
        BY <1>1, <2>1 DEF Range
    <2>3. s[n].index = n - 1 /\ t[k].index = k - 1
        BY <1>2 DEF Indexed
    <2>4. k = n
        BY <2>2, <2>3
    <2> QED
        BY <2>2, <2>4
<1>4. Len(s) <= Len(t)
    <2>1. CASE Len(s) = 0
        BY <1>1, <2>1
    <2>2. CASE Len(s) # 0
        <3>1. Len(s) \in 1..Len(s)
            BY <1>1, <2>2
        <3> QED
            BY <1>1, <1>3, <3>1
    <2> QED
        BY <2>1, <2>2
<1> QED
    BY <1>3, <1>4, PrefixFacts

\* One position of a chain changes.
LEMMA ReplacedFacts ==
    ASSUME NEW chain, IsSeq(chain), NEW n \in DOMAIN chain,
           NEW edited, edited = [k \in DOMAIN chain |-> edited[k]]
    PROVE  IsSeq(edited) /\ Len(edited) = Len(chain) /\ n \in 1..Len(chain)
<1>1. Len(chain) \in Nat /\ DOMAIN chain = 1..Len(chain)
    BY SeqFacts
<1>2. edited = [k \in 1..Len(chain) |-> edited[k]]
    BY <1>1
<1> QED
    BY <1>1, <1>2, FunctionIsSeq

\* chain.pop(position)
LEMMA RemovedFacts ==
    ASSUME NEW chain, IsSeq(chain), NEW n \in DOMAIN chain,
           NEW edited, edited = RemoveAt(chain, n)
    PROVE  /\ IsSeq(edited) /\ Len(edited) = Len(chain) - 1
           /\ n \in 1..Len(chain)
           /\ \A k \in 1..(n - 1) : edited[k] = chain[k]
           /\ \A k \in n..(Len(chain) - 1) : edited[k] = chain[k + 1]
<1>1. Len(chain) \in Nat /\ DOMAIN chain = 1..Len(chain)
    BY SeqFacts
<1>2. \A k \in 1..Len(chain) : chain[k] \in Range(chain)
    BY <1>1 DEF Range
<1> DEFINE left == SubSeq(chain, 1, n - 1)
           right == SubSeq(chain, n + 1, Len(chain))
<1>3. /\ left \in Seq(Range(chain))
      /\ Len(left) = n - 1
      /\ \A k \in 1..(n - 1) : left[k] = chain[k]
    <2>1. 1 \in Int /\ n - 1 \in Int /\ \A k \in 1..(n - 1) : chain[k] \in Range(chain)
        BY <1>1, <1>2
    <2>2. /\ left \in Seq(Range(chain))
          /\ Len(left) = IF 1 <= n - 1 THEN (n - 1) - 1 + 1 ELSE 0
          /\ \A k \in 1..((n - 1) - 1 + 1) : left[k] = chain[1 + k - 1]
        BY <2>1, SubSeqProperties
    <2> HIDE DEF left
    <2> QED
        BY <1>1, <2>2
<1>4. /\ right \in Seq(Range(chain))
      /\ Len(right) = Len(chain) - n
      /\ \A k \in 1..(Len(chain) - n) : right[k] = chain[n + k]
    <2>1. /\ n + 1 \in Int /\ Len(chain) \in Int
          /\ \A k \in (n + 1)..Len(chain) : chain[k] \in Range(chain)
        BY <1>1, <1>2
    <2>2. /\ right \in Seq(Range(chain))
          /\ Len(right) = IF n + 1 <= Len(chain) THEN Len(chain) - (n + 1) + 1 ELSE 0
          /\ \A k \in 1..(Len(chain) - (n + 1) + 1) : right[k] = chain[(n + 1) + k - 1]
        BY <2>1, SubSeqProperties
    <2> HIDE DEF right
    <2>3. Len(right) = Len(chain) - n
        BY <1>1, <2>2
    <2>4. \A k \in 1..(Len(chain) - n) : (n + 1) + k - 1 = n + k
        BY <1>1
    <2>5. Len(chain) - (n + 1) + 1 = Len(chain) - n
        BY <1>1
    <2> QED
        BY <2>2, <2>3, <2>4, <2>5
<1>5. edited = left \o right
    BY DEF RemoveAt
<1> HIDE DEF left, right
<1>6. /\ edited \in Seq(Range(chain))
      /\ Len(edited) = Len(left) + Len(right)
      /\ \A k \in 1..(Len(left) + Len(right)) :
            edited[k] = IF k <= Len(left) THEN left[k] ELSE right[k - Len(left)]
    BY <1>3, <1>4, <1>5, ConcatProperties
<1>7. IsSeq(edited)
    BY <1>6, SeqOfRange DEF IsSeq
<1>8. Len(edited) = Len(chain) - 1
    BY <1>1, <1>3, <1>4, <1>6
<1>9. \A k \in 1..(n - 1) : edited[k] = chain[k]
    BY <1>1, <1>3, <1>4, <1>6
<1>10. ASSUME NEW k \in n..(Len(chain) - 1)
       PROVE  edited[k] = chain[k + 1]
    <2>1. /\ k \in 1..(Len(left) + Len(right)) /\ ~(k <= Len(left))
          /\ k - Len(left) \in 1..(Len(chain) - n)
          /\ n + (k - Len(left)) = k + 1
        BY <1>1, <1>3, <1>4
    <2> QED
        BY <1>4, <1>6, <2>1
<1> QED
    BY <1>1, <1>7, <1>8, <1>9, <1>10

\* The edited block.
EditedBlock(block, tamper_type) ==
    CASE tamper_type = "log"           -> TamperLogData(block)
      [] tamper_type = "previous_hash" ->
            [block EXCEPT !.previous_hash = TAMPERED_PREVIOUS_HASH]
      [] tamper_type = "current_hash"  ->
            [block EXCEPT !.current_hash = TAMPERED_CURRENT_HASH]

\* apply_tamper replaces one block or removes it.
LEMMA ApplyTamperCases ==
    ASSUME NEW chain, NEW n \in DOMAIN chain, NEW type \in TamperTypes
    PROVE  ApplyTamper(chain, n, type) =
              IF type = "delete" THEN RemoveAt(chain, n)
                                 ELSE [chain EXCEPT ![n] = EditedBlock(chain[n], type)]
BY DEF ApplyTamper, EditedBlock, TamperTypes

\* An edited chain is still a chain: load_chain reads it.
LEMMA EditedIsChain ==
    ASSUME NEW chain, IsChain(chain), NEW n \in DOMAIN chain, NEW type \in TamperTypes
    PROVE  IsChain(ApplyTamper(chain, n, type))
<1> DEFINE b == EditedBlock(chain[n], type)
           edited == ApplyTamper(chain, n, type)
<1>1. IsSeq(chain) /\ Len(chain) \in Nat /\ DOMAIN chain = 1..Len(chain)
      /\ \A k \in 1..Len(chain) : IsBlock(chain[k])
    BY SeqFacts DEF IsChain
<1>2. CASE type = "delete"
    <2>1. edited = RemoveAt(chain, n)
        BY <1>2, ApplyTamperCases
    <2> HIDE DEF edited
    <2>2. /\ IsSeq(edited) /\ Len(edited) = Len(chain) - 1
          /\ n \in 1..Len(chain)
          /\ \A k \in 1..(n - 1) : edited[k] = chain[k]
          /\ \A k \in n..(Len(chain) - 1) : edited[k] = chain[k + 1]
        BY <1>1, <2>1, RemovedFacts
    <2>3. DOMAIN edited = 1..(Len(chain) - 1)
        BY <2>2, SeqFacts
    <2>4. ASSUME NEW k \in 1..(Len(chain) - 1)
          PROVE  IsBlock(edited[k])
        <3>1. CASE k < n
            BY <1>1, <2>2, <3>1
        <3>2. CASE ~(k < n)
            BY <1>1, <2>2, <3>2
        <3> QED
            BY <3>1, <3>2
    <2>5. IsChain(edited)
        BY <2>2, <2>3, <2>4 DEF IsChain
    <2> QED
        BY <2>5 DEF edited
<1>3. CASE type # "delete"
    <2>1. edited = [chain EXCEPT ![n] = b]
        BY <1>3, ApplyTamperCases
    <2>2. IsBlock(chain[n])
        BY <1>1
    <2>3. IsBlock(b)
        BY <1>3, <2>2 DEF EditedBlock, TamperTypes, TamperLogData, IsBlock, BlockFields
    <2> HIDE DEF b
    <2>4. /\ IsSeq(edited) /\ Len(edited) = Len(chain)
          /\ edited[n] = b
          /\ \A k \in 1..Len(chain) : k # n => edited[k] = chain[k]
        <3>1. edited = [k \in DOMAIN chain |-> edited[k]]
            BY <1>1, <2>1
        <3>2. edited[n] = b /\ \A k \in DOMAIN chain : k # n => edited[k] = chain[k]
            BY <1>1, <2>1
        <3> HIDE DEF edited
        <3> QED
            BY <1>1, <3>1, <3>2, ReplacedFacts
    <2> HIDE DEF edited
    <2>5. DOMAIN edited = 1..Len(chain)
        BY <2>4, SeqFacts
    <2>6. IsChain(edited)
        BY <1>1, <2>3, <2>4, <2>5 DEF IsChain
    <2> QED
        BY <2>6 DEF edited
<1> QED
    BY <1>2, <1>3

\* A block that was edited in place does not verify any more.
LEMMA EditedBlockFails ==
    ASSUME NEW chain, IsChain(chain), VerifyChain(chain), NEW n \in DOMAIN chain,
           chain[n].log_data \in LOGS,
           NEW type \in TamperTypes \ {"delete"}
    PROVE  ~VerifyChain(ApplyTamper(chain, n, type))
<1> DEFINE b == EditedBlock(chain[n], type)
           edited == ApplyTamper(chain, n, type)
<1>1. edited = [chain EXCEPT ![n] = b]
    BY ApplyTamperCases
<1>2. /\ DOMAIN chain[n] = BlockFields
      /\ chain[n].current_hash = CalculateBlockHash(chain[n])
      /\ chain[n].previous_hash = GENESIS_PREVIOUS_HASH
         \/ \E m \in 1..Len(chain) : chain[n].previous_hash = CalculateBlockHash(chain[m])
    <2>1. IsSeq(chain) /\ DOMAIN chain = 1..Len(chain) /\ Len(chain) \in Nat
        BY SeqFacts DEF IsChain
    <2>2. /\ chain[n].current_hash = CalculateBlockHash(chain[n])
          /\ chain[n].previous_hash = IF n = 1 THEN GENESIS_PREVIOUS_HASH
                                               ELSE chain[n - 1].current_hash
        BY <2>1, VerifyChainParts
    <2>3. n # 1 => n - 1 \in 1..Len(chain)
        BY <2>1
    <2>4. n # 1 => chain[n - 1].current_hash = CalculateBlockHash(chain[n - 1])
        BY <2>1, <2>3, VerifyChainParts
    <2> QED
        BY <2>2, <2>3, <2>4 DEF IsChain, IsBlock
<1>3. b.current_hash # CalculateBlockHash(b)
    <2>1. CASE type = "log"
        <3>1. /\ b = [chain[n] EXCEPT !.log_data = [tampered |-> chain[n].log_data]]
              /\ b.current_hash = chain[n].current_hash
              /\ b.log_data = [tampered |-> chain[n].log_data]
            BY <1>2, <2>1 DEF EditedBlock, TamperLogData, BlockFields
        <3>2. b.log_data # chain[n].log_data
            BY <3>1, TamperAssumption
        <3>3. CalculateBlockHash(b).log_data # CalculateBlockHash(chain[n]).log_data
            BY <3>2 DEF CalculateBlockHash
        <3> QED
            BY <1>2, <3>1, <3>3
    <2>2. CASE type = "previous_hash"
        <3>1. /\ b.current_hash = chain[n].current_hash
              /\ b.previous_hash = TAMPERED_PREVIOUS_HASH
            BY <1>2, <2>2 DEF EditedBlock, BlockFields
        <3>2. "text" \in DOMAIN TAMPERED_PREVIOUS_HASH
            BY DEF TAMPERED_PREVIOUS_HASH
        <3>3. "text" \notin DOMAIN GENESIS_PREVIOUS_HASH
            BY DEF GENESIS_PREVIOUS_HASH
        <3>4. \A m \in 1..Len(chain) : "text" \notin DOMAIN CalculateBlockHash(chain[m])
            BY DEF CalculateBlockHash
        <3>5. b.previous_hash # chain[n].previous_hash
            BY <1>2, <3>1, <3>2, <3>3, <3>4
        <3>6. CalculateBlockHash(b).previous_hash # CalculateBlockHash(chain[n]).previous_hash
            BY <3>5 DEF CalculateBlockHash
        <3> QED
            BY <1>2, <3>1, <3>6
    <2>3. CASE type = "current_hash"
        <3>1. b.current_hash = TAMPERED_CURRENT_HASH
            BY <1>2, <2>3 DEF EditedBlock, BlockFields
        <3>2. "text" \in DOMAIN TAMPERED_CURRENT_HASH
            BY DEF TAMPERED_CURRENT_HASH
        <3>3. "text" \notin DOMAIN CalculateBlockHash(b)
            BY DEF CalculateBlockHash
        <3> QED
            BY <3>1, <3>2, <3>3
    <2> QED
        BY <2>1, <2>2, <2>3 DEF TamperTypes
<1> HIDE DEF b
<1>4. IsSeq(edited) /\ Len(edited) = Len(chain) /\ n \in 1..Len(chain) /\ edited[n] = b
    <2>1. IsSeq(chain)
        BY DEF IsChain
    <2>2. Len(chain) \in Nat /\ DOMAIN chain = 1..Len(chain)
        BY <2>1, SeqFacts
    <2>3. chain = [k \in 1..Len(chain) |-> chain[k]]
        BY <2>1, SeqFacts
    <2>4. edited = [k \in DOMAIN chain |-> edited[k]]
        BY <1>1, <2>2, <2>3
    <2>5. edited[n] = b
        BY <1>1
    <2> HIDE DEF edited
    <2> QED
        BY <2>1, <2>4, <2>5, ReplacedFacts
<1> HIDE DEF edited
<1>5. ~VerifyChain(edited)
    BY <1>3, <1>4, VerifyChainParts
<1> QED
    BY <1>5 DEF edited

\* Only the removal of the latest block goes unnoticed: the chain is then
\* one that was stored before.
LEMMA EditLeavesPrefix ==
    ASSUME NEW chain, IsChain(chain), VerifyChain(chain),
           \A b \in Range(chain) : b.log_data \in LOGS,
           NEW n \in DOMAIN chain, NEW type \in TamperTypes,
           VerifyChain(ApplyTamper(chain, n, type))
    PROVE  IsPrefix(ApplyTamper(chain, n, type), chain)
<1> DEFINE edited == ApplyTamper(chain, n, type)
<1>1. IsSeq(chain) /\ Len(chain) \in Nat /\ DOMAIN chain = 1..Len(chain)
    BY SeqFacts DEF IsChain
<1>2. chain[n].log_data \in LOGS
    BY DEF Range
<1>3. type = "delete"
    BY <1>2, EditedBlockFails
<1>4. edited = RemoveAt(chain, n) /\ VerifyChain(edited)
    BY <1>3, ApplyTamperCases
<1> HIDE DEF edited
<1>5. /\ IsSeq(edited) /\ Len(edited) = Len(chain) - 1
      /\ n \in 1..Len(chain)
      /\ \A k \in 1..(n - 1) : edited[k] = chain[k]
      /\ \A k \in n..(Len(chain) - 1) : edited[k] = chain[k + 1]
    BY <1>1, <1>4, RemovedFacts
<1>6. Indexed(chain) /\ Indexed(edited)
    BY <1>1, <1>4, <1>5, VerifiedIsIndexed
<1>7. n = Len(chain)
    <2>1. SUFFICES ASSUME n \in 1..(Len(chain) - 1) PROVE FALSE
        BY <1>1, <1>5
    <2>2. edited[n] = chain[n + 1]
        BY <1>1, <1>5, <2>1
    <2>3. edited[n].index = n - 1
        BY <1>5, <1>6, <2>1 DEF Indexed
    <2>4. chain[n + 1].index = n
        <3>1. n + 1 \in 1..Len(chain) /\ (n + 1) - 1 = n
            BY <1>1, <2>1
        <3> QED
            BY <1>6, <3>1 DEF Indexed
    <2> QED
        BY <1>1, <1>5, <2>2, <2>3, <2>4
<1>8. Len(edited) <= Len(chain) /\ \A k \in 1..Len(edited) : edited[k] = chain[k]
    BY <1>1, <1>5, <1>7
<1>9. IsPrefix(edited, chain)
    BY <1>1, <1>5, <1>8, PrefixFacts
<1> QED
    BY <1>9 DEF edited

-----------------------------------------------------------------------------
(* Types and calls.                                                        *)

\* A step of TamperSpec is one of the system, an edit, or one of the audit.
LEMMA TamperSteps ==
    ASSUME [TamperNext]_tamperVars
    PROVE  \/ [Next]_vars /\ UNCHANGED <<tampered, audit, audit_start>>
           \/ \E v \in Validators : TamperFile(v)
           \/ (AuditNextFile \/ EndAudit) /\ UNCHANGED <<vars, tampered>>
BY DEF TamperNext, tamperVars, AuditNextFile, EndAudit, LoadNextFile, PrintVerdict

\* What an edit does.
LEMMA TamperFileFacts ==
    ASSUME ValidatorTypeOK, NEW v \in Validators, TamperFile(v)
    PROVE  /\ v \notin tampered /\ tampered' = tampered \cup {v}
           /\ DropSockets(v)
           /\ UNCHANGED <<producerVars, faults, audit, audit_start>>
           /\ \A w \in Validators : sync'[w] = IF w = v THEN NoSync ELSE sync[w]
           /\ \E n \in DOMAIN chain_file[v] : \E type \in TamperTypes :
                 /\ chain_file' = [chain_file EXCEPT ![v] = ApplyTamper(chain_file[v], n, type)]
                 /\ \A w \in Validators :
                       chain_file'[w] = IF w = v THEN ApplyTamper(chain_file[v], n, type)
                                                 ELSE chain_file[w]
<1>1. PICK block_index \in 0..GetLatestIndex(chain_file[v]), type \in TamperTypes :
         \E position \in FindBlockPosition(chain_file[v], block_index) :
            chain_file' = [chain_file EXCEPT ![v] = ApplyTamper(chain_file[v], position, type)]
    BY DEF TamperFile
<1>2. PICK n \in FindBlockPosition(chain_file[v], block_index) :
         chain_file' = [chain_file EXCEPT ![v] = ApplyTamper(chain_file[v], n, type)]
    BY <1>1
<1>3. n \in DOMAIN chain_file[v]
    BY <1>2 DEF FindBlockPosition
<1> DEFINE c == ApplyTamper(chain_file[v], n, type)
<1>4. chain_file' = [chain_file EXCEPT ![v] = c]
    BY <1>2
<1> HIDE DEF c
<1>5. \A w \in Validators : chain_file'[w] = IF w = v THEN c ELSE chain_file[w]
    BY <1>4 DEF ValidatorTypeOK
<1>6. \A w \in Validators : sync'[w] = IF w = v THEN NoSync ELSE sync[w]
    BY DEF TamperFile, ValidatorTypeOK
<1>7. /\ v \notin tampered /\ tampered' = tampered \cup {v}
      /\ DropSockets(v)
      /\ UNCHANGED <<producerVars, faults, audit, audit_start>>
    BY DEF TamperFile
<1> QED
    BY <1>3, <1>4, <1>5, <1>6, <1>7 DEF c

\* An edit keeps the types.
LEMMA TamperFileType ==
    ASSUME TypeOK, NEW v \in Validators, TamperFile(v)
    PROVE  TypeOK'
<1>1. NetworkTypeOK'
    BY DropSocketsType, TamperFileFacts DEF TypeOK
<1>2. ProducerTypeOK'
    BY TamperFileFacts DEF TypeOK, ProducerTypeOK, producerVars
<1>3. ValidatorTypeOK'
    <2>1. PICK n \in DOMAIN chain_file[v], type \in TamperTypes :
             /\ chain_file' = [chain_file EXCEPT ![v] = ApplyTamper(chain_file[v], n, type)]
             /\ \A w \in Validators :
                   chain_file'[w] = IF w = v THEN ApplyTamper(chain_file[v], n, type)
                                             ELSE chain_file[w]
        BY TamperFileFacts DEF TypeOK
    <2> DEFINE c == ApplyTamper(chain_file[v], n, type)
    <2>2. IsChain(c)
        BY EditedIsChain DEF TypeOK, ValidatorTypeOK
    <2>3. chain_file' = [chain_file EXCEPT ![v] = c]
        BY <2>1
    <2>4. sync' = [sync EXCEPT ![v] = NoSync] /\ faults' = faults
        BY DEF TamperFile
    <2> HIDE DEF c
    <2> QED
        BY <2>2, <2>3, <2>4, NoSyncType DEF TypeOK, ValidatorTypeOK
<1> QED
    BY <1>1, <1>2, <1>3 DEF TypeOK

\* Every step keeps the types.
LEMMA TamperNextType ==
    ASSUME TypeOK, [TamperNext]_tamperVars
    PROVE  TypeOK'
<1>1. CASE [Next]_vars
    BY <1>1, NextType DEF NextWithRestarts
<1>2. CASE \E v \in Validators : TamperFile(v)
    BY <1>2, TamperFileType
<1>3. CASE UNCHANGED vars
    BY <1>3, NextType
<1> QED
    BY <1>1, <1>2, <1>3, TamperSteps

\* Every step keeps calls apart.
LEMMA TamperNextCalls ==
    ASSUME TypeOK, OneCallAtATime, [TamperNext]_tamperVars
    PROVE  OneCallAtATime'
<1>1. CASE [Next]_vars
    BY <1>1, NextCalls DEF NextWithRestarts
<1>2. CASE \E v \in Validators : TamperFile(v)
    BY <1>2, DropSocketsCalls DEF TypeOK, TamperFile
<1>3. CASE UNCHANGED vars
    BY <1>3, NextCalls
<1> QED
    BY <1>1, <1>2, <1>3, TamperSteps

\* Types and calls, for every reachable state.
LEMMA TamperTypesHold == TamperSpec => [](TypeOK /\ OneCallAtATime)
<1>1. TamperInit => TypeOK /\ OneCallAtATime
    BY InitType, InitCalls DEF TamperInit
<1>2. (TypeOK /\ OneCallAtATime) /\ [TamperNext]_tamperVars => (TypeOK /\ OneCallAtATime)'
    BY TamperNextType, TamperNextCalls
<1> QED
    BY <1>1, <1>2, PTL DEF TamperSpec

-----------------------------------------------------------------------------
(* The producer's chain and its candidate.                                 *)

\* A chain and one more block.
LEMMA LongerRange ==
    ASSUME NEW chain, IsSeq(chain), NEW b
    PROVE  /\ Range(chain) \subseteq Range(Append(chain, b))
           /\ b \in Range(Append(chain, b))
<1> DEFINE longer == Append(chain, b)
<1>1. Len(chain) \in Nat /\ DOMAIN chain = 1..Len(chain)
    BY SeqFacts
<1>2. /\ DOMAIN longer = 1..(Len(chain) + 1)
      /\ \A n \in 1..Len(chain) : longer[n] = chain[n]
      /\ longer[Len(chain) + 1] = b
    BY AppendFacts
<1> HIDE DEF longer
<1>3. Range(chain) \subseteq Range(longer) /\ b \in Range(longer)
    BY <1>1, <1>2 DEF Range
<1> QED
    BY <1>3 DEF longer

\* The candidate gets its proof and the next index.
LEMMA AppendCandidateChain ==
    ASSUME ProducerTypeOK, CandidateInv, LoggedInv, AppendCandidate
    PROVE  /\ CandidateInv' /\ LoggedInv'
           /\ IsPrefix(producer_chain, producer_chain')
           /\ Range(producer_chain) \subseteq Range(producer_chain')
           /\ Len(producer_chain') = Len(producer_chain) + 1
<1> DEFINE longer == Append(producer_chain, candidate')
<1>1. producer_chain' = longer /\ step = "propose" /\ step' = "commit"
    BY DEF AppendCandidate
<1>2. IsSeq(producer_chain)
    BY DEF ProducerTypeOK, IsChain
<1>3. Len(producer_chain) \in Nat /\ DOMAIN producer_chain = 1..Len(producer_chain)
    BY <1>2, SeqFacts
<1>4. /\ IsSeq(longer)
      /\ Len(longer) = Len(producer_chain) + 1
      /\ DOMAIN longer = 1..(Len(producer_chain) + 1)
      /\ \A n \in 1..Len(producer_chain) : longer[n] = producer_chain[n]
      /\ longer[Len(producer_chain) + 1] = candidate'
    BY <1>2, AppendFacts
<1>5. IsPrefix(producer_chain, longer)
    BY <1>2, PrefixOrder
<1>6. Range(producer_chain) \subseteq Range(longer) /\ candidate' \in Range(longer)
    BY <1>2, LongerRange
<1> HIDE DEF longer
<1>7. candidate'.index = Len(producer_chain) /\ candidate'.log_data \in LOGS
    <2>1. candidate' = AddCommitProof(candidate, acks) /\ DOMAIN candidate = BlockFields
        BY DEF AppendCandidate, ProducerTypeOK, IsBlock
    <2>2. candidate'.index = candidate.index /\ candidate'.log_data = candidate.log_data
        BY <2>1 DEF AddCommitProof, BlockFields
    <2> QED
        BY <1>1, <2>2 DEF CandidateInv, LoggedInv
<1>8. Indexed(longer)
    BY <1>3, <1>4, <1>7 DEF Indexed, CandidateInv
<1>9. \A n \in DOMAIN longer : longer[n].log_data \in LOGS
    BY <1>3, <1>4, <1>7 DEF LoggedInv
<1>10. CandidateInv'
    BY <1>1, <1>6, <1>8 DEF CandidateInv
<1>11. LoggedInv'
    BY <1>1, <1>7, <1>9 DEF LoggedInv
<1> QED
    BY <1>1, <1>4, <1>5, <1>6, <1>10, <1>11

\* No step drops a block of the producer; only AppendCandidate adds one.
LEMMA ChainSteps ==
    ASSUME TypeOK, CandidateInv, LoggedInv, [Next]_vars
    PROVE  /\ CandidateInv' /\ LoggedInv'
           /\ IsPrefix(producer_chain, producer_chain')
           /\ Range(producer_chain) \subseteq Range(producer_chain')
           /\ \/ producer_chain' = producer_chain
              \/ /\ AppendCandidate /\ UNCHANGED chain_file
                 /\ Len(producer_chain') = Len(producer_chain) + 1
<1> USE DEF TypeOK
<1>1. CASE HandleLog /\ AppendCandidate
    BY <1>1, AppendCandidateChain DEF HandleLog, validatorVars
<1>2. ASSUME producer_chain' = producer_chain, CandidateInv', LoggedInv'
      PROVE  /\ IsPrefix(producer_chain, producer_chain')
             /\ Range(producer_chain) \subseteq Range(producer_chain')
    BY <1>2, PrefixOrder DEF ProducerTypeOK, IsChain
<1>3. CASE \E log \in LOGS : AcceptLog(log)
    <2>1. PICK log \in LOGS : ReceiveLog(log)
        BY <1>3 DEF AcceptLog
    <2>2. Len(producer_chain) \in Int
        BY SeqFacts DEF ProducerTypeOK, IsChain
    <2>3. /\ candidate' = CreateBlock(Len(producer_chain), clock, log,
                                      GetLatestHash(producer_chain))
          /\ step' = "propose" /\ producer_chain' = producer_chain
        BY <2>1 DEF ReceiveLog
    <2>4. /\ candidate'.index = Len(producer_chain)
          /\ candidate'.current_hash = CalculateBlockHash(candidate')
        BY <2>2, <2>3, CreateBlockFacts
    <2>5. candidate'.log_data \in LOGS
        BY <2>3 DEF CreateBlock
    <2>6. CandidateInv' /\ LoggedInv'
        BY <2>3, <2>4, <2>5 DEF CandidateInv, LoggedInv
    <2> QED
        BY <1>2, <2>3, <2>6
<1>4. CASE HandleLog /\ ~AppendCandidate
    <2>1. CASE AbortCommit \/ FinishCommit
        <3>1. step' = "accept" /\ producer_chain' = producer_chain
            BY <2>1 DEF AbortCommit, FinishCommit, AcceptNext
        <3>2. CandidateInv' /\ LoggedInv'
            BY <3>1 DEF CandidateInv, LoggedInv
        <3> QED
            BY <1>2, <3>1, <3>2
    <2>2. CASE ProposeBlock \/ CommitBlock \/ CollectAck \/ IgnoreCommitReply
        <3>1. UNCHANGED <<producer_chain, step, candidate>>
            BY <2>2 DEF ProposeBlock, CommitBlock, CollectAck, IgnoreCommitReply, producerVars
        <3>2. CandidateInv' /\ LoggedInv'
            BY <3>1 DEF CandidateInv, LoggedInv
        <3> QED
            BY <1>2, <3>1, <3>2
    <2> QED
        BY <1>4, <2>1, <2>2 DEF HandleLog
<1>5. CASE \/ \E v \in Validators : Serve(v) \/ Synchronise(v) \/ Environment(v)
           \/ \E r \in Callers : CallEnds(r)
           \/ UNCHANGED vars
    <2>1. UNCHANGED producerVars
        BY <1>5 DEF Serve, Synchronise, Environment, CallEnds, vars
    <2>2. UNCHANGED <<producer_chain, step, candidate>>
        BY <2>1 DEF producerVars
    <2>3. CandidateInv' /\ LoggedInv'
        BY <2>2 DEF CandidateInv, LoggedInv
    <2> QED
        BY <1>2, <2>2, <2>3
<1> QED
    BY <1>1, <1>3, <1>4, <1>5 DEF Next

-----------------------------------------------------------------------------
(* What the invariant says of files, and how its parts survive a step.     *)

\* Sequences everywhere.
LEMMA TamperSeqs ==
    ASSUME TypeOK
    PROVE  /\ IsSeq(producer_chain) /\ Len(producer_chain) \in Nat
           /\ \A v \in Validators : IsSeq(chain_file[v]) /\ Len(chain_file[v]) \in Nat
BY SeqFacts DEF TypeOK, ProducerTypeOK, ValidatorTypeOK, IsChain

\* A file that verifies begins the producer's chain; an untampered one does.
LEMMA VerifiedFiles ==
    ASSUME TypeOK, TamperInv, NEW v \in Validators
    PROVE  /\ VerifyChain(chain_file[v]) => IsPrefix(chain_file[v], producer_chain)
           /\ v \notin tampered => VerifyChain(chain_file[v])
<1>1. /\ VerifyChain(chain_file[v]) => Range(chain_file[v]) \subseteq Range(producer_chain)
      /\ v \notin tampered => VerifyChain(chain_file[v])
    BY DEF TamperInv, FilesAmong
<1>2. Indexed(producer_chain)
    BY DEF TamperInv, CandidateInv
<1> QED
    BY <1>1, <1>2, TamperSeqs, VerifiedAmongIsPrefix

\* Chains grow, but for the files that are tampered with.
UntamperedGrow ==
    /\ IsPrefix(producer_chain, producer_chain')
    /\ tampered \subseteq tampered'
    /\ \A v \in Validators \ tampered' : IsPrefix(chain_file[v], chain_file'[v])

\* More blocks, fewer files.
LEMMA AmongMore ==
    ASSUME NEW S, NEW T, S \subseteq T, NEW U, NEW W, W \subseteq U,
           FilesAmong(S, U)', InFlightAmong(S)'
    PROVE  FilesAmong(T, W)' /\ InFlightAmong(T)'
<1>1. FilesAmong(T, W)'
    <2>1. \A v \in Validators :
             /\ VerifyChain(chain_file'[v]) => Range(chain_file'[v]) \subseteq S
             /\ StartUpAmong(sync'[v], S)
             /\ v \in U => VerifyChain(chain_file'[v]) /\ VerifyChain(sync'[v].working_chain)
        BY DEF FilesAmong
    <2>2. \A v \in Validators : StartUpAmong(sync'[v], T)
        BY <2>1 DEF StartUpAmong
    <2> QED
        BY <2>1, <2>2 DEF FilesAmong
<1>2. InFlightAmong(T)'
    BY DEF InFlightAmong, CommitsAmong, AnswersAmong
<1> QED
    BY <1>1, <1>2

\* The sets of the invariant after a step.
LEMMA AmongAfter ==
    ASSUME NEW S, S \subseteq Range(producer_chain'), NEW U, Validators \ tampered' \subseteq U,
           FilesAmong(S, U)', InFlightAmong(S)'
    PROVE  /\ FilesAmong(Range(producer_chain), Validators \ tampered)'
           /\ InFlightAmong(Range(producer_chain))'
<1>1. PICK T : T = Range(producer_chain')
    OBVIOUS
<1>2. PICK W : W = Validators \ tampered'
    OBVIOUS
<1>3. FilesAmong(T, W)' /\ InFlightAmong(T)'
    BY <1>1, <1>2, AmongMore
<1>4. InFlightAmong(Range(producer_chain))'
    BY <1>1, <1>3 DEF InFlightAmong, CommitsAmong, AnswersAmong
<1>5. FilesAmong(Range(producer_chain), Validators \ tampered)'
    BY <1>1, <1>2, <1>3 DEF FilesAmong, StartUpAmong
<1> QED
    BY <1>4, <1>5

\* Whoever can have accepted the candidate still can.
LEMMA AcksAfter ==
    ASSUME NEW G, AcksFrom(G)',
           step' = "propose" => \A v \in G : v \in WholeChainHolders' \/ v \in tampered'
    PROVE  AcksFrom(WholeChainHolders \cup tampered)'
<1>1. PICK H : H = WholeChainHolders' \cup tampered'
    OBVIOUS
<1>2. AcksFrom(H)'
    BY <1>1 DEF AcksFrom
<1>3. H = (WholeChainHolders \cup tampered)'
    BY <1>1
<1> QED
    BY <1>2, <1>3 DEF AcksFrom

\* The holders of a block keep it, or are tampered with.
LEMMA HoldersOrTampered ==
    ASSUME TypeOK, TypeOK', UntamperedGrow,
           NEW n \in 1..Len(producer_chain),
           NEW v, v \in Holders(n) \/ v \in tampered
    PROVE  v \in Holders(n)' \/ v \in tampered'
<1>1. CASE v \in tampered'
    BY <1>1
<1>2. CASE v \notin tampered'
    <2>1. /\ v \in Validators /\ Len(chain_file[v]) >= n
          /\ chain_file[v][n] = producer_chain[n]
        BY <1>2 DEF Holders, UntamperedGrow
    <2>2. /\ IsSeq(producer_chain) /\ IsSeq(producer_chain')
          /\ IsSeq(chain_file[v]) /\ IsSeq(chain_file'[v])
          /\ Len(chain_file[v]) \in Nat /\ Len(chain_file'[v]) \in Nat
          /\ Len(producer_chain) \in Nat
        BY <2>1, SeqFacts DEF TypeOK, ProducerTypeOK, ValidatorTypeOK, IsChain
    <2>3. IsPrefix(chain_file[v], chain_file'[v]) /\ IsPrefix(producer_chain, producer_chain')
        BY <1>2, <2>1 DEF UntamperedGrow
    <2>4. producer_chain'[n] = producer_chain[n]
        BY <2>2, <2>3, PrefixFacts
    <2>5. /\ Len(chain_file[v]) <= Len(chain_file'[v])
          /\ \A m \in 1..Len(chain_file[v]) : chain_file[v][m] = chain_file'[v][m]
        BY <2>2, <2>3, PrefixFacts
    <2>6. n \in 1..Len(chain_file[v]) /\ Len(chain_file'[v]) >= n
        BY <2>1, <2>2, <2>5
    <2>7. chain_file'[v][n] = producer_chain'[n]
        BY <2>1, <2>4, <2>5, <2>6
    <2> QED
        BY <2>1, <2>6, <2>7 DEF Holders
<1> QED
    BY <1>1, <1>2

\* So a quorum of them stays one.
LEMMA QuorumStays ==
    ASSUME TypeOK, TypeOK', TamperTypeOK', UntamperedGrow,
           NEW n \in 1..Len(producer_chain),
           NEW Q \in SUBSET (Holders(n) \cup tampered), Cardinality(Q) >= QUORUM
    PROVE  Cardinality(Holders(n) \cup tampered)' >= QUORUM
<1>1. PICK P : P = (Holders(n) \cup tampered)'
    OBVIOUS
<1>2. P \subseteq Validators
    BY <1>1 DEF Holders, TamperTypeOK
<1>3. Q \subseteq P
    BY <1>1, HoldersOrTampered
<1>4. Cardinality(P) >= QUORUM
    BY <1>2, <1>3, MoreValidators
<1> QED
    BY <1>1, <1>4

\* The audit reads the files of different validators.
LEMMA AuditFacts ==
    ASSUME TamperTypeOK
    PROVE  /\ Len(audit) \in Nat /\ DOMAIN audit = 1..Len(audit)
           /\ (audit = <<>> <=> Len(audit) = 0)
           /\ Len(VALIDATOR_IDS) \in Nat /\ DOMAIN VALIDATOR_IDS = 1..Len(VALIDATOR_IDS)
           /\ \A k \in 1..Len(VALIDATOR_IDS) : VALIDATOR_IDS[k] \in Validators
           /\ \A k, m \in 1..Len(VALIDATOR_IDS) : VALIDATOR_IDS[k] = VALIDATOR_IDS[m] => k = m
           /\ \A k \in DOMAIN audit : IsSeq(audit[k]) /\ VALIDATOR_IDS[k] \in Validators
<1>1. /\ Len(audit) \in Nat /\ DOMAIN audit = 1..Len(audit) /\ Len(audit) <= Len(VALIDATOR_IDS)
      /\ (audit = <<>> <=> Len(audit) = 0)
    BY SeqFacts DEF TamperTypeOK
<1>2. Len(VALIDATOR_IDS) \in Nat /\ DOMAIN VALIDATOR_IDS = 1..Len(VALIDATOR_IDS)
    BY NetworkAssumption, LenProperties
<1>3. \A k \in 1..Len(VALIDATOR_IDS) : VALIDATOR_IDS[k] \in Validators
    BY <1>2, NetworkAssumption, ElementOfSeq DEF Validators
<1>4. \A k, m \in 1..Len(VALIDATOR_IDS) : VALIDATOR_IDS[k] = VALIDATOR_IDS[m] => k = m
    BY <1>2, NetworkAssumption DEF IsInjective
<1>5. \A k \in DOMAIN audit : k \in 1..Len(VALIDATOR_IDS)
    BY <1>1, <1>2
<1>6. \A k \in DOMAIN audit : IsSeq(audit[k]) /\ VALIDATOR_IDS[k] \in Validators
    BY <1>3, <1>5 DEF TamperTypeOK, IsChain
<1> QED
    BY <1>1, <1>2, <1>3, <1>4, <1>6

\* What an audit has read stays true.
LEMMA AuditStays ==
    ASSUME TypeOK, TypeOK', TamperInv, TamperTypeOK', UntamperedGrow,
           UNCHANGED <<audit, audit_start>>
    PROVE  AuditInv'
<1>1. \A k \in DOMAIN audit : IsSeq(audit[k]) /\ VALIDATOR_IDS[k] \in Validators
    BY AuditFacts DEF TamperInv
<1>2. ASSUME NEW k \in DOMAIN audit, VerifyChain(audit[k])
      PROVE  IsPrefix(audit[k], producer_chain')
    <2>1. IsPrefix(audit[k], producer_chain) /\ IsPrefix(producer_chain, producer_chain')
        BY <1>2 DEF TamperInv, AuditInv, UntamperedGrow
    <2>2. IsSeq(producer_chain) /\ IsSeq(producer_chain')
        BY DEF TypeOK, ProducerTypeOK, IsChain
    <2> QED
        BY <1>1, <2>1, <2>2, PrefixTransitive
<1>3. ASSUME NEW k \in DOMAIN audit, VALIDATOR_IDS[k] \notin tampered'
      PROVE  IsPrefix(audit[k], chain_file'[VALIDATOR_IDS[k]])
    <2>1. PICK v \in Validators : v = VALIDATOR_IDS[k]
        BY <1>1
    <2>2. v \notin tampered' /\ v \notin tampered
        BY <1>3, <2>1 DEF UntamperedGrow
    <2>3. IsPrefix(audit[k], chain_file[v]) /\ IsPrefix(chain_file[v], chain_file'[v])
        BY <2>1, <2>2 DEF TamperInv, AuditInv, UntamperedGrow
    <2>4. IsSeq(chain_file[v]) /\ IsSeq(chain_file'[v])
        BY DEF TypeOK, ValidatorTypeOK, IsChain
    <2> QED
        BY <1>1, <2>1, <2>3, <2>4, PrefixTransitive
<1>4. ASSUME audit # <<>>, audit_start > 1
      PROVE  Cardinality(Witnesses)' >= QUORUM
    <2>1. PICK Q : Q = Witnesses
        OBVIOUS
    <2>2. PICK P : P = Witnesses'
        OBVIOUS
    <2>3. Cardinality(Q) >= QUORUM
        BY <1>4, <2>1 DEF TamperInv, AuditInv
    <2>4. ASSUME NEW v \in Q
          PROVE  v \in P
        <3>1. v \in Validators
            BY <2>1 DEF Witnesses
        <3>2. CASE v \in tampered'
            BY <2>2, <3>1, <3>2 DEF Witnesses
        <3>3. CASE v \notin tampered'
            <4>1. /\ Len(chain_file[v]) >= audit_start - 1
                  /\ \A k \in DOMAIN audit :
                        VALIDATOR_IDS[k] = v => Len(audit[k]) >= audit_start - 1
                BY <2>1, <3>3 DEF Witnesses, UntamperedGrow
            <4>2. IsPrefix(chain_file[v], chain_file'[v])
                BY <3>1, <3>3 DEF UntamperedGrow
            <4>3. /\ IsSeq(chain_file[v]) /\ IsSeq(chain_file'[v])
                  /\ Len(chain_file[v]) \in Nat /\ Len(chain_file'[v]) \in Nat
                BY <3>1, SeqFacts DEF TypeOK, ValidatorTypeOK, IsChain
            <4>4. Len(chain_file[v]) <= Len(chain_file'[v])
                BY <4>2, <4>3, PrefixFacts
            <4>5. audit_start \in Nat
                BY DEF TamperInv, TamperTypeOK
            <4>6. Len(chain_file'[v]) >= audit_start - 1
                BY <4>1, <4>3, <4>4, <4>5
            <4> QED
                BY <2>2, <3>1, <4>1, <4>6 DEF Witnesses
        <3> QED
            BY <3>2, <3>3
    <2>5. P \in SUBSET Validators /\ Q \in SUBSET P
        BY <2>2, <2>4 DEF Witnesses
    <2>6. Cardinality(P) >= QUORUM
        BY <2>3, <2>5, MoreValidators
    <2> QED
        BY <2>2, <2>6
<1> QED
    BY <1>2, <1>3, <1>4 DEF AuditInv

-----------------------------------------------------------------------------
(* The steps.                                                              *)

\* The ACKs of the candidate after a step of the producer.
LEMMA ProducerAcksTampered ==
    ASSUME TypeOK, TamperInv, UNCHANGED <<validatorVars, tampered>>,
           (\E log \in LOGS : ReceiveLog(log)) \/ HandleLog
    PROVE  AcksFrom(WholeChainHolders \cup tampered)'
<1>1. PICK G : G = WholeChainHolders \cup tampered
    OBVIOUS
<1>2. AcksFrom(G)
    BY <1>1 DEF TamperInv
<1>3. AcksFrom(G)'
    BY <1>2, ProducerAcksFrom DEF TypeOK
<1>4. step' = "propose" => UNCHANGED <<producer_chain, chain_file>>
    BY DEF HandleLog, ReceiveLog, ProposeBlock, CollectAck, AbortCommit, AppendCandidate,
           CommitBlock, IgnoreCommitReply, FinishCommit, AcceptNext, producerVars, validatorVars
<1>5. step' = "propose" => \A v \in G : v \in WholeChainHolders' \/ v \in tampered'
    BY <1>1, <1>4 DEF WholeChainHolders
<1> QED
    BY <1>3, <1>5, AcksAfter

\* And after any other step: who accepts it runs on the whole chain or on an
\* edited one.
LEMMA OtherAcksTampered ==
    ASSUME TypeOK, TypeOK', TamperInv, UNCHANGED producerVars, UntamperedGrow,
           \A v \in Validators \ tampered' : IsPrefix(chain_file'[v], producer_chain'),
           \/ call'[PRODUCER] = call[PRODUCER]
           \/ /\ call[PRODUCER] # Idle
              /\ \A w \in Validators : step = "propose" /\ ValidAck(call'[PRODUCER], w) =>
                    w \in WholeChainHolders \/ w \in tampered
    PROVE  AcksFrom(WholeChainHolders \cup tampered)'
<1>1. PICK G : G = WholeChainHolders \cup tampered
    OBVIOUS
<1>2. AcksFrom(G)
    BY <1>1 DEF TamperInv
<1>3. AcksFrom(G)'
    BY <1>1, <1>2, AnswerFrom
<1>4. ASSUME NEW v \in G
      PROVE  v \in WholeChainHolders' \/ v \in tampered'
    <2>1. SUFFICES ASSUME v \notin tampered'
                   PROVE  v \in WholeChainHolders'
        OBVIOUS
    <2>2. v \in Validators /\ chain_file[v] = producer_chain
        BY <1>1, <1>4, <2>1 DEF WholeChainHolders, UntamperedGrow
    <2>3. /\ IsPrefix(chain_file[v], chain_file'[v])
          /\ IsPrefix(chain_file'[v], producer_chain')
          /\ producer_chain' = producer_chain
        BY <2>1, <2>2 DEF UntamperedGrow, producerVars
    <2>4. /\ IsSeq(producer_chain) /\ Len(producer_chain) \in Nat
          /\ IsSeq(chain_file'[v]) /\ Len(chain_file'[v]) \in Nat
        BY <2>2, SeqFacts DEF TypeOK, ProducerTypeOK, ValidatorTypeOK, IsChain
    <2>5. Len(producer_chain) <= Len(chain_file'[v]) /\ Len(chain_file'[v]) <= Len(producer_chain)
        BY <2>2, <2>3, <2>4, PrefixFacts
    <2>6. Len(chain_file'[v]) = Len(producer_chain)
        BY <2>4, <2>5
    <2>7. chain_file'[v] = producer_chain'
        BY <2>3, <2>4, <2>6, PrefixOfSameLength
    <2> QED
        BY <2>2, <2>7 DEF WholeChainHolders
<1> QED
    BY <1>3, <1>4, AcksAfter

\* A valid ACK is of a validator on the whole chain or on an edited one.
LEMMA AcceptedTampered ==
    ASSUME TypeOK, TamperInv, OneCallAtATime, NEW v \in Validators,
           Serve(v) \/ Synchronise(v) \/ Environment(v)
    PROVE  \/ call'[PRODUCER] = call[PRODUCER]
           \/ /\ call[PRODUCER] # Idle
              /\ \A w \in Validators : step = "propose" /\ ValidAck(call'[PRODUCER], w) =>
                    w \in WholeChainHolders \/ w \in tampered
<1>1. ASSUME NEW w \in Validators, step = "propose", w \notin tampered,
             NEW block, block.index = candidate.index, ValidateNextBlock(chain_file[w], block)
      PROVE  w \in WholeChainHolders
    <2>1. IsPrefix(chain_file[w], producer_chain)
        BY <1>1, VerifiedFiles
    <2>2. Indexed(producer_chain) /\ block.index = Len(producer_chain)
        BY <1>1 DEF TamperInv, CandidateInv
    <2>3. IsChain(producer_chain) /\ IsSeq(chain_file[w])
        BY TamperSeqs DEF TypeOK, ProducerTypeOK
    <2>4. chain_file[w] = producer_chain
        BY <1>1, <2>1, <2>2, <2>3, AcceptedByUpToDate
    <2> QED
        BY <2>4 DEF WholeChainHolders
<1> QED
    BY <1>1, ValidatorAnswers DEF TypeOK

\* What is appended has a quorum behind it.
LEMMA AckQuorumTampered ==
    ASSUME TypeOK, TamperInv, AppendCandidate
    PROVE  Cardinality(WholeChainHolders \cup tampered) >= QUORUM
<1>1. PICK G : G = WholeChainHolders \cup tampered
    OBVIOUS
<1>2. AcksFrom(G) /\ step = "propose" /\ Len(acks) >= QUORUM
    BY <1>1 DEF TamperInv, AppendCandidate
<1>3. G \in SUBSET Validators
    BY <1>1 DEF TamperInv, TamperTypeOK, WholeChainHolders
<1>4. /\ \A n \in DOMAIN acks : acks[n].validator_id \in G
      /\ \A m, n \in DOMAIN acks : acks[m].validator_id = acks[n].validator_id => m = n
      /\ IsSeq(acks)
    BY <1>2 DEF AcksFrom, TypeOK, ProducerTypeOK
<1>5. Cardinality(G) >= QUORUM
    BY <1>2, <1>3, <1>4, DistinctAckers
<1> QED
    BY <1>1, <1>5

\* A step of the system.
LEMMA SystemTampered ==
    ASSUME TypeOK, TypeOK', TamperInv, OneCallAtATime, [Next]_vars,
           UNCHANGED <<tampered, audit, audit_start>>
    PROVE  TamperInv' /\ FilesGrow
<1>1. /\ CandidateInv' /\ LoggedInv'
      /\ IsPrefix(producer_chain, producer_chain')
      /\ Range(producer_chain) \subseteq Range(producer_chain')
      /\ \/ producer_chain' = producer_chain
         \/ /\ AppendCandidate /\ UNCHANGED chain_file
            /\ Len(producer_chain') = Len(producer_chain) + 1
    BY ChainSteps DEF TamperInv
<1>2. /\ FilesAmong(Range(producer_chain), Validators \ tampered)'
      /\ InFlightAmong(Range(producer_chain))' /\ SyncInv' /\ FilesGrow
    <2>1. PICK S : S = Range(producer_chain)
        OBVIOUS
    <2>2. PICK U : U = Validators \ tampered
        OBVIOUS
    <2>3. FilesAmong(S, U) /\ InFlightAmong(S) /\ SyncInv /\ (step = "commit" => candidate \in S)
        BY <2>1, <2>2 DEF TamperInv, CandidateInv
    <2>4. FilesAmong(S, U)' /\ InFlightAmong(S)' /\ SyncInv' /\ FilesGrow
        BY <2>3, StepAmong DEF NextWithRestarts
    <2>5. S \subseteq Range(producer_chain') /\ Validators \ tampered' \subseteq U
        BY <1>1, <2>1, <2>2
    <2> QED
        BY <2>4, <2>5, AmongAfter
<1>3. UntamperedGrow
    BY <1>1, <1>2 DEF UntamperedGrow, FilesGrow
<1>4. TamperTypeOK'
    BY DEF TamperInv, TamperTypeOK
<1>5. AuditInv'
    BY <1>3, <1>4, AuditStays
<1>6. AcksFrom(WholeChainHolders \cup tampered)'
    <2>1. \A v \in Validators \ tampered' : IsPrefix(chain_file'[v], producer_chain')
        <3>1. ASSUME NEW v \in Validators \ tampered'
              PROVE  /\ VerifyChain(chain_file'[v])
                     /\ Range(chain_file'[v]) \subseteq Range(producer_chain')
            BY <1>2 DEF FilesAmong
        <3>2. Indexed(producer_chain')
            BY <1>1 DEF CandidateInv
        <3>3. IsSeq(producer_chain') /\ \A v \in Validators : IsSeq(chain_file'[v])
            BY DEF TypeOK, ProducerTypeOK, ValidatorTypeOK, IsChain
        <3> QED
            BY <3>1, <3>2, <3>3, VerifiedAmongIsPrefix
    <2>2. CASE (\E log \in LOGS : AcceptLog(log)) \/ HandleLog
        BY <2>2, ProducerAcksTampered DEF AcceptLog, HandleLog
    <2>3. CASE \E v \in Validators : Serve(v) \/ Synchronise(v) \/ Environment(v)
        <3>1. PICK v \in Validators : Serve(v) \/ Synchronise(v) \/ Environment(v)
            BY <2>3
        <3>2. UNCHANGED producerVars
            BY <3>1 DEF Serve, Synchronise, Environment
        <3> QED
            BY <1>3, <2>1, <3>1, <3>2, AcceptedTampered, OtherAcksTampered
    <2>4. CASE \E r \in Callers : CallEnds(r)
        <3>1. PICK r \in Callers : CallEnds(r)
            BY <2>4
        <3>2. UNCHANGED producerVars
            BY <3>1 DEF CallEnds
        <3> QED
            BY <1>3, <2>1, <3>1, <3>2, CallEndsAnswers, OtherAcksTampered
    <2>5. CASE UNCHANGED vars
        <3>1. UNCHANGED producerVars /\ call'[PRODUCER] = call[PRODUCER]
            BY <2>5 DEF vars, networkVars
        <3> QED
            BY <1>3, <2>1, <3>1, OtherAcksTampered
    <2> QED
        BY <2>2, <2>3, <2>4, <2>5 DEF Next
<1>7. ASSUME NEW n \in 1..(Len(producer_chain') - 1)
      PROVE  Cardinality(Holders(n) \cup tampered)' >= QUORUM
    <2>1. Len(producer_chain) \in Nat /\ Len(producer_chain') \in Nat
        BY SeqFacts DEF TypeOK, ProducerTypeOK, IsChain
    <2>2. CASE n \in 1..(Len(producer_chain) - 1)
        <3>1. n \in 1..Len(producer_chain)
            BY <2>1, <2>2
        <3>2. Cardinality(Holders(n) \cup tampered) >= QUORUM
            BY <2>2 DEF TamperInv
        <3> QED
            BY <1>3, <1>4, <3>1, <3>2, QuorumStays
    <2>3. CASE n \notin 1..(Len(producer_chain) - 1)
        <3>1. AppendCandidate /\ n = Len(producer_chain) /\ n \in 1..Len(producer_chain)
            BY <1>1, <2>1, <2>3
        <3>2. WholeChainHolders \subseteq Holders(n)
            BY <3>1, <2>1 DEF WholeChainHolders, Holders
        <3>3. PICK Q : Q = WholeChainHolders \cup tampered
            OBVIOUS
        <3>4. Q \in SUBSET (Holders(n) \cup tampered) /\ Cardinality(Q) >= QUORUM
            BY <3>1, <3>2, <3>3, AckQuorumTampered
        <3> QED
            BY <1>3, <1>4, <3>1, <3>4, QuorumStays
    <2> QED
        BY <2>2, <2>3
<1>8. (\A n \in 1..(Len(producer_chain) - 1) : Cardinality(Holders(n) \cup tampered) >= QUORUM)'
    BY <1>7
<1> QED
    BY <1>1, <1>2, <1>4, <1>5, <1>6, <1>8 DEF TamperInv

\* An edit: the file of v is out of the reckoning from now on.
LEMMA EditTampered ==
    ASSUME TypeOK, TypeOK', TamperInv, NEW v \in Validators, TamperFile(v)
    PROVE  TamperInv' /\ VerifyChain(chain_file[v])
<1>1. /\ v \notin tampered /\ tampered' = tampered \cup {v}
      /\ DropSockets(v)
      /\ UNCHANGED <<producerVars, faults, audit, audit_start>>
      /\ \A w \in Validators : sync'[w] = IF w = v THEN NoSync ELSE sync[w]
    BY TamperFileFacts DEF TypeOK
<1>2. PICK n \in DOMAIN chain_file[v], type \in TamperTypes :
         \A w \in Validators :
            chain_file'[w] = IF w = v THEN ApplyTamper(chain_file[v], n, type)
                                      ELSE chain_file[w]
    BY TamperFileFacts DEF TypeOK
<1> DEFINE c == ApplyTamper(chain_file[v], n, type)
<1>3. UNCHANGED <<producer_chain, step, candidate>>
    BY <1>1 DEF producerVars
<1>4. \A w \in Validators \ {v} : chain_file'[w] = chain_file[w] /\ sync'[w] = sync[w]
    BY <1>1, <1>2
<1>5. /\ VerifyChain(chain_file[v]) /\ IsPrefix(chain_file[v], producer_chain)
      /\ Range(chain_file[v]) \subseteq Range(producer_chain)
    BY <1>1, VerifiedFiles, TamperSeqs, PrefixRange
<1>6. VerifyChain(c) => Range(c) \subseteq Range(chain_file[v])
    <2>1. \A b \in Range(producer_chain) : b.log_data \in LOGS
        BY DEF TamperInv, LoggedInv, Range
    <2>2. IsChain(chain_file[v]) /\ IsSeq(c)
        BY EditedIsChain DEF TypeOK, ValidatorTypeOK, IsChain
    <2>3. VerifyChain(c) => IsPrefix(c, chain_file[v])
        BY <1>5, <2>1, <2>2, EditLeavesPrefix
    <2> HIDE DEF c
    <2> QED
        BY <2>2, <2>3, PrefixRange DEF IsChain
<1>7. chain_file'[v] = c /\ sync'[v] = NoSync
    BY <1>1, <1>2
<1> HIDE DEF c
<1>8. /\ FilesAmong(Range(producer_chain), Validators \ tampered)'
      /\ InFlightAmong(Range(producer_chain))'
    <2>1. PICK S : S = Range(producer_chain)
        OBVIOUS
    <2>2. PICK U : U = Validators \ tampered'
        OBVIOUS
    <2>3. FilesAmong(S, U)'
        <3>1. VerifyChain(c) => Range(c) \subseteq S
            BY <1>5, <1>6, <2>1
        <3>2. StartUpAmong(NoSync, S)
            BY NoStartUpAmong
        <3>3. v \notin U
            BY <1>1, <2>2
        <3>4. ASSUME NEW w \in Validators \ {v}
              PROVE  /\ VerifyChain(chain_file'[w]) => Range(chain_file'[w]) \subseteq S
                     /\ StartUpAmong(sync'[w], S)
                     /\ w \in U => VerifyChain(chain_file'[w]) /\ VerifyChain(sync'[w].working_chain)
            <4>1. /\ VerifyChain(chain_file[w]) => Range(chain_file[w]) \subseteq S
                  /\ StartUpAmong(sync[w], S)
                  /\ w \in U => VerifyChain(chain_file[w]) /\ VerifyChain(sync[w].working_chain)
                BY <1>1, <2>1, <2>2 DEF TamperInv, FilesAmong
            <4> QED
                BY <1>4, <4>1
        <3>5. /\ VerifyChain(chain_file'[v]) => Range(chain_file'[v]) \subseteq S
              /\ StartUpAmong(sync'[v], S)
            BY <1>7, <3>1, <3>2
        <3>6. \A w \in Validators :
                 /\ VerifyChain(chain_file'[w]) => Range(chain_file'[w]) \subseteq S
                 /\ StartUpAmong(sync'[w], S)
                 /\ w \in U => VerifyChain(chain_file'[w]) /\ VerifyChain(sync'[w].working_chain)
            BY <3>3, <3>4, <3>5
        <3> QED
            BY <3>6 DEF FilesAmong
    <2>4. InFlightAmong(S)'
        <3>1. InFlightAmong(S)
            BY <2>1 DEF TamperInv
        <3>2. /\ \A w \in Validators : CommitsAmong(inbox'[w], S)
              /\ \A w \in Callers : AnswersAmong(call'[w], S)
            BY <1>1, <3>1, DropSocketsKeeps DEF TypeOK
        <3> QED
            BY <3>2 DEF InFlightAmong, CommitsAmong, AnswersAmong
    <2>5. S \subseteq Range(producer_chain')
        BY <1>3, <2>1
    <2> QED
        BY <2>2, <2>3, <2>4, <2>5, AmongAfter
<1>9. SyncInv'
    <2>1. listening' \subseteq listening
        BY <1>1 DEF DropSockets
    <2>2. NoSync.stage = "none"
        BY DEF NoSync
    <2> QED
        BY <1>4, <1>7, <2>1, <2>2 DEF TamperInv, SyncInv
<1>10. UntamperedGrow
    BY <1>1, <1>3, <1>4, TamperSeqs, PrefixOrder DEF UntamperedGrow
<1>11. TamperTypeOK'
    BY <1>1 DEF TamperInv, TamperTypeOK
<1>12. CandidateInv' /\ LoggedInv'
    BY <1>3 DEF TamperInv, CandidateInv, LoggedInv
<1>13. AuditInv'
    BY <1>1, <1>10, <1>11, AuditStays
<1>14. AcksFrom(WholeChainHolders \cup tampered)'
    <2>1. call'[PRODUCER] = call[PRODUCER]
        <3>1. PRODUCER \in Callers /\ PRODUCER # v
            BY NetworkAssumption DEF Callers, Validators
        <3> QED
            BY <1>1, <3>1 DEF DropSockets, TypeOK, NetworkTypeOK
    <2>2. \A w \in Validators \ tampered' : IsPrefix(chain_file'[w], producer_chain')
        BY <1>1, <1>3, <1>4, VerifiedFiles
    <2> QED
        BY <1>1, <1>10, <2>1, <2>2, OtherAcksTampered
<1>15. ASSUME NEW m \in 1..(Len(producer_chain') - 1)
       PROVE  Cardinality(Holders(m) \cup tampered)' >= QUORUM
    <2>1. m \in 1..(Len(producer_chain) - 1) /\ m \in 1..Len(producer_chain)
        BY <1>3, TamperSeqs
    <2>2. Cardinality(Holders(m) \cup tampered) >= QUORUM
        BY <2>1 DEF TamperInv
    <2> QED
        BY <1>10, <1>11, <2>1, <2>2, QuorumStays
<1>16. (\A m \in 1..(Len(producer_chain) - 1) : Cardinality(Holders(m) \cup tampered) >= QUORUM)'
    BY <1>15
<1> QED
    BY <1>5, <1>8, <1>9, <1>11, <1>12, <1>13, <1>14, <1>16 DEF TamperInv

\* The audit reads one more file.
LEMMA AuditNextFileInv ==
    ASSUME TypeOK, TamperInv, AuditNextFile
    PROVE  TamperTypeOK' /\ AuditInv'
<1> DEFINE v == VALIDATOR_IDS[Len(audit) + 1]
           more == Append(audit, chain_file[v])
<1>1. /\ Len(audit) < Len(VALIDATOR_IDS)
      /\ audit' = more
      /\ audit_start' = IF audit = <<>> THEN Len(producer_chain) ELSE audit_start
      /\ UNCHANGED <<chain_file, producer_chain, tampered>>
    BY DEF AuditNextFile, LoadNextFile, vars, validatorVars, producerVars
<1>2. TamperTypeOK
    BY DEF TamperInv
<1>3. /\ Len(audit) \in Nat /\ DOMAIN audit = 1..Len(audit)
      /\ (audit = <<>> <=> Len(audit) = 0)
      /\ Len(VALIDATOR_IDS) \in Nat
    BY <1>2, AuditFacts
<1>4. Len(audit) + 1 \in 1..Len(VALIDATOR_IDS)
    BY <1>1, <1>3
<1>5. /\ v \in Validators
      /\ \A k \in 1..Len(VALIDATOR_IDS) : VALIDATOR_IDS[k] = v => k = Len(audit) + 1
    BY <1>2, <1>4, AuditFacts
<1>6. /\ IsSeq(more)
      /\ Len(more) = Len(audit) + 1
      /\ DOMAIN more = 1..(Len(audit) + 1)
      /\ \A k \in 1..Len(audit) : more[k] = audit[k]
      /\ more[Len(audit) + 1] = chain_file[v]
    BY <1>2, AppendFacts DEF TamperTypeOK
<1>7. VALIDATOR_IDS[Len(audit) + 1] = v
    OBVIOUS
<1> HIDE DEF more, v
<1>8. TamperTypeOK'
    <2>1. Len(producer_chain) \in Nat
        BY TamperSeqs
    <2>2. \A k \in DOMAIN more : IsChain(more[k])
        BY <1>2, <1>3, <1>5, <1>6 DEF TamperTypeOK, TypeOK, ValidatorTypeOK
    <2>3. Len(more) <= Len(VALIDATOR_IDS)
        BY <1>1, <1>3, <1>6
    <2> QED
        BY <1>1, <1>2, <1>6, <2>1, <2>2, <2>3 DEF TamperTypeOK
<1>9. ASSUME NEW k \in DOMAIN more
      PROVE  /\ VerifyChain(more[k]) => IsPrefix(more[k], producer_chain)
             /\ VALIDATOR_IDS[k] \notin tampered => IsPrefix(more[k], chain_file[VALIDATOR_IDS[k]])
    <2>1. CASE k \in 1..Len(audit)
        BY <1>3, <1>6, <2>1 DEF TamperInv, AuditInv
    <2>2. CASE k \notin 1..Len(audit)
        <3>1. k = Len(audit) + 1
            BY <1>3, <1>6, <2>2
        <3>2. more[k] = chain_file[v] /\ VALIDATOR_IDS[k] = v
            BY <1>6, <1>7, <3>1
        <3>3. VerifyChain(chain_file[v]) => IsPrefix(chain_file[v], producer_chain)
            BY <1>5, VerifiedFiles
        <3>4. IsPrefix(chain_file[v], chain_file[v])
            BY <1>5, TamperSeqs, PrefixOrder
        <3> QED
            BY <3>2, <3>3, <3>4
    <2> QED
        BY <2>1, <2>2
<1>10. ASSUME audit_start' > 1
       PROVE  Cardinality(Witnesses)' >= QUORUM
    <2>1. PICK P : P = Witnesses'
        OBVIOUS
    <2>2. P \subseteq Validators
        BY <2>1 DEF Witnesses
    <2>3. \A w \in Validators : w \in tampered => w \in P
        BY <1>1, <2>1 DEF Witnesses
    <2>4. ASSUME NEW w \in Validators, Len(chain_file[w]) >= audit_start' - 1,
                 \A k \in 1..Len(audit) :
                    VALIDATOR_IDS[k] = w => Len(audit[k]) >= audit_start' - 1
          PROVE  w \in P
        <3>1. ASSUME NEW k \in DOMAIN more, VALIDATOR_IDS[k] = w
              PROVE  Len(more[k]) >= audit_start' - 1
            <4>1. CASE k \in 1..Len(audit)
                BY <1>6, <2>4, <3>1, <4>1
            <4>2. CASE k \notin 1..Len(audit)
                <5>1. k = Len(audit) + 1
                    BY <1>3, <1>6, <4>2
                <5>2. more[k] = chain_file[w]
                    BY <1>6, <1>7, <3>1, <5>1
                <5> QED
                    BY <2>4, <5>2
            <4> QED
                BY <4>1, <4>2
        <3> QED
            BY <1>1, <2>1, <2>4, <3>1 DEF Witnesses
    <2>5. CASE audit = <<>>
        <3>1. audit_start' = Len(producer_chain) /\ Len(audit) = 0
            BY <1>1, <1>3, <2>5
        <3>2. PICK n \in 1..(Len(producer_chain) - 1) : n = Len(producer_chain) - 1
            BY <1>10, <3>1, TamperSeqs
        <3>3. PICK Q : Q = Holders(n) \cup tampered
            OBVIOUS
        <3>4. Cardinality(Q) >= QUORUM
            BY <3>2, <3>3 DEF TamperInv
        <3>5. ASSUME NEW w \in Q
              PROVE  w \in P
            <4>1. CASE w \in tampered
                BY <1>2, <2>3, <4>1 DEF TamperTypeOK
            <4>2. CASE w \in Holders(n)
                BY <2>4, <3>1, <3>2, <4>2 DEF Holders
            <4> QED
                BY <3>3, <3>5, <4>1, <4>2
        <3>6. Cardinality(P) >= QUORUM
            BY <2>2, <3>4, <3>5, MoreValidators
        <3> QED
            BY <2>1, <3>6
    <2>6. CASE audit # <<>>
        <3>1. audit_start' = audit_start
            BY <1>1, <2>6
        <3>2. PICK Q : Q = Witnesses
            OBVIOUS
        <3>3. Cardinality(Q) >= QUORUM
            BY <1>10, <2>6, <3>1, <3>2 DEF TamperInv, AuditInv
        <3>4. ASSUME NEW w \in Q
              PROVE  w \in P
            <4>1. w \in Validators
                BY <3>2 DEF Witnesses
            <4>2. CASE w \in tampered
                BY <2>3, <4>1, <4>2
            <4>3. CASE w \notin tampered
                BY <1>3, <2>4, <3>1, <3>2, <4>1, <4>3 DEF Witnesses
            <4> QED
                BY <4>2, <4>3
        <3>5. Cardinality(P) >= QUORUM
            BY <2>2, <3>3, <3>4, MoreValidators
        <3> QED
            BY <2>1, <3>5
    <2> QED
        BY <2>5, <2>6
<1> QED
    BY <1>1, <1>8, <1>9, <1>10 DEF AuditInv

\* A step of the audit.
LEMMA AuditTampered ==
    ASSUME TypeOK, TamperInv, AuditNextFile \/ EndAudit, UNCHANGED <<vars, tampered>>
    PROVE  TamperInv' /\ UNCHANGED chain_file
<1>1. TamperTypeOK' /\ AuditInv'
    <2>1. CASE AuditNextFile
        BY <2>1, AuditNextFileInv
    <2>2. CASE EndAudit
        BY <2>2, EmptyIsSeq DEF EndAudit, PrintVerdict, AuditInv, TamperInv, TamperTypeOK
    <2> QED
        BY <2>1, <2>2
<1>2. UNCHANGED <<networkVars, validatorVars, producerVars>>
    BY DEF vars
<1>3. CandidateInv' /\ LoggedInv' /\ SyncInv'
    BY <1>2 DEF TamperInv, CandidateInv, LoggedInv, SyncInv, networkVars, validatorVars,
                producerVars
<1>4. InFlightAmong(Range(producer_chain))'
    BY <1>2 DEF TamperInv, InFlightAmong, CommitsAmong, AnswersAmong, networkVars, producerVars
<1>5. FilesAmong(Range(producer_chain), Validators \ tampered)'
    BY <1>2 DEF TamperInv, FilesAmong, StartUpAmong, validatorVars, producerVars
<1>6. AcksFrom(WholeChainHolders \cup tampered)'
    BY <1>2 DEF TamperInv, AcksFrom, WholeChainHolders, Proposing, Committing, ValidAck,
                networkVars, validatorVars, producerVars
<1>7. (\A n \in 1..(Len(producer_chain) - 1) : Cardinality(Holders(n) \cup tampered) >= QUORUM)'
    BY <1>2 DEF TamperInv, Holders, validatorVars, producerVars
<1> QED
    BY <1>1, <1>2, <1>3, <1>4, <1>5, <1>6, <1>7 DEF TamperInv, validatorVars

\* Nothing is stored, nothing edited, no audit runs.
LEMMA InitTamperInv == TamperInit => TamperInv
<1> SUFFICES ASSUME TamperInit PROVE TamperInv
    OBVIOUS
<1>1. Init /\ tampered = {} /\ audit = <<>> /\ audit_start = 0
    BY DEF TamperInit
<1>2. /\ producer_chain = <<>> /\ step = "accept" /\ call = [r \in Callers |-> Idle]
      /\ inbox = [v \in Validators |-> <<>>]
      /\ \A v \in Validators : chain_file[v] = <<>> /\ sync[v] = NoSync
    BY <1>1 DEF Init, NetworkInit, ProducerInit, ValidatorInit
<1>3. TamperTypeOK
    BY <1>1, EmptyIsSeq, NetworkAssumption, LenProperties DEF TamperTypeOK
<1>4. CandidateInv /\ LoggedInv
    BY <1>2, EmptyIsSeq DEF CandidateInv, LoggedInv, Indexed
<1>5. InFlightAmong(Range(producer_chain))
    BY <1>2, EmptyIsSeq DEF InFlightAmong, CommitsAmong, AnswersAmong, Idle
<1>6. FilesAmong(Range(producer_chain), Validators \ tampered)
    BY <1>2, NoStartUpAmong, EmptyVerifies DEF FilesAmong
<1>7. SyncInv
    BY <1>2 DEF SyncInv, NoSync
<1>8. AcksFrom(WholeChainHolders \cup tampered)
    BY <1>2 DEF AcksFrom, Callers
<1>9. \A n \in 1..(Len(producer_chain) - 1) : Cardinality(Holders(n) \cup tampered) >= QUORUM
    BY <1>2, EmptyIsSeq
<1>10. AuditInv
    BY <1>1, EmptyIsSeq DEF AuditInv
<1> QED
    BY <1>3, <1>4, <1>5, <1>6, <1>7, <1>8, <1>9, <1>10 DEF TamperInv

\* The invariant is inductive; a file that does not verify is not mended.
LEMMA TamperNextInv ==
    ASSUME TypeOK, TypeOK', TamperInv, OneCallAtATime, [TamperNext]_tamperVars
    PROVE  /\ TamperInv'
           /\ \A v \in Validators : VerifyChain(chain_file'[v]) => VerifyChain(chain_file[v])
<1>1. CASE [Next]_vars /\ UNCHANGED <<tampered, audit, audit_start>>
    <2>1. TamperInv' /\ FilesGrow
        BY <1>1, SystemTampered
    <2>2. \A v \in Validators : IsSeq(chain_file[v]) /\ IsSeq(chain_file'[v])
        BY DEF TypeOK, ValidatorTypeOK, IsChain
    <2> QED
        BY <2>1, <2>2, VerifiedPrefix DEF FilesGrow
<1>2. CASE \E v \in Validators : TamperFile(v)
    <2>1. PICK v \in Validators : TamperFile(v)
        BY <1>2
    <2>2. TamperInv' /\ VerifyChain(chain_file[v])
        BY <2>1, EditTampered
    <2>3. \A w \in Validators \ {v} : chain_file'[w] = chain_file[w]
        BY <2>1, TamperFileFacts DEF TypeOK
    <2> QED
        BY <2>2, <2>3
<1>3. CASE (AuditNextFile \/ EndAudit) /\ UNCHANGED <<vars, tampered>>
    BY <1>3, AuditTampered
<1> QED
    BY <1>1, <1>2, <1>3, TamperSteps

-----------------------------------------------------------------------------
(* The theorems.                                                           *)

\* The inductive invariant holds, whatever is edited while the system runs.
THEOREM TamperInvHolds == TamperSpec => []TamperInv
<1>1. /\ (TypeOK /\ OneCallAtATime) /\ (TypeOK /\ OneCallAtATime)'
      /\ TamperInv /\ [TamperNext]_tamperVars
      => TamperInv'
    BY TamperNextInv
<1> QED
    BY <1>1, InitTamperInv, TamperTypesHold, PTL DEF TamperSpec

\* A file that verifies holds nothing but what the producer committed, and
\* the file of a validator nobody tampered with verifies.
THEOREM VerifiedChainsFollowProducerHolds == TamperSpec => []VerifiedChainsFollowProducer
<1>1. (TypeOK /\ OneCallAtATime) /\ TamperInv => VerifiedChainsFollowProducer
    BY VerifiedFiles DEF VerifiedChainsFollowProducer
<1> QED
    BY <1>1, TamperInvHolds, TamperTypesHold, PTL

\* A file that does not verify is not mended by anything the validator goes
\* on to store or to learn from its peers.
THEOREM EvidenceStaysHolds == TamperSpec => EvidenceStays
<1>1. /\ (TypeOK /\ OneCallAtATime) /\ (TypeOK /\ OneCallAtATime)'
      /\ TamperInv /\ [TamperNext]_tamperVars
      => [\A v \in Validators :
            ~VerifyChain(chain_file[v]) => ~VerifyChain(chain_file[v]')]_tamperVars
    <2> SUFFICES ASSUME TypeOK, TypeOK', OneCallAtATime, TamperInv, [TamperNext]_tamperVars,
                        NEW v \in Validators, VerifyChain(chain_file[v]')
                 PROVE  VerifyChain(chain_file[v])
        OBVIOUS
    <2>1. \A w \in Validators : VerifyChain(chain_file'[w]) => VerifyChain(chain_file[w])
        BY TamperNextInv
    <2> QED
        BY <2>1
<1> QED
    BY <1>1, TamperInvHolds, TamperTypesHold, PTL DEF TamperSpec, EvidenceStays

\* Each block but the last is intact at a quorum, less those tampered with.
THEOREM DurabilityLosesOnlyTamperedHolds == TamperSpec => []DurabilityLosesOnlyTampered
<1>1. TamperInv => DurabilityLosesOnlyTampered
    <2> SUFFICES ASSUME TamperInv, NEW n \in 1..(Len(producer_chain) - 1)
                 PROVE  Cardinality(Holders(n) \ tampered) >= QUORUM - Cardinality(tampered)
        BY DEF DurabilityLosesOnlyTampered
    <2> DEFINE intact == Holders(n) \ tampered
    <2>1. Cardinality(Holders(n) \cup tampered) >= QUORUM
        BY DEF TamperInv
    <2>2. intact \subseteq Validators /\ tampered \subseteq Validators
        BY DEF Holders, TamperInv, TamperTypeOK
    <2>3. Holders(n) \cup tampered = intact \cup tampered /\ intact \cap tampered = {}
        OBVIOUS
    <2> HIDE DEF intact
    <2>4. IsFiniteSet(intact) /\ IsFiniteSet(tampered)
        BY <2>2, ValidatorsAreFinite, FS_Subset
    <2>5. Cardinality(intact \cup tampered)
             = Cardinality(intact) + Cardinality(tampered) - Cardinality(intact \cap tampered)
        BY <2>4, FS_Union
    <2>6. Cardinality(intact \cap tampered) = 0
        BY <2>3, FS_EmptySet
    <2>7. Cardinality(intact) \in Nat /\ Cardinality(tampered) \in Nat
        BY <2>4, FS_CardinalityType
    <2>8. Cardinality(intact) + Cardinality(tampered) >= QUORUM
        <3>1. Cardinality(intact \cup tampered) >= QUORUM
            BY <2>1, <2>3
        <3>2. Cardinality(intact \cup tampered) = Cardinality(intact) + Cardinality(tampered)
            BY <2>5, <2>6, <2>7
        <3> QED
            BY <3>1, <3>2
    <2> QED
        BY <2>7, <2>8, QuorumAssumption DEF intact
<1> QED
    BY <1>1, TamperInvHolds, PTL

\* What an audit that says SYNCHRONIZED has read is one chain.
LEMMA OneChain ==
    ASSUME TypeOK, TamperInv, SaysSynchronized,
           NEW m \in DOMAIN audit, NEW n \in DOMAIN audit
    PROVE  audit[m] = audit[n] /\ IsPrefix(audit[n], producer_chain)
<1>1. /\ VerifyChain(audit[m]) /\ VerifyChain(audit[n])
      /\ Len(audit[m]) = Len(audit[n])
    BY DEF SaysSynchronized, Synchronized
<1>2. IsPrefix(audit[m], producer_chain) /\ IsPrefix(audit[n], producer_chain)
    BY <1>1 DEF TamperInv, AuditInv
<1>3. IsSeq(audit[m]) /\ IsSeq(audit[n]) /\ IsSeq(producer_chain)
    BY AuditFacts, TamperSeqs DEF TamperInv
<1>4. \A k \in 1..Len(audit[m]) : audit[m][k] = audit[n][k]
    BY <1>1, <1>2, <1>3, PrefixFacts
<1>5. IsPrefix(audit[m], audit[n])
    <2>1. Len(audit[m]) \in Nat
        BY <1>3, SeqFacts
    <2>2. Len(audit[m]) <= Len(audit[n])
        BY <1>1, <2>1
    <2> QED
        BY <1>3, <1>4, <2>2, PrefixFacts
<1> QED
    BY <1>1, <1>2, <1>3, <1>5, PrefixOfSameLength

\* It has read every file.
LEMMA EveryFileRead ==
    ASSUME TamperInv, SaysSynchronized, NEW v \in Validators
    PROVE  \E k \in DOMAIN audit : VALIDATOR_IDS[k] = v
<1>1. DOMAIN audit = DOMAIN VALIDATOR_IDS
    BY AuditFacts DEF TamperInv, SaysSynchronized
<1> QED
    BY <1>1 DEF Validators, Range

\* When the audit says that the validators are synchronized, the chains it
\* read are the same, intact, and what every untampered file begins with.
THEOREM AuditTellsTheTruthHolds == TamperSpec => []AuditTellsTheTruth
<1>1. (TypeOK /\ OneCallAtATime) /\ TamperInv => AuditTellsTheTruth
    <2> SUFFICES ASSUME TypeOK, TamperInv, SaysSynchronized, NEW n \in DOMAIN audit
                 PROVE  /\ audit[n] = audit[1]
                        /\ IsPrefix(audit[n], producer_chain)
                        /\ \A v \in Validators \ tampered : IsPrefix(audit[n], chain_file[v])
        BY DEF AuditTellsTheTruth
    <2>1. 1 \in DOMAIN audit
        BY AuditFacts DEF TamperInv
    <2>2. audit[n] = audit[1] /\ IsPrefix(audit[n], producer_chain)
        BY <2>1, OneChain
    <2>3. ASSUME NEW v \in Validators \ tampered
          PROVE  IsPrefix(audit[n], chain_file[v])
        <3>1. PICK k \in DOMAIN audit : VALIDATOR_IDS[k] = v
            BY EveryFileRead
        <3>2. IsPrefix(audit[k], chain_file[v])
            BY <3>1 DEF TamperInv, AuditInv
        <3>3. audit[k] = audit[n]
            BY OneChain
        <3> QED
            BY <3>2, <3>3
    <2> QED
        BY <2>2, <2>3
<1> QED
    BY <1>1, TamperInvHolds, TamperTypesHold, PTL

\* While fewer than a quorum are tampered with, it also misses nothing but
\* the last of the blocks that were committed when it began.
THEOREM SynchronizedMeansCompleteHolds == TamperSpec => []SynchronizedMeansComplete
<1>1. (TypeOK /\ OneCallAtATime) /\ TamperInv => SynchronizedMeansComplete
    <2> SUFFICES ASSUME TypeOK, TamperInv, SaysSynchronized, Cardinality(tampered) < QUORUM,
                        NEW n \in DOMAIN audit
                 PROVE  Len(audit[n]) >= audit_start - 1
        BY DEF SynchronizedMeansComplete
    <2>1. TamperTypeOK /\ audit_start \in Nat
        BY DEF TamperInv, TamperTypeOK
    <2>2. Len(audit[n]) \in Nat
        BY <2>1, AuditFacts, SeqFacts
    <2>3. CASE ~(audit_start > 1)
        BY <2>1, <2>2, <2>3
    <2>4. CASE audit_start > 1
        <3>1. audit # <<>>
            BY <2>1, AuditFacts
        <3>2. Cardinality(Witnesses) >= QUORUM
            BY <2>4, <3>1 DEF TamperInv, AuditInv
        <3>3. PICK w \in Witnesses : w \notin tampered
            <4>1. SUFFICES ASSUME Witnesses \subseteq tampered PROVE FALSE
                OBVIOUS
            <4>2. Cardinality(tampered) >= QUORUM
                BY <2>1, <3>2, <4>1, MoreValidators DEF TamperTypeOK
            <4>3. Cardinality(tampered) \in Nat
                BY <2>1, ValidatorsAreFinite, FS_Subset, FS_CardinalityType DEF TamperTypeOK
            <4> QED
                BY <4>2, <4>3, QuorumAssumption
        <3>4. w \in Validators
            BY DEF Witnesses
        <3>5. PICK k \in DOMAIN audit : VALIDATOR_IDS[k] = w
            BY <3>4, EveryFileRead
        <3>6. Len(audit[k]) >= audit_start - 1
            BY <3>3, <3>5 DEF Witnesses
        <3>7. audit[k] = audit[n]
            BY OneChain
        <3> QED
            BY <3>6, <3>7
    <2> QED
        BY <2>3, <2>4
<1> QED
    BY <1>1, TamperInvHolds, TamperTypesHold, PTL

=============================================================================
