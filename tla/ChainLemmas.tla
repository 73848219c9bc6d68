----------------------------- MODULE ChainLemmas -----------------------------
(***************************************************************************)
(* Facts about sequences and about the operators of Blockchain that the    *)
(* proofs about the protocol cite by name.                                 *)
(***************************************************************************)
EXTENDS Blockchain, SequenceTheorems, WellFoundedInduction, TLAPS

-----------------------------------------------------------------------------
(* Sequences.                                                              *)

\* A sequence is a function over 1..Len; only the empty one has length 0.
LEMMA SeqFacts ==
    ASSUME NEW s, IsSeq(s)
    PROVE  /\ Len(s) \in Nat
           /\ DOMAIN s = 1..Len(s)
           /\ s = <<>> <=> Len(s) = 0
           /\ s = [n \in 1..Len(s) |-> s[n]]
<1>1. Len(s) \in Nat /\ DOMAIN s = 1..Len(s) /\ s \in [1..Len(s) -> Range(s)]
    BY LenProperties DEF IsSeq
<1>2. s # <<>> => Len(s) \in Nat \ {0}
    BY EmptySeq DEF IsSeq
<1>3. Len(<<>>) = 0
    BY EmptySeq
<1> QED
    BY <1>1, <1>2, <1>3

\* A function over 1..n is a sequence of length n.
LEMMA FunctionIsSeq ==
    ASSUME NEW n \in Nat, NEW f, f = [i \in 1..n |-> f[i]]
    PROVE  IsSeq(f) /\ Len(f) = n
<1>1. f \in [1..n -> Range(f)]
    BY DEF Range
<1>2. f \in Seq(Range(f))
    BY <1>1, SeqDef
<1>3. DOMAIN f = 1..Len(f) /\ Len(f) \in Nat
    BY <1>2, LenProperties
<1> QED
    BY <1>1, <1>2, <1>3 DEF IsSeq

\* The empty sequence.
LEMMA EmptyIsSeq == IsSeq(<<>>) /\ Len(<<>>) = 0 /\ DOMAIN <<>> = {}
<1>1. <<>> \in Seq(Range(<<>>)) /\ Len(<<>>) = 0
    BY EmptySeq
<1> QED
    BY <1>1, LenProperties DEF IsSeq

\* Append adds one element at the end and keeps the others.
LEMMA AppendFacts ==
    ASSUME NEW s, IsSeq(s), NEW e
    PROVE  /\ IsSeq(Append(s, e))
           /\ Len(Append(s, e)) = Len(s) + 1
           /\ DOMAIN Append(s, e) = 1..(Len(s) + 1)
           /\ \A n \in 1..Len(s) : Append(s, e)[n] = s[n]
           /\ Append(s, e)[Len(s) + 1] = e
<1> DEFINE S == Range(s) \cup {e}
<1>1. s \in Seq(S)
    BY SeqMonotonic DEF IsSeq
<1>2. /\ Append(s, e) \in Seq(S)
      /\ Len(Append(s, e)) = Len(s) + 1
      /\ \A n \in 1..Len(s) : Append(s, e)[n] = s[n]
      /\ Append(s, e)[Len(s) + 1] = e
    BY <1>1, AppendProperties
<1>3. IsSeq(Append(s, e))
    BY <1>2, SeqOfRange DEF IsSeq
<1> QED
    BY <1>2, <1>3, SeqFacts

\* Tail drops the first element, which is the head.
LEMMA TailFacts ==
    ASSUME NEW s, IsSeq(s), s # <<>>
    PROVE  /\ IsSeq(Tail(s))
           /\ Len(Tail(s)) = Len(s) - 1
           /\ DOMAIN Tail(s) = 1..(Len(s) - 1)
           /\ \A n \in 1..(Len(s) - 1) : Tail(s)[n] = s[n + 1]
           /\ Head(s) = s[1]
           /\ 1 \in DOMAIN s
<1>1. /\ Tail(s) \in Seq(Range(s))
      /\ Len(Tail(s)) = Len(s) - 1
      /\ \A n \in 1..Len(Tail(s)) : Tail(s)[n] = s[n + 1]
    BY HeadTailProperties DEF IsSeq
<1>2. IsSeq(Tail(s))
    BY <1>1, SeqOfRange DEF IsSeq
<1>3. Head(s) = s[1]
    BY DEF IsSeq
<1> QED
    BY <1>1, <1>2, <1>3, SeqFacts

\* Prefixes agree position by position.
LEMMA PrefixFacts ==
    ASSUME NEW s, IsSeq(s), NEW t, IsSeq(t)
    PROVE  IsPrefix(s, t) <=> /\ Len(s) <= Len(t)
                              /\ \A n \in 1..Len(s) : s[n] = t[n]
<1>1. Len(s) \in Nat /\ Len(t) \in Nat
    BY SeqFacts
<1>2. \A n \in 1..Len(s) : s[n] \in Range(s)
    BY SeqFacts DEF Range
<1>3. /\ SubSeq(s, 1, Len(s)) \in Seq(Range(s))
      /\ Len(SubSeq(s, 1, Len(s))) = Len(s)
      /\ \A n \in 1..Len(s) : SubSeq(s, 1, Len(s))[n] = s[n]
    BY <1>1, <1>2, SubSeqProperties
<1>4. ASSUME Len(s) <= Len(t)
      PROVE  /\ SubSeq(t, 1, Len(s)) \in Seq(Range(t))
             /\ Len(SubSeq(t, 1, Len(s))) = Len(s)
             /\ \A n \in 1..Len(s) : SubSeq(t, 1, Len(s))[n] = t[n]
    <2>1. \A n \in 1..Len(s) : t[n] \in Range(t)
        BY <1>1, <1>4, SeqFacts DEF Range
    <2> QED
        BY <1>1, <2>1, SubSeqProperties
<1>5. ASSUME IsPrefix(s, t), NEW n \in 1..Len(s)
      PROVE  s[n] = t[n]
    BY <1>3, <1>4, <1>5 DEF IsPrefix
<1>6. ASSUME Len(s) <= Len(t), \A n \in 1..Len(s) : s[n] = t[n]
      PROVE  IsPrefix(s, t)
    <2> DEFINE S == Range(s) \cup Range(t)
    <2>1. SubSeq(s, 1, Len(s)) \in Seq(S) /\ SubSeq(t, 1, Len(s)) \in Seq(S)
        BY <1>3, <1>4, <1>6, SeqMonotonic
    <2>2. SubSeq(s, 1, Len(s)) = SubSeq(t, 1, Len(s))
        BY <1>3, <1>4, <1>6, <2>1, SeqEqual
    <2> QED
        BY <1>6, <2>2 DEF IsPrefix
<1> QED
    BY <1>5, <1>6 DEF IsPrefix

\* Equally long sequences that agree everywhere are equal.
LEMMA PrefixOfSameLength ==
    ASSUME NEW s, IsSeq(s), NEW t, IsSeq(t), IsPrefix(s, t), Len(s) = Len(t)
    PROVE  s = t
BY PrefixFacts, SeqFacts

\* IsPrefix is an order, and appending goes up in it.
LEMMA PrefixOrder ==
    ASSUME NEW s, IsSeq(s)
    PROVE  /\ IsPrefix(s, s)
           /\ IsPrefix(<<>>, s)
           /\ \A e : IsPrefix(s, Append(s, e))
<1>1. IsPrefix(s, s)
    BY PrefixFacts, SeqFacts
<1>2. IsPrefix(<<>>, s)
    BY PrefixFacts, SeqFacts, EmptyIsSeq
<1>3. ASSUME NEW e
      PROVE  IsPrefix(s, Append(s, e))
    <2> DEFINE t == Append(s, e)
    <2>1. IsSeq(t) /\ Len(t) = Len(s) + 1 /\ \A n \in 1..Len(s) : t[n] = s[n]
        BY AppendFacts
    <2>2. Len(s) \in Nat
        BY SeqFacts
    <2> HIDE DEF t
    <2>3. Len(s) <= Len(t)
        BY <2>1, <2>2
    <2>4. IsPrefix(s, t)
        BY <2>1, <2>3, PrefixFacts
    <2> QED
        BY <2>4 DEF t
<1> QED
    BY <1>1, <1>2, <1>3

\* Prefixes of prefixes.
LEMMA PrefixTransitive ==
    ASSUME NEW s, IsSeq(s), NEW t, IsSeq(t), NEW u, IsSeq(u),
           IsPrefix(s, t), IsPrefix(t, u)
    PROVE  IsPrefix(s, u)
BY PrefixFacts, SeqFacts

-----------------------------------------------------------------------------
(* Blocks and chains.                                                      *)

\* A missing proof is well typed.
LEMMA NoProofIsProof == IsProof(NoProof)
BY EmptyIsSeq DEF NoProof, IsProof

\* A new block is well typed, hashes to its current_hash, has the given place.
LEMMA CreateBlockFacts ==
    ASSUME NEW i \in Int, NEW t, NEW l, NEW h
    PROVE  LET b == CreateBlock(i, t, l, h)
           IN  /\ IsBlock(b)
               /\ b.index = i
               /\ b.previous_hash = h
               /\ b.current_hash = CalculateBlockHash(b)
BY NoProofIsProof DEF CreateBlock, CalculateBlockHash, IsBlock, BlockFields

\* The commit proof is outside everything else.
LEMMA AddCommitProofFacts ==
    ASSUME NEW b, IsBlock(b), NEW acks, IsSeq(acks)
    PROVE  LET c == AddCommitProof(b, acks)
           IN  /\ IsBlock(c)
               /\ c.index = b.index
               /\ c.previous_hash = b.previous_hash
               /\ c.current_hash = b.current_hash
<1>1. IsProof([quorum |-> QUORUM, acks |-> acks])
    BY QuorumAssumption DEF IsProof
<1> QED
    BY <1>1 DEF AddCommitProof, IsBlock, BlockFields

\* A prefix of an indexed chain is indexed.
LEMMA PrefixIndexed ==
    ASSUME NEW s, IsSeq(s), NEW t, IsSeq(t), IsPrefix(s, t), Indexed(t)
    PROVE  Indexed(s)
BY PrefixFacts, SeqFacts DEF Indexed

\* Its latest index counts its blocks.
LEMMA LatestIndexOfIndexed ==
    ASSUME NEW s, IsSeq(s), Indexed(s)
    PROVE  GetLatestIndex(s) = Len(s) - 1
BY SeqFacts DEF Indexed, GetLatestIndex

\* get_latest_index returns an integer.
LEMMA LatestIndexType ==
    ASSUME NEW chain, IsChain(chain)
    PROVE  GetLatestIndex(chain) \in Int
BY SeqFacts DEF IsChain, IsBlock, GetLatestIndex

\* A chain and one more block are a chain.
LEMMA AppendIsChain ==
    ASSUME NEW chain, IsChain(chain), NEW b, IsBlock(b)
    PROVE  IsChain(Append(chain, b))
<1>1. /\ IsSeq(Append(chain, b))
      /\ DOMAIN Append(chain, b) = 1..(Len(chain) + 1)
      /\ \A n \in 1..Len(chain) : Append(chain, b)[n] = chain[n]
      /\ Append(chain, b)[Len(chain) + 1] = b
    BY AppendFacts DEF IsChain
<1>2. Len(chain) \in Nat /\ DOMAIN chain = 1..Len(chain)
    BY SeqFacts DEF IsChain
<1> QED
    BY <1>1, <1>2 DEF IsChain

\* So is what append_block_idempotent leaves.
LEMMA ChainAfterAppendIsChain ==
    ASSUME NEW chain, IsChain(chain), NEW b, IsBlock(b)
    PROVE  IsChain(ChainAfterAppend(chain, b))
BY AppendIsChain DEF ChainAfterAppend

\* The idempotent append never drops or changes a block.
LEMMA ChainAfterAppendGrows ==
    ASSUME NEW chain, IsSeq(chain), NEW b
    PROVE  IsPrefix(chain, ChainAfterAppend(chain, b))
BY PrefixOrder DEF ChainAfterAppend

\* An append only happens at the next index and with the next link.
LEMMA AppendedIsNext ==
    ASSUME NEW chain, NEW b, AppendBlockIdempotent(chain, b) = "appended"
    PROVE  ValidateNextBlock(chain, b)
BY DEF AppendBlockIdempotent

\* Appending a block of a chain to one of its prefixes, under whatever order
\* the blocks come in, gives a prefix again.
LEMMA AppendKeepsPrefix ==
    ASSUME NEW whole, IsChain(whole), Indexed(whole),
           NEW chain, IsSeq(chain), IsPrefix(chain, whole),
           NEW b \in Range(whole)
    PROVE  IsPrefix(ChainAfterAppend(chain, b), whole)
<1> DEFINE longer == Append(chain, b)
<1>1. PICK k \in 1..Len(whole) : b = whole[k]
    BY SeqFacts DEF Range, IsChain
<1>2. CASE AppendBlockIdempotent(chain, b) = "appended"
    <2>1. b.index = GetLatestIndex(chain) + 1
        BY <1>2, AppendedIsNext DEF ValidateNextBlock, VerifyBlock
    <2>2. GetLatestIndex(chain) = Len(chain) - 1
        BY PrefixIndexed, LatestIndexOfIndexed DEF IsChain
    <2>3. Len(chain) \in Nat /\ Len(whole) \in Nat /\ whole[k].index = k - 1
        BY <1>1, SeqFacts DEF Indexed, IsChain
    <2>4. k = Len(chain) + 1
        BY <1>1, <2>1, <2>2, <2>3
    <2>5. /\ IsSeq(longer)
          /\ Len(longer) = Len(chain) + 1
          /\ \A n \in 1..Len(chain) : longer[n] = chain[n]
          /\ longer[Len(chain) + 1] = b
        BY AppendFacts
    <2>6. \A n \in 1..Len(chain) : chain[n] = whole[n]
        BY PrefixFacts DEF IsChain
    <2> HIDE DEF longer
    <2>7. \A n \in 1..Len(longer) : longer[n] = whole[n]
        BY <1>1, <2>3, <2>4, <2>5, <2>6
    <2>8. IsPrefix(longer, whole)
        BY <2>3, <2>4, <2>5, <2>7, PrefixFacts DEF IsChain
    <2> QED
        BY <1>2, <2>8 DEF ChainAfterAppend, longer
<1>3. CASE AppendBlockIdempotent(chain, b) # "appended"
    BY <1>3 DEF ChainAfterAppend
<1> QED
    BY <1>2, <1>3

\* Only a validator that has the whole chain accepts a block at its end.
LEMMA AcceptedByUpToDate ==
    ASSUME NEW whole, IsChain(whole), Indexed(whole),
           NEW chain, IsSeq(chain), IsPrefix(chain, whole),
           NEW b, b.index = Len(whole), ValidateNextBlock(chain, b)
    PROVE  chain = whole
<1>1. GetLatestIndex(chain) = Len(chain) - 1
    BY PrefixIndexed, LatestIndexOfIndexed DEF IsChain
<1>2. Len(chain) \in Nat /\ Len(whole) \in Nat
    BY SeqFacts DEF IsChain
<1>3. b.index = GetLatestIndex(chain) + 1
    BY DEF ValidateNextBlock, VerifyBlock
<1>4. Len(chain) = Len(whole)
    BY <1>1, <1>2, <1>3
<1> QED
    BY <1>4, PrefixOfSameLength DEF IsChain

-----------------------------------------------------------------------------
(* Induction.  The library's induction theorems take a predicate as their  *)
(* parameter; these take the set of the numbers it holds of.               *)

\* A set of natural numbers has a least element.
LEMMA LeastNumber ==
    ASSUME NEW T \in SUBSET Nat, T # {}
    PROVE  \E x \in T : \A y \in T : x <= y
<1> DEFINE R == OpToRel(<, Nat)
<1>1. IsWellFoundedOn(R, Nat)
    BY NatLessThanWellFounded
<1>2. \A m, n \in Nat : m < n => <<m, n>> \in R
    BY DEF OpToRel
<1> HIDE DEF R
<1>3. PICK x \in T : \A y \in T : ~(<<y, x>> \in R)
    BY <1>1, WFMin
<1>4. ASSUME NEW y \in T
      PROVE  x <= y
    <2>1. x \in Nat /\ y \in Nat
        OBVIOUS
    <2>2. ~(y < x)
        BY <1>2, <1>3, <2>1, Zenon
    <2> QED
        BY <2>1, <2>2
<1> QED
    BY <1>4

\* A set that contains 0 and with each number the next one contains all.
LEMMA Induction ==
    ASSUME NEW S \in SUBSET Nat, 0 \in S, \A n \in S : n + 1 \in S
    PROVE  S = Nat
<1>1. SUFFICES ASSUME Nat \ S # {}
               PROVE  FALSE
    OBVIOUS
<1>2. PICK x \in Nat \ S : \A y \in Nat \ S : x <= y
    BY <1>1, LeastNumber
<1>3. x # 0 /\ x - 1 \in Nat
    BY <1>2
<1>4. x - 1 \in S
    BY <1>2, <1>3
<1> QED
    BY <1>2, <1>4

-----------------------------------------------------------------------------
(* Chains that verify.                                                     *)

\* The blocks before the n-th one.
LEMMA BeforeFacts ==
    ASSUME NEW s, IsSeq(s), NEW n \in 1..Len(s)
    PROVE  /\ IsSeq(SubSeq(s, 1, n - 1))
           /\ Len(SubSeq(s, 1, n - 1)) = n - 1
           /\ \A k \in 1..(n - 1) : SubSeq(s, 1, n - 1)[k] = s[k]
<1>1. Len(s) \in Nat /\ DOMAIN s = 1..Len(s)
    BY SeqFacts
<1>2. \A k \in 1..(n - 1) : s[k] \in Range(s)
    BY <1>1 DEF Range
<1>3. /\ SubSeq(s, 1, n - 1) \in Seq(Range(s))
      /\ Len(SubSeq(s, 1, n - 1)) = n - 1
      /\ \A k \in 1..(n - 1) : SubSeq(s, 1, n - 1)[k] = s[k]
    <2>1. CASE n = 1
        BY <1>1, <1>2, <2>1, SubSeqProperties
    <2>2. CASE n # 1
        BY <1>1, <1>2, <2>2, SubSeqProperties
    <2> QED
        BY <2>1, <2>2
<1> QED
    BY <1>3, SeqOfRange DEF IsSeq

\* What the blocks before it leave as the latest index and hash.
LEMMA LatestBefore ==
    ASSUME NEW s, IsSeq(s), NEW n \in 1..Len(s)
    PROVE  /\ GetLatestIndex(SubSeq(s, 1, n - 1)) = IF n = 1 THEN -1 ELSE s[n - 1].index
           /\ GetLatestHash(SubSeq(s, 1, n - 1))
                 = IF n = 1 THEN GENESIS_PREVIOUS_HASH ELSE s[n - 1].current_hash
<1> DEFINE t == SubSeq(s, 1, n - 1)
<1>1. /\ IsSeq(t)
      /\ Len(t) = n - 1
      /\ \A k \in 1..(n - 1) : t[k] = s[k]
    BY BeforeFacts
<1>2. t = <<>> <=> n = 1
    BY <1>1, SeqFacts
<1>3. n # 1 => t[Len(t)] = s[n - 1]
    BY <1>1, SeqFacts
<1> HIDE DEF t
<1>4. /\ GetLatestIndex(t) = IF n = 1 THEN -1 ELSE s[n - 1].index
      /\ GetLatestHash(t) = IF n = 1 THEN GENESIS_PREVIOUS_HASH ELSE s[n - 1].current_hash
    BY <1>2, <1>3 DEF GetLatestIndex, GetLatestHash
<1> QED
    BY <1>4 DEF t

\* verify_chain, block by block.
LEMMA VerifyChainParts ==
    ASSUME NEW chain, IsSeq(chain)
    PROVE  VerifyChain(chain) <=>
              \A n \in 1..Len(chain) :
                 /\ chain[n].index = (IF n = 1 THEN -1 ELSE chain[n - 1].index) + 1
                 /\ chain[n].previous_hash = IF n = 1 THEN GENESIS_PREVIOUS_HASH
                                                      ELSE chain[n - 1].current_hash
                 /\ chain[n].current_hash = CalculateBlockHash(chain[n])
<1>1. DOMAIN chain = 1..Len(chain)
    BY SeqFacts
<1>2. ASSUME NEW n \in 1..Len(chain)
      PROVE  VerifyBlock(chain[n], SubSeq(chain, 1, n - 1)) <=>
                /\ chain[n].index = (IF n = 1 THEN -1 ELSE chain[n - 1].index) + 1
                /\ chain[n].previous_hash = IF n = 1 THEN GENESIS_PREVIOUS_HASH
                                                     ELSE chain[n - 1].current_hash
                /\ chain[n].current_hash = CalculateBlockHash(chain[n])
    <2>1. /\ GetLatestIndex(SubSeq(chain, 1, n - 1))
                = IF n = 1 THEN -1 ELSE chain[n - 1].index
          /\ GetLatestHash(SubSeq(chain, 1, n - 1))
                = IF n = 1 THEN GENESIS_PREVIOUS_HASH ELSE chain[n - 1].current_hash
        BY LatestBefore
    <2> QED
        BY <2>1 DEF VerifyBlock
<1> QED
    BY <1>1, <1>2 DEF VerifyChain

\* A chain that verifies counts its blocks.
LEMMA VerifiedIsIndexed ==
    ASSUME NEW chain, IsSeq(chain), VerifyChain(chain)
    PROVE  Indexed(chain)
<1> DEFINE S == {n \in Nat : n + 1 <= Len(chain) => chain[n + 1].index = n}
<1>1. Len(chain) \in Nat
    BY SeqFacts
<1>2. \A n \in 1..Len(chain) :
         chain[n].index = (IF n = 1 THEN -1 ELSE chain[n - 1].index) + 1
    BY VerifyChainParts
<1>3. 0 \in S
    BY <1>1, <1>2
<1>4. ASSUME NEW n \in S
      PROVE  n + 1 \in S
    <2>1. SUFFICES ASSUME n + 2 <= Len(chain)
                   PROVE  chain[n + 2].index = n + 1
        OBVIOUS
    <2>2. chain[n + 2].index = chain[n + 1].index + 1
        <3>1. n + 2 \in 1..Len(chain) /\ n + 2 # 1 /\ (n + 2) - 1 = n + 1
            BY <1>1, <2>1
        <3> QED
            BY <1>2, <3>1
    <2>3. n \in Nat /\ n + 1 <= Len(chain)
        BY <1>1, <2>1
    <2> QED
        BY <2>2, <2>3
<1>5. S = Nat
    <2> HIDE DEF S
    <2>1. S \in SUBSET Nat
        BY DEF S
    <2> QED
        BY <1>3, <1>4, <2>1, Induction
<1>6. ASSUME NEW n \in 1..Len(chain)
      PROVE  chain[n].index = n - 1
    <2>1. n - 1 \in Nat /\ (n - 1) + 1 = n /\ n <= Len(chain)
        BY <1>1
    <2>2. n - 1 \in S
        BY <1>5, <2>1
    <2> QED
        BY <2>1, <2>2
<1> QED
    BY <1>6 DEF Indexed

\* What append_block_idempotent appends to a chain that verifies leaves a
\* chain that verifies.
LEMMA VerifiedAppend ==
    ASSUME NEW chain, IsSeq(chain), VerifyChain(chain), NEW b, ValidateNextBlock(chain, b)
    PROVE  VerifyChain(Append(chain, b))
<1> DEFINE longer == Append(chain, b)
<1>1. /\ IsSeq(longer)
      /\ Len(longer) = Len(chain) + 1
      /\ \A n \in 1..Len(chain) : longer[n] = chain[n]
      /\ longer[Len(chain) + 1] = b
    BY AppendFacts
<1>2. Len(chain) \in Nat /\ (chain = <<>> <=> Len(chain) = 0)
    BY SeqFacts
<1> HIDE DEF longer
<1> DEFINE good(n) ==
       /\ longer[n].index = (IF n = 1 THEN -1 ELSE longer[n - 1].index) + 1
       /\ longer[n].previous_hash = IF n = 1 THEN GENESIS_PREVIOUS_HASH
                                             ELSE longer[n - 1].current_hash
       /\ longer[n].current_hash = CalculateBlockHash(longer[n])
<1>3. ASSUME NEW n \in 1..Len(chain)
      PROVE  good(n)
    <2>1. /\ chain[n].index = (IF n = 1 THEN -1 ELSE chain[n - 1].index) + 1
          /\ chain[n].previous_hash = IF n = 1 THEN GENESIS_PREVIOUS_HASH
                                               ELSE chain[n - 1].current_hash
          /\ chain[n].current_hash = CalculateBlockHash(chain[n])
        BY VerifyChainParts
    <2>2. longer[n] = chain[n] /\ (n # 1 => longer[n - 1] = chain[n - 1])
        BY <1>1, <1>2
    <2> QED
        BY <2>1, <2>2
<1>4. good(Len(chain) + 1)
    <2>1. /\ b.index = GetLatestIndex(chain) + 1
          /\ b.previous_hash = GetLatestHash(chain)
          /\ b.current_hash = CalculateBlockHash(b)
        BY DEF ValidateNextBlock, VerifyBlock
    <2>2. CASE Len(chain) = 0
        BY <1>1, <1>2, <2>1, <2>2 DEF GetLatestIndex, GetLatestHash
    <2>3. CASE Len(chain) # 0
        <3>1. /\ Len(chain) + 1 # 1
              /\ (Len(chain) + 1) - 1 = Len(chain)
              /\ longer[Len(chain)] = chain[Len(chain)]
            BY <1>1, <1>2, <2>3
        <3>2. /\ GetLatestIndex(chain) = chain[Len(chain)].index
              /\ GetLatestHash(chain) = chain[Len(chain)].current_hash
            BY <1>2, <2>3 DEF GetLatestIndex, GetLatestHash
        <3> QED
            BY <1>1, <2>1, <3>1, <3>2
    <2> QED
        BY <2>2, <2>3
<1>5. ASSUME NEW n \in 1..Len(longer)
      PROVE  good(n)
    <2>1. n \in 1..Len(chain) \/ n = Len(chain) + 1
        BY <1>1, <1>2
    <2> HIDE DEF good
    <2> QED
        BY <1>3, <1>4, <2>1
<1>6. VerifyChain(longer)
    BY <1>1, <1>5, VerifyChainParts
<1> QED
    BY <1>6 DEF longer

\* So does whatever the idempotent append does.
LEMMA VerifiedAfterAppend ==
    ASSUME NEW chain, IsSeq(chain), VerifyChain(chain), NEW b
    PROVE  VerifyChain(ChainAfterAppend(chain, b))
BY VerifiedAppend, AppendedIsNext DEF ChainAfterAppend

\* The first blocks of a chain that verifies verify.
LEMMA VerifiedPrefix ==
    ASSUME NEW s, IsSeq(s), NEW t, IsSeq(t), IsPrefix(s, t), VerifyChain(t)
    PROVE  VerifyChain(s)
<1>1. Len(s) \in Nat /\ Len(t) \in Nat /\ Len(s) <= Len(t)
      /\ \A n \in 1..Len(s) : s[n] = t[n]
    BY PrefixFacts, SeqFacts
<1>2. ASSUME NEW n \in 1..Len(s)
      PROVE  /\ s[n].index = (IF n = 1 THEN -1 ELSE s[n - 1].index) + 1
             /\ s[n].previous_hash = IF n = 1 THEN GENESIS_PREVIOUS_HASH
                                              ELSE s[n - 1].current_hash
             /\ s[n].current_hash = CalculateBlockHash(s[n])
    <2>1. n \in 1..Len(t) /\ s[n] = t[n] /\ (n # 1 => s[n - 1] = t[n - 1])
        BY <1>1
    <2> QED
        BY <2>1, VerifyChainParts
<1> QED
    BY <1>2, VerifyChainParts

\* The hash of a block fixes all that the hashes cover in the blocks up to
\* it: two chains that verify and have the same hash at one position have the
\* same hashes before it.
LEMMA SameHashSamePast ==
    ASSUME NEW s, IsSeq(s), VerifyChain(s), NEW t, IsSeq(t), VerifyChain(t),
           NEW n \in 1..Len(s), n <= Len(t), s[n].current_hash = t[n].current_hash
    PROVE  \A k \in 1..n : s[k].current_hash = t[k].current_hash
<1> DEFINE S == {j \in Nat : j < n => s[n - j].current_hash = t[n - j].current_hash}
<1>1. Len(s) \in Nat /\ Len(t) \in Nat /\ n \in Nat
    BY SeqFacts
<1>2. 0 \in S
    BY <1>1
<1>3. ASSUME NEW j \in S
      PROVE  j + 1 \in S
    <2>1. SUFFICES ASSUME j + 1 < n
                   PROVE  s[n - (j + 1)].current_hash = t[n - (j + 1)].current_hash
        OBVIOUS
    <2> DEFINE k == n - j
    <2>2. /\ k \in 1..Len(s) /\ k \in 1..Len(t) /\ k # 1
          /\ k - 1 = n - (j + 1)
          /\ j < n
        BY <1>1, <2>1
    <2>3. s[k].current_hash = t[k].current_hash
        BY <2>2
    <2> HIDE DEF k
    <2>4. s[k].previous_hash = t[k].previous_hash
        <3>1. /\ s[k].current_hash = CalculateBlockHash(s[k])
              /\ t[k].current_hash = CalculateBlockHash(t[k])
            BY <2>2, VerifyChainParts
        <3>2. CalculateBlockHash(s[k]) = CalculateBlockHash(t[k])
            BY <2>3, <3>1
        <3> QED
            BY <3>2 DEF CalculateBlockHash
    <2>5. s[k - 1].current_hash = t[k - 1].current_hash
        BY <2>2, <2>4, VerifyChainParts
    <2> QED
        BY <2>2, <2>5
<1>4. S = Nat
    <2> HIDE DEF S
    <2>1. S \in SUBSET Nat
        BY DEF S
    <2> QED
        BY <1>2, <1>3, <2>1, Induction
<1>5. ASSUME NEW k \in 1..n
      PROVE  s[k].current_hash = t[k].current_hash
    <2>1. n - k \in Nat /\ n - k < n /\ n - (n - k) = k
        BY <1>1
    <2>2. n - k \in S
        BY <1>4, <2>1
    <2> QED
        BY <2>1, <2>2
<1> QED
    BY <1>5

\* No payload has the hash that stands before block 0.
LEMMA NoHashIsGenesis == \A b : CalculateBlockHash(b) # GENESIS_PREVIOUS_HASH
<1> SUFFICES ASSUME NEW b
             PROVE  CalculateBlockHash(b) # GENESIS_PREVIOUS_HASH
    OBVIOUS
<1>1. "zeros" \in DOMAIN GENESIS_PREVIOUS_HASH
    BY DEF GENESIS_PREVIOUS_HASH
<1>2. "zeros" \notin DOMAIN CalculateBlockHash(b)
    BY DEF CalculateBlockHash
<1> QED
    BY <1>1, <1>2

\* Chains that verify and have the same latest hash have the same hashes.
LEMMA SameTipSameHashes ==
    ASSUME NEW s, IsSeq(s), VerifyChain(s), NEW t, IsSeq(t), VerifyChain(t),
           GetLatestHash(s) = GetLatestHash(t)
    PROVE  /\ Len(s) = Len(t)
           /\ \A k \in 1..Len(s) : s[k].current_hash = t[k].current_hash
<1>1. /\ Len(s) \in Nat /\ (s = <<>> <=> Len(s) = 0)
      /\ Len(t) \in Nat /\ (t = <<>> <=> Len(t) = 0)
    BY SeqFacts
<1>2. s # <<>> => GetLatestHash(s) = CalculateBlockHash(s[Len(s)])
    BY <1>1, VerifyChainParts DEF GetLatestHash
<1>3. t # <<>> => GetLatestHash(t) = CalculateBlockHash(t[Len(t)])
    BY <1>1, VerifyChainParts DEF GetLatestHash
<1>4. s = <<>> <=> t = <<>>
    BY <1>2, <1>3, NoHashIsGenesis DEF GetLatestHash
<1>5. CASE s # <<>>
    <2>1. Len(s) \in 1..Len(s) /\ Len(t) \in 1..Len(t)
        BY <1>1, <1>4, <1>5
    <2>2. s[Len(s)].index = t[Len(t)].index
        BY <1>2, <1>3, <1>4, <1>5 DEF CalculateBlockHash
    <2>3. s[Len(s)].index = Len(s) - 1 /\ t[Len(t)].index = Len(t) - 1
        BY <2>1, VerifiedIsIndexed DEF Indexed
    <2>4. Len(s) = Len(t)
        <3>1. Len(s) - 1 = Len(t) - 1
            BY <2>2, <2>3
        <3>2. Len(s) \in Nat /\ Len(t) \in Nat
            BY <1>1
        <3> QED
            BY <3>1, <3>2
    <2>5. s[Len(s)].current_hash = t[Len(s)].current_hash
        BY <1>4, <1>5, <2>4 DEF GetLatestHash
    <2> QED
        BY <2>1, <2>4, <2>5, SameHashSamePast
<1>6. CASE s = <<>>
    BY <1>1, <1>4, <1>6
<1> QED
    BY <1>5, <1>6

=============================================================================
