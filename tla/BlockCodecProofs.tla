-------------------------- MODULE BlockCodecProofs ---------------------------
(***************************************************************************)
(* Proofs about the block codec and about its LZP pass.                    *)
(*                                                                         *)
(* BlockCodec, for blocks of every size: the header always names the chain *)
(* that made the payload, and nothing smaller was thrown away.             *)
(*                                                                         *)
(* Lzp, for blocks and streams of bytes of every length, every rule and    *)
(* every hash: whatever the stream, the decoder stays in bounds; a stream  *)
(* of the encoder it decodes to the block.                                 *)
(***************************************************************************)
EXTENDS BlockCodec, Lzp, FiniteSetTheorems, WellFoundedInduction, TLAPS

-----------------------------------------------------------------------------
(* The competition of the chains                                           *)

(* The chains of transforms try_mixed is called with, and the empty one.   *)
Chains == {<<>>, <<"lzp">>, <<"x86">>, <<"x86", "lzp">>, <<"record">>}

Kept == best # NoPayload

(* Before the first pre-transform everything works on the block itself,    *)
(* and the run coder finds the block sorted.                               *)
OnTheBlock ==
    /\ pc \in {"mixed", "aggressive", "conservative"} =>
         filtered = <<>> /\ stream = size /\ flags = {}
    /\ pc = "mixed" => best = NoPayload /\ offered = {} /\ intermediate = 0
    /\ pc \in {"aggressive", "conservative"} => index \in 1..size

(* The stream of the current chain: shorter than the block exactly when    *)
(* the LZP pass is part of it.                                             *)
StreamOK ==
    /\ filtered \in Chains
    /\ pc = "try" =>
         IF "lzp" \in ToSet(filtered) THEN stream \in 1..(size - 1) ELSE stream = size

(* The four variables the header is made from belong to the best payload.  *)
MixedKept ==
    /\ best.coder = "mixed" /\ best.stages \in Chains
    /\ flags = ToSet(best.stages)
    /\ index = best.index /\ index \in 1..best.stream
    /\ IF "lzp" \in flags THEN intermediate = best.stream /\ intermediate \in 1..(size - 1)
                          ELSE intermediate = 0 /\ best.stream = size

RunsKept ==
    /\ best.coder = "runs" /\ best.stages = <<>> /\ flags = {}
    /\ index = best.index /\ index \in 1..size
    /\ intermediate = best.symbols /\ intermediate \in 1..size

BestOK ==
    Kept => /\ best.size \in Nat \ {0}
            /\ IF contextMixed THEN MixedKept ELSE RunsKept

(* The best payload is no larger than any other.                           *)
OfferedOK ==
    /\ offered \subseteq Nat
    /\ \A n \in offered : Kept /\ best.size <= n

IndInv ==
    /\ size \in Nat \ {0}
    /\ OnTheBlock
    /\ StreamOK
    /\ BestOK
    /\ OfferedOK
    /\ DecodesToTheBlock
    /\ SmallestKept

-----------------------------------------------------------------------------
(* Chains                                                                  *)

(* The transforms of each chain.                                           *)
LEMMA ChainSets ==
    /\ ToSet(<<>>) = {} /\ ToSet(<<"lzp">>) = {"lzp"} /\ ToSet(<<"x86">>) = {"x86"}
    /\ ToSet(<<"x86", "lzp">>) = {"x86", "lzp"} /\ ToSet(<<"record">>) = {"record"}
BY DEF ToSet

(* The order in which decode_block undoes transforms is the reverse of     *)
(* that of every chain, which its set of flags tells apart.                *)
LEMMA ChainUndone ==
    ASSUME NEW h, NEW c \in Chains, h.flags = ToSet(c)
    PROVE  Undone(h) = Reverse(c)
<1>0. "lzp" # "x86" /\ "lzp" # "record" /\ "x86" # "record"
  OBVIOUS
<1>1. CASE c = <<>>
  BY <1>1, ChainSets DEF Undone, Reverse
<1>2. CASE c = <<"lzp">>
  BY <1>0, <1>2, ChainSets DEF Undone, Reverse
<1>3. CASE c = <<"x86">>
  BY <1>0, <1>3, ChainSets DEF Undone, Reverse
<1>4. CASE c = <<"x86", "lzp">>
  BY <1>0, <1>4, ChainSets DEF Undone, Reverse
<1>5. CASE c = <<"record">>
  BY <1>0, <1>5, ChainSets DEF Undone, Reverse
<1> QED
  BY <1>1, <1>2, <1>3, <1>4, <1>5 DEF Chains

-----------------------------------------------------------------------------
(* Steps                                                                   *)

(* The invariant holds before the first block.                             *)
LEMMA InitIndInv == Init => IndInv
<1> SUFFICES ASSUME Init PROVE IndInv
  OBVIOUS
<1> QED
  BY BlockAssumption
     DEF Init, IndInv, OnTheBlock, StreamOK, Chains, BestOK, Kept, OfferedOK, DecodesToTheBlock,
         SmallestKept

(* A payload that is offered and kept or beaten: the best one remains the  *)
(* smallest.                                                               *)
LEMMA OfferedKept ==
    ASSUME OfferedOK, BestOK, NEW payload, payload.size \in Nat \ {0}, payload.coder # "none",
           offered' = offered \cup {payload.size},
           best' = IF Better(payload) THEN payload ELSE best
    PROVE  OfferedOK'
<1>1. payload # NoPayload
  BY DEF NoPayload
<1>2. Kept => best.size \in Nat
  BY DEF BestOK
<1>3. offered' \subseteq Nat
  BY DEF OfferedOK
<1>4. Kept' /\ best'.size <= payload.size /\ (Kept => best'.size <= best.size) /\ best'.size \in Nat
  BY <1>1, <1>2 DEF Kept, Better
<1>5. ASSUME NEW n \in offered PROVE best'.size <= n
  BY <1>2, <1>4 DEF OfferedOK
<1> QED
  BY <1>3, <1>4, <1>5 DEF OfferedOK

(* A step that is neither the end nor changes what is kept.                *)
LEMMA KeepsBest ==
    ASSUME IndInv, pc # "done", pc' # "done",
           UNCHANGED <<size, best, index, contextMixed, intermediate, flags, offered>>,
           OnTheBlock', StreamOK'
    PROVE  IndInv'
<1>1. BestOK' /\ OfferedOK'
  BY DEF IndInv, BestOK, MixedKept, RunsKept, OfferedOK, Kept
<1>2. DecodesToTheBlock' /\ SmallestKept'
  BY DEF DecodesToTheBlock, SmallestKept
<1> QED
  BY <1>1, <1>2 DEF IndInv

(* The mixed candidate, or the block sort alone.                           *)
LEMMA MixFirstStep ==
    ASSUME IndInv, MixFirst
    PROVE  IndInv'
<1>0. /\ filtered = <<>> /\ stream = size /\ flags = {} /\ size \in Nat \ {0} /\ pc = "mixed"
      /\ best = NoPayload /\ offered = {} /\ intermediate = 0 /\ pc' = "aggressive"
      /\ UNCHANGED <<size, thorough, density, filtered, stream, intermediate, flags, header>>
  BY DEF IndInv, OnTheBlock, MixFirst
<1>1. StreamOK'
  BY <1>0 DEF IndInv, StreamOK
<1>2. DecodesToTheBlock' /\ SmallestKept'
  BY <1>0 DEF DecodesToTheBlock, SmallestKept
<1>3. CASE \E payload \in Mixed(size, 0) :
              /\ best' = payload
              /\ index' = payload.index
              /\ contextMixed' = TRUE
              /\ offered' = offered \cup {payload.size}
  <2>1. PICK n \in 1..size, i \in 1..size :
          /\ best' = [size |-> 0 + n, coder |-> "mixed", stages |-> filtered, stream |-> stream,
                      index |-> i, symbols |-> 0]
          /\ index' = i /\ contextMixed' = TRUE /\ offered' = {n}
    BY <1>0, <1>3 DEF Mixed
  <2>2. /\ best'.size = n /\ best'.coder = "mixed" /\ best'.stages = <<>> /\ best'.stream = size
        /\ best'.index = i /\ n \in Nat \ {0}
    BY <1>0, <2>1
  <2>3. OnTheBlock'
    BY <1>0, <2>1 DEF OnTheBlock
  <2>4. BestOK'
    BY <1>0, <2>1, <2>2, ChainSets DEF BestOK, MixedKept, Chains
  <2>5. Kept'
    BY <2>2 DEF Kept, NoPayload
  <2>6. OfferedOK'
    BY <2>1, <2>2, <2>5 DEF OfferedOK
  <2> QED
    BY <1>0, <1>1, <1>2, <2>3, <2>4, <2>6 DEF IndInv
<1>4. CASE index' \in 1..size /\ UNCHANGED <<best, contextMixed, offered>>
  <2>1. OnTheBlock' /\ BestOK' /\ OfferedOK'
    BY <1>0, <1>4 DEF OnTheBlock, BestOK, OfferedOK, Kept
  <2> QED
    BY <1>0, <1>1, <1>2, <2>1 DEF IndInv
<1> QED
  BY <1>3, <1>4 DEF MixFirst

(* The run coder, on the block as it was sorted for the mixed candidate.   *)
LEMMA RunCodeStep ==
    ASSUME IndInv, RunCode
    PROVE  IndInv'
<1>0. /\ filtered = <<>> /\ stream = size /\ flags = {} /\ size \in Nat \ {0}
      /\ index \in 1..size /\ pc \in {"aggressive", "conservative"}
      /\ pc' \in {"conservative", "lzp"}
      /\ UNCHANGED <<size, thorough, density, filtered, stream, index, flags, header>>
  BY DEF IndInv, OnTheBlock, RunCode
<1>1. StreamOK' /\ OnTheBlock'
  BY <1>0 DEF IndInv, StreamOK, OnTheBlock
<1>2. DecodesToTheBlock' /\ SmallestKept'
  BY <1>0 DEF DecodesToTheBlock, SmallestKept
<1>3. ASSUME NEW payload \in RunCoded(RunLimit)
      PROVE  /\ payload.size \in Nat \ {0} /\ payload.coder = "runs" /\ payload.stages = <<>>
             /\ payload.index = index /\ payload.symbols \in 1..size
  <2>1. RunLimit \in Nat \ {0}
    BY <1>0 DEF RunLimit, IndInv, BestOK, Kept
  <2>2. PICK n \in 1..(RunLimit - 1 + FlushBytes), s \in 1..size :
          payload = [size |-> n, coder |-> "runs", stages |-> <<>>, stream |-> size,
                     index |-> index, symbols |-> s]
    BY DEF RunCoded
  <2> QED
    BY <2>1, <2>2, BlockAssumption
<1>4. CASE \E payload \in RunCoded(RunLimit) :
              /\ Better(payload)
              /\ best' = payload
              /\ contextMixed' = FALSE
              /\ intermediate' = payload.symbols
              /\ offered' = offered \cup {payload.size}
  <2>1. PICK payload \in RunCoded(RunLimit) :
              /\ Better(payload)
              /\ best' = payload
              /\ contextMixed' = FALSE
              /\ intermediate' = payload.symbols
              /\ offered' = offered \cup {payload.size}
    BY <1>4
  <2>2. BestOK'
    BY <1>0, <1>3, <2>1 DEF BestOK, RunsKept
  <2>3. OfferedOK'
    BY <1>3, <2>1, OfferedKept DEF IndInv
  <2> QED
    BY <1>0, <1>1, <1>2, <2>2, <2>3 DEF IndInv
<1>5. CASE \E payload \in RunCoded(RunLimit) :
              /\ ~Better(payload)
              /\ offered' = offered \cup {payload.size}
              /\ UNCHANGED <<best, contextMixed, intermediate>>
  <2>1. OfferedOK'
    BY <1>3, <1>5, OfferedKept DEF IndInv
  <2>2. BestOK'
    BY <1>0, <1>5 DEF IndInv, BestOK, MixedKept, RunsKept, Kept
  <2> QED
    BY <1>0, <1>1, <1>2, <2>1, <2>2 DEF IndInv
<1>6. CASE UNCHANGED <<best, contextMixed, intermediate, offered>>
  BY <1>0, <1>1, <1>6, KeepsBest
<1> QED
  BY <1>4, <1>5, <1>6 DEF RunCode

(* A chain is chosen, or passed over.                                      *)
LEMMA ChainStep ==
    ASSUME IndInv, Lzp \/ NoLzp \/ X86 \/ Record
    PROVE  IndInv'
<1>1. /\ pc \in {"lzp", "x86lzp", "x86", "record"} /\ pc' \in {"try", "x86", "record", "choose"}
      /\ UNCHANGED <<size, best, index, contextMixed, intermediate, flags, offered>>
  BY DEF Lzp, NoLzp, X86, Record
<1>2. OnTheBlock'
  BY <1>1 DEF OnTheBlock
<1>3. StreamOK'
  <2>1. CASE Lzp
    <3>1. stream' \in 1..(size - 1) /\ filtered' \in {<<"lzp">>, <<"x86", "lzp">>} /\ size' = size
      BY <2>1 DEF Lzp
    <3> QED
      BY <3>1, ChainSets DEF StreamOK, Chains
  <2>2. CASE pc' # "try"
    BY <2>2 DEF IndInv, StreamOK, Chains, NoLzp, X86, Record, Lzp
  <2>3. CASE (X86 \/ Record) /\ pc' = "try"
    <3>1. stream' = size /\ filtered' \in {<<"x86">>, <<"record">>} /\ size' = size
      BY <2>3 DEF X86, Record
    <3> QED
      BY <3>1, ChainSets DEF StreamOK, Chains
  <2> QED
    BY <2>1, <2>2, <2>3 DEF NoLzp
<1> QED
  BY <1>1, <1>2, <1>3, KeepsBest

(* try_mixed: the four variables of the header change with the payload.    *)
LEMMA TryMixedStep ==
    ASSUME IndInv, TryMixed
    PROVE  IndInv'
<1>0. /\ pc = "try" /\ size \in Nat \ {0} /\ filtered \in Chains
      /\ UNCHANGED <<size, thorough, density, filtered, stream, header>>
      /\ IF "lzp" \in ToSet(filtered) THEN stream \in 1..(size - 1) ELSE stream = size
      /\ stream \in Nat \ {0}
  BY DEF IndInv, StreamOK, TryMixed
<1>1. pc' \in {"x86", "x86lzp", "record", "choose"}
  <2>1. pc' = AfterTry
    BY DEF TryMixed
  <2>2. AfterTry = (CASE filtered = <<"lzp">>        -> "x86"
                      [] filtered = <<"x86">>        -> "x86lzp"
                      [] filtered = <<"x86", "lzp">> -> "record"
                      [] OTHER                       -> "choose")
    BY DEF AfterTry
  <2> QED
    BY <2>1, <2>2
<1>2. OnTheBlock' /\ StreamOK'
  BY <1>0, <1>1 DEF OnTheBlock, StreamOK
<1>3. DecodesToTheBlock' /\ SmallestKept'
  BY <1>1 DEF DecodesToTheBlock, SmallestKept
<1>4. CASE /\ Prefix < Limit
           /\ \E payload \in Mixed(Limit - Prefix, Prefix) :
                /\ offered' = offered \cup {payload.size}
                /\ IF Better(payload)
                     THEN Keep(payload)
                     ELSE UNCHANGED <<best, index, contextMixed, intermediate, flags>>
  <2>1. PICK payload \in Mixed(Limit - Prefix, Prefix) :
                /\ offered' = offered \cup {payload.size}
                /\ IF Better(payload)
                     THEN Keep(payload)
                     ELSE UNCHANGED <<best, index, contextMixed, intermediate, flags>>
    BY <1>4
  <2>2. /\ payload.size \in Nat \ {0} /\ payload.coder = "mixed" /\ payload.stages = filtered
        /\ payload.stream = stream /\ payload.index \in 1..stream
    <3>1. Prefix \in Nat /\ Limit \in Nat
      BY <1>0, BlockAssumption DEF Prefix, Limit, Smaller, IndInv, BestOK, Kept
    <3>2. PICK n \in 1..(Limit - Prefix), i \in 1..stream :
            payload = [size |-> Prefix + n, coder |-> "mixed", stages |-> filtered,
                       stream |-> stream, index |-> i, symbols |-> 0]
      BY DEF Mixed
    <3> QED
      BY <3>1, <3>2
  <2>3. OfferedOK'
    <3>1. best' = IF Better(payload) THEN payload ELSE best
      BY <2>1 DEF Keep
    <3> QED
      BY <2>1, <2>2, <3>1, OfferedKept DEF IndInv
  <2>4. BestOK'
    <3>1. CASE Better(payload)
      <4>1. /\ best' = payload /\ index' = payload.index /\ contextMixed' = TRUE
            /\ flags' = ToSet(filtered)
            /\ intermediate' = IF "lzp" \in ToSet(filtered) THEN stream ELSE 0
        BY <2>1, <3>1 DEF Keep
      <4>2. MixedKept'
        BY <1>0, <2>2, <4>1 DEF MixedKept
      <4> QED
        BY <2>2, <4>1, <4>2 DEF BestOK
    <3>2. CASE ~Better(payload)
      BY <1>0, <2>1, <3>2 DEF IndInv, BestOK, MixedKept, RunsKept, Kept
    <3> QED
      BY <3>1, <3>2
  <2> QED
    BY <1>0, <1>2, <1>3, <2>3, <2>4 DEF IndInv
<1>5. CASE UNCHANGED <<best, index, contextMixed, intermediate, flags, offered>>
  BY <1>0, <1>1, <1>2, <1>5, KeepsBest
<1> QED
  BY <1>4, <1>5 DEF TryMixed

(* The header: it names the payload's chain, and the payload is the        *)
(* smallest there is.                                                      *)
LEMMA ChooseStep ==
    ASSUME IndInv, Choose
    PROVE  IndInv'
<1>0. /\ pc' = "done" /\ size \in Nat \ {0}
      /\ UNCHANGED <<size, thorough, density, filtered, stream, best, index, contextMixed,
                     intermediate, flags, offered>>
  BY DEF IndInv, Choose
<1>1. OnTheBlock' /\ StreamOK' /\ BestOK' /\ OfferedOK'
  BY <1>0 DEF IndInv, OnTheBlock, StreamOK, BestOK, MixedKept, RunsKept, OfferedOK, Kept
<1>2. CASE ~(Kept /\ best.size < size)
  <2>1. header' = [mode |-> "raw", flags |-> {}, originalSize |-> size, payloadSize |-> size,
                   primaryIndex |-> 0, intermediateSize |-> 0]
    BY <1>2 DEF Choose, Kept
  <2>2. MetadataValid(header') /\ Restores(header', best')
    BY <2>1 DEF MetadataValid, Restores
  <2>3. SmallestKept'
    BY <1>0, <1>2, <2>1 DEF IndInv, BestOK, OfferedOK, SmallestKept
  <2> QED
    BY <1>0, <1>1, <2>2, <2>3 DEF IndInv, DecodesToTheBlock
<1>3. CASE Kept /\ best.size < size
  <2>1. header' = [mode |-> IF contextMixed THEN "mixed" ELSE "transformed", flags |-> flags,
                   originalSize |-> size, payloadSize |-> best.size, primaryIndex |-> index,
                   intermediateSize |-> intermediate]
    BY <1>3 DEF Choose, Kept
  <2>2. SmallestKept'
    BY <1>0, <1>3, <2>1 DEF IndInv, BestOK, OfferedOK, SmallestKept
  <2>3. CASE contextMixed
    <3>1. MixedKept
      BY <1>3, <2>3 DEF IndInv, BestOK
    <3>2. MetadataValid(header')
      BY <1>0, <2>1, <2>3, <3>1, ChainSets DEF MixedKept, Chains, MetadataValid
    <3>3. Undone(header') = Reverse(best.stages)
      BY <2>1, <3>1, ChainUndone DEF MixedKept
    <3>4. Restores(header', best')
      BY <1>0, <2>1, <2>3, <3>1, <3>3 DEF MixedKept, Restores
    <3> QED
      BY <1>0, <1>1, <2>2, <3>2, <3>4 DEF IndInv, DecodesToTheBlock
  <2>4. CASE ~contextMixed
    <3>1. RunsKept
      BY <1>3, <2>4 DEF IndInv, BestOK
    <3>2. MetadataValid(header') /\ Restores(header', best')
      BY <1>0, <2>1, <2>4, <3>1 DEF RunsKept, MetadataValid, Restores
    <3> QED
      BY <1>0, <1>1, <2>2, <3>2 DEF IndInv, DecodesToTheBlock
  <2> QED
    BY <2>3, <2>4
<1> QED
  BY <1>2, <1>3

(* The invariant is inductive.                                             *)
LEMMA NextIndInv == IndInv /\ [Next]_vars => IndInv'
<1> SUFFICES ASSUME IndInv, [Next]_vars
            PROVE  IndInv'
  OBVIOUS
<1>1. CASE MixFirst
  BY <1>1, MixFirstStep
<1>2. CASE RunCode
  BY <1>2, RunCodeStep
<1>3. CASE TryMixed
  BY <1>3, TryMixedStep
<1>4. CASE Lzp \/ NoLzp \/ X86 \/ Record
  BY <1>4, ChainStep
<1>5. CASE Choose
  BY <1>5, ChooseStep
<1>6. CASE UNCHANGED vars
  BY <1>6
     DEF IndInv, OnTheBlock, StreamOK, BestOK, MixedKept, RunsKept, Kept, OfferedOK,
         DecodesToTheBlock, SmallestKept, vars
<1> QED
  BY <1>1, <1>2, <1>3, <1>4, <1>5, <1>6 DEF Next, Stopped

-----------------------------------------------------------------------------

(* Index, intermediate size and flags always belong to the payload that is *)
(* the best so far.                                                        *)
THEOREM Invariance == Spec => []IndInv
<1>1. Init => IndInv
  BY InitIndInv
<1>2. IndInv /\ [Next]_vars => IndInv'
  BY NextIndInv
<1> QED
  BY <1>1, <1>2, PTL DEF Spec

(* The decoder accepts every header encode_block returns and undoes        *)
(* exactly the chain that won.                                             *)
THEOREM AlwaysDecodesToTheBlock == Spec => []DecodesToTheBlock
<1>1. IndInv => DecodesToTheBlock
  BY DEF IndInv
<1> QED
  BY <1>1, Invariance, PTL

(* No smaller payload was thrown away, and no block grows.                 *)
THEOREM AlwaysSmallestKept == Spec => []SmallestKept
<1>1. IndInv => SmallestKept
  BY DEF IndInv
<1> QED
  BY <1>1, Invariance, PTL


-----------------------------------------------------------------------------
(* The LZP pass: sets of naturals                                          *)

(* A set of naturals that is not empty has a least element: what stands    *)
(* for induction here.                                                     *)
LEMMA Least ==
    ASSUME NEW T, T \subseteq Nat, T # {}
    PROVE  \E n \in T : \A m \in T : n <= m
<1>1. IsWellFoundedOn(OpToRel(<, Nat), Nat)
  BY NatLessThanWellFounded
<1>2. PICK n \in T : \A m \in T : ~(<<m, n>> \in OpToRel(<, Nat))
  BY <1>1, WFMin
<1>3. \A m \in T : ~(m < n)
  BY <1>2 DEF OpToRel
<1> QED
  BY <1>3

(* A bounded one has a greatest, which is what Max chooses.                *)
LEMMA Greatest ==
    ASSUME NEW bound \in Nat, NEW T, T \subseteq 0..bound, T # {}
    PROVE  Max(T) \in T /\ \A n \in T : n <= Max(T)
<1> DEFINE U == {d \in 0..bound : bound - d \in T}
<1>1. U \subseteq Nat /\ U # {}
  <2>1. PICK n : n \in T
    OBVIOUS
  <2>2. n \in 0..bound /\ bound - n \in 0..bound /\ bound - (bound - n) = n
    BY <2>1
  <2>3. bound - n \in U
    BY <2>1, <2>2
  <2> QED
    BY <2>3
<1>2. PICK d \in U : \A e \in U : d <= e
  <2> HIDE DEF U
  <2> QED
    BY <1>1, Least
<1>3. bound - d \in T /\ d \in 0..bound
  BY <1>2
<1>4. ASSUME NEW n \in T PROVE bound - d >= n
  <2>1. n \in 0..bound /\ bound - n \in 0..bound /\ bound - (bound - n) = n
    BY <1>4
  <2>2. bound - n \in U
    BY <1>4, <2>1
  <2> QED
    BY <2>1, <2>2, <1>2, <1>3
<1>5. \E x \in T : \A y \in T : x >= y
  BY <1>3, <1>4
<1>6. Max(T) \in T /\ \A y \in T : Max(T) >= y
  BY <1>5 DEF Max
<1>7. \A y \in T : y \in Int
  OBVIOUS
<1> QED
  BY <1>6, <1>7

(* What the constants are.                                                 *)
LEMMA Sizes ==
    /\ DigitBase \in Nat /\ DigitBase >= 2 /\ ContextSize \in Nat /\ ContextSize >= 1
    /\ SlotCount \in Nat /\ SlotCount >= 1 /\ MaxDigits \in Nat /\ MaxDigits >= 1
BY LzpAssumption

(* Quotient and remainder of a length.                                     *)
LEMMA Division ==
    ASSUME NEW n \in Nat
    PROVE  /\ n \div DigitBase \in Nat /\ n % DigitBase \in 0..(DigitBase - 1)
           /\ n = (n % DigitBase) + DigitBase * (n \div DigitBase)
<1>1. DigitBase \in Nat /\ DigitBase > 0
  BY Sizes
<1> QED
  BY <1>1

(* What is left of a length after a digit is less.                         *)
LEMMA Shorter ==
    ASSUME NEW n \in Nat, n >= DigitBase
    PROVE  n \div DigitBase \in 1..(n - 1)
<1> DEFINE q == n \div DigitBase
           r == n % DigitBase
<1>1. q \in Nat /\ r \in 0..(DigitBase - 1) /\ n = r + DigitBase * q
  BY Division
<1>2. DigitBase \in Nat /\ DigitBase >= 2
  BY Sizes
<1> HIDE DEF q, r
<1>3. q # 0
  BY <1>1, <1>2
<1>4. DigitBase * q >= 2 * q
  BY <1>1, <1>2
<1>5. DigitBase * q \in Nat
  BY <1>1, <1>2
<1>6. q \in 1..(n - 1)
  BY <1>1, <1>3, <1>4, <1>5
<1> QED
  BY <1>6 DEF q

(* A remainder repeats.                                                    *)
LEMMA RemainderRepeats ==
    ASSUME NEW x \in Nat, NEW d \in Nat, d >= 1
    PROVE  x % d = (x + d) % d
<1> DEFINE q == x \div d
           r == x % d
           p == (x + d) \div d
           s == (x + d) % d
<1>1. q \in Nat /\ r \in 0..(d - 1) /\ x = d * q + r
  OBVIOUS
<1>2. p \in Nat /\ s \in 0..(d - 1) /\ x + d = d * p + s
  <2>1. x + d \in Nat
    OBVIOUS
  <2> QED
    BY <2>1
<1> HIDE DEF q, r, p, s
<1>3. d * q + d + r = d * p + s /\ d * (q + 1) = d * q + d /\ d * q \in Nat /\ d * p \in Nat
  BY <1>1, <1>2
<1>4. CASE p >= q + 2
  <2>1. p - (q + 2) \in Nat /\ p = (q + 2) + (p - (q + 2))
    BY <1>1, <1>2, <1>4
  <2>2. d * ((q + 2) + (p - (q + 2))) = d * q + d + d + d * (p - (q + 2)) /\ d * (p - (q + 2)) \in Nat
    BY <1>1, <2>1
  <2>3. d * p = d * q + d + d + d * (p - (q + 2))
    BY <2>1, <2>2
  <2> QED
    BY <1>1, <1>2, <1>3, <2>2, <2>3
<1>5. CASE p <= q
  <2>1. q - p \in Nat /\ q = p + (q - p)
    BY <1>1, <1>2, <1>5
  <2>2. d * (p + (q - p)) = d * p + d * (q - p) /\ d * (q - p) \in Nat
    BY <1>2, <2>1
  <2>3. d * q = d * p + d * (q - p)
    BY <2>1, <2>2
  <2> QED
    BY <1>1, <1>2, <1>3, <2>2, <2>3
<1>6. CASE p = q + 1
  <2>1. d * p = d * q + d
    BY <1>3, <1>6
  <2> QED
    BY <1>1, <1>2, <1>3, <2>1
<1>7. r = s
  BY <1>1, <1>2, <1>4, <1>5, <1>6
<1> QED
  BY <1>7 DEF r, s

-----------------------------------------------------------------------------
(* Lengths in digits                                                       *)

(* t[v] are the digits of v, for every v up to n.                          *)
Spelled(t, n) ==
    t = [v \in 0..n |-> IF v >= DigitBase
                        THEN <<(v % DigitBase) + DigitBase>> \o t[v \div DigitBase]
                        ELSE <<v>>]

(* Such digits: only the last has no flag.                                 *)
Flags(digits) ==
    /\ digits \in Seq(Bytes) /\ Len(digits) >= 1
    /\ digits[Len(digits)] < DigitBase
    /\ \A i \in 1..(Len(digits) - 1) : digits[i] >= DigitBase

(* n[i] is the number that the digits from the i-th spell.                 *)
Counted(n, digits) ==
    n = [i \in 1..(Len(digits) + 1) |->
            IF i > Len(digits) THEN 0 ELSE (digits[i] % DigitBase) + DigitBase * n[i + 1]]

LEMMA DigitsExist ==
    ASSUME NEW n \in Nat
    PROVE  \E t : Spelled(t, n)
<1> DEFINE T == {m \in Nat : ~\E t : Spelled(t, m)}
<1>1. ASSUME T # {} PROVE FALSE
  <2>1. PICK m \in T : \A i \in T : m <= i
    <3>1. T \subseteq Nat
      OBVIOUS
    <3> HIDE DEF T
    <3> QED
      BY <1>1, <3>1, Least
  <2>2. m \in Nat /\ ~\E t : Spelled(t, m)
    BY <2>1
  <2>3. CASE m = 0
    <3>1. DigitBase \in Nat /\ DigitBase >= 2
      BY Sizes
    <3> DEFINE t == [v \in 0..0 |-> <<v>>]
    <3>2. t = [v \in 0..0 |-> IF v >= DigitBase
                        THEN <<(v % DigitBase) + DigitBase>> \o t[v \div DigitBase]
                        ELSE <<v>>]
      <4>1. \A v \in 0..0 : ~(v >= DigitBase)
        BY <3>1
      <4> QED
        BY <4>1
    <3> HIDE DEF t
    <3> QED
      BY <2>2, <2>3, <3>2 DEF Spelled
  <2>4. CASE m # 0
    <3>1. m - 1 \in Nat /\ ~(m <= m - 1)
      BY <2>2, <2>4
    <3>2. m - 1 \notin T
      BY <2>1, <3>1
    <3>3. PICK t : Spelled(t, m - 1)
      BY <3>1, <3>2
    <3> DEFINE digit(w, v) == IF v >= DigitBase
                                THEN <<(v % DigitBase) + DigitBase>> \o w[v \div DigitBase]
                                ELSE <<v>>
               u == [v \in 0..m |-> IF v = m THEN digit(t, v) ELSE t[v]]
    <3>4. ASSUME NEW v \in 0..m PROVE u[v] = digit(u, v)
      <4>1. v >= DigitBase => v \div DigitBase \in 0..(m - 1) /\ v \div DigitBase # m
                              /\ v \div DigitBase \in 0..m
        <5>1. SUFFICES ASSUME v >= DigitBase
                       PROVE  v \div DigitBase \in 0..(m - 1)
          BY <2>2
        <5>2. v \div DigitBase \in 1..(v - 1)
          BY <5>1, Shorter
        <5> DEFINE q == v \div DigitBase
        <5> HIDE DEF q
        <5>3. q \in 0..(m - 1)
          BY <5>2, <2>2 DEF q
        <5> QED
          BY <5>3 DEF q
      <4>2. v >= DigitBase => u[v \div DigitBase] = t[v \div DigitBase]
        BY <4>1
      <4>3. digit(u, v) = digit(t, v)
        <5>1. CASE v >= DigitBase
          <6>1. u[v \div DigitBase] = t[v \div DigitBase]
            BY <4>2, <5>1
          <6> HIDE DEF u
          <6> QED
            BY <6>1
        <5>2. CASE ~(v >= DigitBase)
          BY <5>2
        <5> QED
          BY <5>1, <5>2
      <4>4. CASE v = m
        BY <4>3, <4>4
      <4>5. CASE v # m
        <5>1. v \in 0..(m - 1)
          BY <4>5, <2>2
        <5>2. t[v] = digit(t, v)
          BY <5>1, <3>3 DEF Spelled
        <5> QED
          BY <4>3, <4>5, <5>2
      <4> QED
        BY <4>4, <4>5
    <3>5. u = [v \in 0..m |-> u[v]]
      OBVIOUS
    <3>6. u = [v \in 0..m |-> digit(u, v)]
      <4> HIDE DEF u, digit
      <4> QED
        BY <3>4, <3>5
    <3>7. Spelled(u, m)
      <4> HIDE DEF u
      <4> QED
        BY <3>6 DEF Spelled
    <3> QED
      BY <2>2, <3>7
  <2> QED
    BY <2>3, <2>4
<1> QED
  BY <1>1

(* Every digit but the last has its flag, and together they spell v.       *)
LEMMA DigitsFlagged ==
    ASSUME NEW n \in Nat, NEW t, Spelled(t, n)
    PROVE  \A v \in 0..n : Flags(t[v])
<1> DEFINE T == {v \in 0..n : ~Flags(t[v])}
<1>1. ASSUME T # {} PROVE FALSE
  <2>1. PICK v \in T : \A i \in T : v <= i
    <3>1. T \subseteq Nat
      OBVIOUS
    <3> HIDE DEF T
    <3> QED
      BY <1>1, <3>1, Least
  <2>2. v \in 0..n /\ v \in Nat /\ ~Flags(t[v])
    BY <2>1
  <2>3. DigitBase \in Nat /\ DigitBase >= 2
    BY Sizes
  <2>4. CASE ~(v >= DigitBase)
    <3>1. t[v] = <<v>>
      BY <2>2, <2>4 DEF Spelled
    <3>2. v \in Bytes /\ v < DigitBase
      BY <2>2, <2>3, <2>4 DEF Bytes
    <3>3. Flags(<<v>>)
      BY <3>2 DEF Flags
    <3> QED
      BY <2>2, <3>1, <3>3
  <2>5. CASE v >= DigitBase
    <3> DEFINE q == v \div DigitBase
               r == v % DigitBase
    <3>1. q \in 1..(v - 1) /\ r \in 0..(DigitBase - 1)
      BY <2>2, <2>5, Shorter, Division
    <3>2. t[v] = <<r + DigitBase>> \o t[q]
      BY <2>2, <2>5 DEF Spelled
    <3> HIDE DEF q, r
    <3>3. q \in 0..n /\ ~(v <= q)
      BY <3>1, <2>2
    <3>4. q \notin T
      BY <2>1, <3>3
    <3>5. Flags(t[q])
      BY <3>3, <3>4
    <3>6. r + DigitBase \in Bytes /\ r + DigitBase >= DigitBase
      BY <3>1, <2>3 DEF Bytes
    <3> DEFINE d == t[q]
               e == r + DigitBase
    <3>7. Flags(d) /\ e \in Bytes /\ e >= DigitBase /\ t[v] = <<e>> \o d
      BY <3>2, <3>5, <3>6
    <3> HIDE DEF d, e
    <3>8. Flags(<<e>> \o d)
      <4>1. d \in Seq(Bytes) /\ Len(d) \in Nat /\ Len(d) >= 1 /\ d[Len(d)] < DigitBase
        BY <3>7 DEF Flags
      <4>2. <<e>> \o d \in Seq(Bytes) /\ Len(<<e>> \o d) = Len(d) + 1
        BY <4>1, <3>7
      <4>3. (<<e>> \o d)[1] = e /\ \A i \in 1..Len(d) : (<<e>> \o d)[i + 1] = d[i]
        BY <4>1
      <4>4. (<<e>> \o d)[Len(d) + 1] = d[Len(d)]
        BY <4>1, <4>3
      <4>5. ASSUME NEW i \in 1..Len(d) PROVE (<<e>> \o d)[i] >= DigitBase
        <5>1. CASE i = 1
          BY <5>1, <4>3, <3>7
        <5>2. CASE i # 1
          <6>1. i - 1 \in 1..(Len(d) - 1) /\ i - 1 \in 1..Len(d) /\ (i - 1) + 1 = i
            BY <5>2, <4>1
          <6>2. (<<e>> \o d)[i] = d[i - 1]
            BY <6>1, <4>3
          <6> QED
            BY <6>1, <6>2, <3>7 DEF Flags
        <5> QED
          BY <5>1, <5>2
      <4> DEFINE s == <<e>> \o d
      <4>6. s \in Seq(Bytes) /\ Len(s) = Len(d) + 1 /\ s[Len(d) + 1] < DigitBase
            /\ \A i \in 1..Len(d) : s[i] >= DigitBase
        BY <4>1, <4>2, <4>4, <4>5
      <4> HIDE DEF s
      <4>7. Flags(s)
        BY <4>1, <4>6 DEF Flags
      <4> QED
        BY <4>7 DEF s
    <3> QED
      BY <2>2, <3>7, <3>8
  <2> QED
    BY <2>4, <2>5
<1> QED
  BY <1>1

(* What digits count to exists and is a number.                            *)
LEMMA CountsExist ==
    ASSUME NEW digits \in Seq(Bytes)
    PROVE  \E n \in [1..(Len(digits) + 1) -> Nat] : Counted(n, digits)
<1> DEFINE L == Len(digits)
           next(n, i) == IF i > L THEN 0 ELSE (digits[i] % DigitBase) + DigitBase * n[i + 1]
           Good(n, k) == n \in [1..(L + 1) -> Nat] /\ \A i \in (L + 1 - k)..(L + 1) : n[i] = next(n, i)
           T == {k \in 0..L : ~\E n : Good(n, k)}
<1>0. L \in Nat /\ DigitBase \in Nat /\ DigitBase >= 2
  BY Sizes
<1>1. ASSUME T # {} PROVE FALSE
  <2>1. PICK k \in T : \A i \in T : k <= i
    <3>1. T \subseteq Nat
      OBVIOUS
    <3> HIDE DEF T
    <3> QED
      BY <1>1, <3>1, Least
  <2>2. k \in 0..L /\ ~\E n : Good(n, k)
    BY <2>1
  <2>3. CASE k = 0
    <3>1. Good([i \in 1..(L + 1) |-> 0], 0)
      BY <1>0
    <3> HIDE DEF Good
    <3> QED
      BY <2>2, <2>3, <3>1
  <2>4. CASE k # 0
    <3>1. k - 1 \in 0..L /\ ~(k <= k - 1) /\ k \in 1..L
      BY <2>2, <2>4, <1>0
    <3>2. k - 1 \notin T
      BY <2>1, <3>1
    <3>3. PICK n : Good(n, k - 1)
      BY <3>1, <3>2
    <3> DEFINE a == L + 1 - k
               m == [i \in 1..(L + 1) |-> IF i = a THEN next(n, a) ELSE n[i]]
    <3>4. a \in 1..L /\ a + 1 \in 1..(L + 1) /\ a \in 1..(L + 1) /\ L + 1 - (k - 1) = a + 1
      BY <3>1, <1>0
    <3>5. n \in [1..(L + 1) -> Nat] /\ \A i \in (a + 1)..(L + 1) : n[i] = next(n, i)
      BY <3>3, <3>4
    <3>6. next(n, a) \in Nat
      <4>1. digits[a] \in Bytes
        BY <3>4
      <4>2. digits[a] \in Nat
        BY <4>1, <1>0 DEF Bytes
      <4>3. digits[a] % DigitBase \in Nat /\ n[a + 1] \in Nat
        <5> DEFINE e == digits[a]
        <5>1. e \in Nat
          BY <4>2
        <5> HIDE DEF e
        <5>2. e % DigitBase \in 0..(DigitBase - 1)
          BY ONLY <5>1, Division
        <5>3. e % DigitBase \in Nat
          BY ONLY <5>2, <1>0
        <5> QED
          BY <5>3, <3>4, <3>5 DEF e
      <4> DEFINE x == digits[a] % DigitBase
                 y == n[a + 1]
      <4> HIDE DEF x, y
      <4>4. x + DigitBase * y \in Nat
        BY <4>3, <1>0 DEF x, y
      <4> QED
        BY <4>4 DEF x, y
    <3>7. m \in [1..(L + 1) -> Nat]
      BY <3>5, <3>6
    <3>8. ASSUME NEW i \in a..(L + 1) PROVE m[i] = next(m, i)
      <4>1. i \in 1..(L + 1) /\ (~(i > L) => i + 1 \in 1..(L + 1) /\ i + 1 # a)
        BY <3>4, <1>0
      <4>2. next(m, i) = next(n, i)
        BY <4>1
      <4>3. CASE i = a
        BY <4>1, <4>2, <4>3
      <4>4. CASE i # a
        <5>1. i \in (a + 1)..(L + 1)
          BY <4>4, <3>4
        <5> QED
          BY <4>1, <4>2, <4>4, <5>1, <3>5
      <4> QED
        BY <4>3, <4>4
    <3>9. Good(m, k)
      <4> HIDE DEF m, next
      <4> QED
        BY <3>7, <3>8
    <3> HIDE DEF Good
    <3> QED
      BY <2>2, <3>9
  <2> QED
    BY <2>3, <2>4
<1>2. PICK n : Good(n, L)
  <2>1. L \in 0..L
    BY <1>0
  <2>2. L \notin T
    BY <1>1
  <2> HIDE DEF Good
  <2> QED
    BY <2>1, <2>2
<1>3. n \in [1..(L + 1) -> Nat] /\ \A i \in 1..(L + 1) : n[i] = next(n, i)
  <2>1. L + 1 - L = 1
    BY <1>0
  <2> QED
    BY <1>2, <2>1
<1>4. n = [i \in 1..(L + 1) |-> next(n, i)]
  <2> HIDE DEF next
  <2> QED
    BY <1>3
<1> QED
  BY <1>3, <1>4 DEF Counted

(* There is only one such count.                                           *)
LEMMA CountUnique ==
    ASSUME NEW digits \in Seq(Bytes), NEW n, Counted(n, digits), NEW m, Counted(m, digits)
    PROVE  n = m
<1> DEFINE L == Len(digits)
           next(f, i) == IF i > L THEN 0 ELSE (digits[i] % DigitBase) + DigitBase * f[i + 1]
           T == {d \in 0..L : n[L + 1 - d] # m[L + 1 - d]}
<1>0. L \in Nat
  OBVIOUS
<1>1. n = [i \in 1..(L + 1) |-> next(n, i)] /\ m = [i \in 1..(L + 1) |-> next(m, i)]
  BY DEF Counted
<1>2. ASSUME T # {} PROVE FALSE
  <2>1. PICK d \in T : \A i \in T : d <= i
    <3>1. T \subseteq Nat
      OBVIOUS
    <3> HIDE DEF T
    <3> QED
      BY <1>2, <3>1, Least
  <2>2. d \in 0..L /\ n[L + 1 - d] # m[L + 1 - d]
    BY <2>1
  <2>3. d # 0
    <3>1. L + 1 - 0 \in 1..(L + 1) /\ L + 1 - 0 > L
      BY <1>0
    <3> QED
      BY <1>1, <2>2, <3>1
  <2>4. d - 1 \in 0..L /\ ~(d <= d - 1) /\ L + 1 - (d - 1) = (L + 1 - d) + 1 /\ L + 1 - d \in 1..(L + 1)
    BY <2>2, <2>3, <1>0
  <2>5. d - 1 \notin T
    BY <2>1, <2>4
  <2>6. n[(L + 1 - d) + 1] = m[(L + 1 - d) + 1]
    BY <2>4, <2>5
  <2>7. next(n, L + 1 - d) = next(m, L + 1 - d)
    BY <2>6
  <2> HIDE DEF next
  <2> QED
    BY <1>1, <2>2, <2>4, <2>7
<1>3. ASSUME NEW i \in 1..(L + 1) PROVE n[i] = m[i]
  <2>1. L + 1 - i \in 0..L /\ L + 1 - (L + 1 - i) = i
    BY <1>0
  <2>2. L + 1 - i \notin T
    BY <1>2
  <2> QED
    BY <2>1, <2>2
<1> HIDE DEF next
<1> QED
  BY <1>1, <1>3

(* Number is what any count ends with.                                     *)
LEMMA NumberIs ==
    ASSUME NEW digits \in Seq(Bytes), NEW n, Counted(n, digits)
    PROVE  Number(digits) = n[1]
<1> DEFINE f == CHOOSE g : Counted(g, digits)
<1>1. Counted(f, digits)
  OBVIOUS
<1>2. f = n
  <2> HIDE DEF f
  <2> QED
    BY <1>1, CountUnique
<1>3. Number(digits) = f[1]
  BY DEF Number, Counted
<1> QED
  BY <1>2, <1>3

(* It is a number.                                                         *)
LEMMA NumberNat ==
    ASSUME NEW digits \in Seq(Bytes)
    PROVE  Number(digits) \in Nat
<1>1. PICK n \in [1..(Len(digits) + 1) -> Nat] : Counted(n, digits)
  BY CountsExist
<1>2. Number(digits) = n[1]
  BY <1>1, NumberIs
<1> QED
  BY <1>1, <1>2

(* One more digit in front.                                                *)
LEMMA NumberStep ==
    ASSUME NEW digits \in Seq(Bytes), NEW digit \in Bytes
    PROVE  Number(<<digit>> \o digits) = (digit % DigitBase) + DigitBase * Number(digits)
<1> DEFINE L == Len(digits)
           s == <<digit>> \o digits
<1>1. PICK m \in [1..(L + 1) -> Nat] : Counted(m, digits)
  BY CountsExist
<1> DEFINE n == [i \in 1..(L + 2) |-> IF i = 1 THEN (digit % DigitBase) + DigitBase * m[1] ELSE m[i - 1]]
           next(i) == IF i > L + 1 THEN 0 ELSE (s[i] % DigitBase) + DigitBase * n[i + 1]
<1>2. L \in Nat /\ s \in Seq(Bytes) /\ Len(s) = L + 1 /\ s[1] = digit /\ \A i \in 1..L : s[i + 1] = digits[i]
  OBVIOUS
<1>3. m = [i \in 1..(L + 1) |-> IF i > L THEN 0 ELSE (digits[i] % DigitBase) + DigitBase * m[i + 1]]
  BY <1>1 DEF Counted
<1>4. ASSUME NEW i \in 1..(L + 2) PROVE n[i] = next(i)
  <2>1. CASE i = 1
    <3>1. ~(1 > L + 1) /\ 1 + 1 \in 1..(L + 2) /\ 1 + 1 # 1 /\ (1 + 1) - 1 = 1 /\ 1 \in 1..(L + 2)
      BY <1>2
    <3>2. n[1 + 1] = m[1] /\ n[1] = (digit % DigitBase) + DigitBase * m[1]
      BY <3>1
    <3> HIDE DEF n, s
    <3> QED
      BY <2>1, <3>1, <3>2, <1>2
  <2>2. CASE i # 1
    <3>1. i - 1 \in 1..(L + 1) /\ (i > L + 1) = (i - 1 > L) /\ (i - 1) + 1 = i
      BY <2>2, <1>2
    <3>2. n[i] = m[i - 1]
      BY <2>2
    <3>3. CASE i > L + 1
      BY <3>1, <3>2, <3>3, <1>3
    <3>4. CASE ~(i > L + 1)
      <4>1. i + 1 \in 1..(L + 2) /\ i + 1 # 1 /\ (i + 1) - 1 = i /\ i - 1 \in 1..L
        BY <3>1, <3>4, <1>2
      <4>2. n[i + 1] = m[i]
        BY <4>1
      <4>3. s[i] = digits[i - 1]
        BY <4>1, <3>1, <1>2
      <4>4. m[i - 1] = (digits[i - 1] % DigitBase) + DigitBase * m[i]
        BY <1>3, <3>1, <3>4
      <4> HIDE DEF n, s
      <4> QED
        BY <3>2, <3>4, <4>2, <4>3, <4>4
    <3> QED
      BY <3>3, <3>4
  <2> QED
    BY <2>1, <2>2
<1>5. n = [i \in 1..(L + 2) |-> n[i]]
  OBVIOUS
<1>6. n = [i \in 1..(L + 2) |-> next(i)]
  <2> HIDE DEF n, next
  <2> QED
    BY <1>4, <1>5
<1>7. Counted(n, s)
  <2>1. (L + 1) + 1 = L + 2
    BY <1>2
  <2> HIDE DEF n, s
  <2> QED
    BY <1>2, <1>6, <2>1 DEF Counted
<1>8. Number(s) = n[1]
  <2> HIDE DEF n, s
  <2> QED
    BY <1>2, <1>7, NumberIs
<1>9. Number(digits) = m[1]
  BY <1>1, NumberIs
<1>10. 1 \in 1..(L + 2)
  BY <1>2
<1> QED
  BY <1>8, <1>9, <1>10

LEMMA NumberNone == Number(<<>>) = 0
<1> DEFINE n == [i \in 1..1 |-> 0]
<1>1. Counted(n, <<>>)
  <2>1. Len(<<>>) = 0 /\ 1..(0 + 1) = 1..1 /\ \A i \in 1..1 : i > 0
    OBVIOUS
  <2>2. n = [i \in 1..(0 + 1) |-> IF i > 0 THEN 0 ELSE (<<>>[i] % DigitBase) + DigitBase * n[i + 1]]
    BY <2>1
  <2> HIDE DEF n
  <2> QED
    BY <2>1, <2>2 DEF Counted
<1>2. <<>> \in Seq(Bytes)
  OBVIOUS
<1>3. n[1] = 0
  OBVIOUS
<1> HIDE DEF n
<1> QED
  BY <1>1, <1>2, <1>3, NumberIs

(* What lzp_put_length writes, the decoder reads.                          *)
LEMMA DigitsSpell ==
    ASSUME NEW n \in Nat, NEW t, Spelled(t, n)
    PROVE  \A v \in 0..n : Number(t[v]) = v
<1> DEFINE T == {v \in 0..n : Number(t[v]) # v}
<1>1. ASSUME T # {} PROVE FALSE
  <2>1. PICK v \in T : \A i \in T : v <= i
    <3>1. T \subseteq Nat
      OBVIOUS
    <3> HIDE DEF T
    <3> QED
      BY <1>1, <3>1, Least
  <2>2. v \in 0..n /\ v \in Nat /\ Number(t[v]) # v
    BY <2>1
  <2>3. DigitBase \in Nat /\ DigitBase >= 2
    BY Sizes
  <2>4. CASE ~(v >= DigitBase)
    <3>1. t[v] = <<v>> \o <<>>
      BY <2>2, <2>4 DEF Spelled
    <3>2. v \in Bytes /\ <<>> \in Seq(Bytes)
      BY <2>2, <2>3, <2>4 DEF Bytes
    <3>3. Number(t[v]) = (v % DigitBase) + DigitBase * 0
      BY <3>1, <3>2, NumberStep, NumberNone
    <3>4. v % DigitBase = v
      BY <2>2, <2>3, <2>4
    <3> QED
      BY <2>2, <2>3, <3>3, <3>4
  <2>5. CASE v >= DigitBase
    <3> DEFINE q == v \div DigitBase
               r == v % DigitBase
    <3>1. q \in 1..(v - 1) /\ r \in 0..(DigitBase - 1) /\ v = r + DigitBase * q
      BY <2>2, <2>5, Shorter, Division
    <3>2. t[v] = <<r + DigitBase>> \o t[q]
      BY <2>2, <2>5 DEF Spelled
    <3> HIDE DEF q, r
    <3>3. q \in 0..n /\ ~(v <= q)
      BY <3>1, <2>2
    <3>4. q \notin T
      BY <2>1, <3>3
    <3>5. Number(t[q]) = q /\ t[q] \in Seq(Bytes)
      BY <3>3, <3>4, DigitsFlagged DEF Flags
    <3>6. r + DigitBase \in Bytes
      BY <3>1, <2>3 DEF Bytes
    <3>7. Number(t[v]) = ((r + DigitBase) % DigitBase) + DigitBase * q
      BY <3>2, <3>5, <3>6, NumberStep
    <3>8. (r + DigitBase) % DigitBase = r
      BY <3>1, <2>3
    <3> QED
      BY <2>2, <3>1, <3>7, <3>8
  <2> QED
    BY <2>4, <2>5
<1> QED
  BY <1>1

(* What the encoder writes of a length, with the flags the decoder stops   *)
(* by and the number it finds.                                             *)
LEMMA LengthCoded ==
    ASSUME NEW v \in Nat
    PROVE  Flags(LengthDigits(v)) /\ Number(LengthDigits(v)) = v
<1> DEFINE t == CHOOSE f : Spelled(f, v)
<1>1. Spelled(t, v)
  BY DigitsExist
<1>2. LengthDigits(v) = t[v]
  BY DEF LengthDigits, Spelled
<1> HIDE DEF t
<1>3. v \in 0..v
  OBVIOUS
<1> QED
  BY <1>1, <1>2, <1>3, DigitsFlagged, DigitsSpell

-----------------------------------------------------------------------------
(* Tables and matches                                                      *)

Slots == 0..(SlotCount - 1)

(* Every block has a least frequent byte, which is a byte.                 *)
LEMMA MarkerByte ==
    ASSUME NEW block \in Seq(Bytes)
    PROVE  Marker(block) \in Bytes
<1> DEFINE frequency == [b \in Bytes |-> Cardinality({i \in DOMAIN block : block[i] = b})]
           before(b, c) == frequency[b] < frequency[c] \/ (frequency[b] = frequency[c] /\ b <= c)
           F == {frequency[b] : b \in Bytes}
<1>1. Bytes \subseteq Nat /\ 0 \in Bytes
  BY Sizes DEF Bytes
<1>2. F \subseteq Nat
  <2>1. ASSUME NEW b \in Bytes PROVE frequency[b] \in Nat
    <3>1. IsFiniteSet(1..Len(block)) /\ DOMAIN block = 1..Len(block)
      BY FS_Interval
    <3>2. IsFiniteSet({i \in DOMAIN block : block[i] = b})
      BY <3>1, FS_Subset
    <3> QED
      BY <3>2, FS_CardinalityType
  <2> QED
    BY <2>1
<1>3. PICK f \in F : \A g \in F : f <= g
  <2>1. F # {}
    BY <1>1
  <2> HIDE DEF F
  <2> QED
    BY <1>2, <2>1, Least
<1> DEFINE B == {b \in Bytes : frequency[b] = f}
<1>4. PICK b \in B : \A c \in B : b <= c
  <2>1. B # {} /\ B \subseteq Nat
    BY <1>1
  <2> HIDE DEF B
  <2> QED
    BY <2>1, Least
<1>5. ASSUME NEW c \in Bytes PROVE before(b, c)
  <2>1. frequency[b] = f /\ frequency[c] \in F /\ frequency[c] \in Nat /\ f \in Nat
    BY <1>2
  <2> DEFINE x == frequency[c]
             y == frequency[b]
  <2>2. f <= x
    BY <2>1, <1>3
  <2>3. x = f => b <= c
    BY <1>4
  <2> HIDE DEF x, y, frequency
  <2>4. y < x \/ (y = x /\ b <= c)
    BY <2>1, <2>2, <2>3 DEF x, y
  <2> QED
    BY <2>4 DEF x, y
<1>6. \E d \in Bytes : \A c \in Bytes : before(d, c)
  <2> HIDE DEF before
  <2> QED
    BY <1>5
<1>7. Marker(block) = CHOOSE d \in Bytes : \A c \in Bytes : before(d, c)
  BY DEF Marker
<1> HIDE DEF before
<1> QED
  BY <1>6, <1>7

(* lzp_slot finds a slot of the table.                                     *)
LEMMA SlotInTable ==
    ASSUME NEW bytes \in Seq(Bytes), NEW at \in 0..Len(bytes), at >= ContextSize
    PROVE  Slot(bytes, at) \in Slots
<1> DEFINE m == at - ContextSize + 1
<1>0. m \in 1..at /\ at <= Len(bytes) /\ at - m + 1 = ContextSize
  BY Sizes
<1>1. SubSeq(bytes, m, at) \in [1..ContextSize -> Bytes]
  <2> HIDE DEF m
  <2>1. SubSeq(bytes, m, at) = [i \in 1..(at - m + 1) |-> bytes[i + m - 1]]
    BY <1>0
  <2>2. \A i \in 1..(at - m + 1) : i + m - 1 \in 1..Len(bytes)
    BY <1>0
  <2>3. \A i \in 1..ContextSize : bytes[i + m - 1] \in Bytes
    BY <1>0, <2>2
  <2> QED
    BY <1>0, <2>1, <2>3
<1> QED
  BY <1>1, LzpAssumption DEF Slot, Slots

(* And looks at no byte but those before the position.                     *)
LEMMA SlotSame ==
    ASSUME NEW b \in Seq(Bytes), NEW c \in Seq(Bytes), NEW at \in Nat,
           at <= Len(b), at <= Len(c), \A i \in 1..at : b[i] = c[i],
           at >= ContextSize
    PROVE  Slot(b, at) = Slot(c, at)
<1> DEFINE m == at - ContextSize + 1
<1>0. m \in 1..at /\ at <= Len(b) /\ at <= Len(c)
  BY Sizes
<1>1. SubSeq(b, m, at) = SubSeq(c, m, at)
  <2> HIDE DEF m
  <2>1. SubSeq(b, m, at) = [i \in 1..(at - m + 1) |-> b[i + m - 1]]
    BY <1>0
  <2>2. SubSeq(c, m, at) = [i \in 1..(at - m + 1) |-> c[i + m - 1]]
    BY <1>0
  <2>3. \A i \in 1..(at - m + 1) : i + m - 1 \in 1..at
    BY <1>0
  <2> QED
    BY <2>1, <2>2, <2>3
<1>2. Hash(SubSeq(b, m, at)) = Hash(SubSeq(c, m, at))
  BY <1>1, Zenon
<1> QED
  BY <1>2 DEF Slot

(* A prediction is of a position that was seen.                            *)
LEMMA PredictedSeen ==
    ASSUME NEW bytes \in Seq(Bytes), NEW at \in 0..Len(bytes), NEW n \in Nat,
           NEW table \in [Slots -> 0..n]
    PROVE  Predicted(table, bytes, at) \in 0..n
<1>1. CASE at >= ContextSize
  BY <1>1, SlotInTable DEF Predicted
<1>2. CASE ~(at >= ContextSize)
  BY <1>2 DEF Predicted
<1> QED
  BY <1>1, <1>2

(* A table knows no position beyond the last it was shown.                 *)
LEMMA MarkedSeen ==
    ASSUME NEW first \in Nat, NEW next \in Nat, first <= next,
           NEW table \in [Slots -> 0..first], NEW bytes
    PROVE  Marked(table, bytes, first, next - 1) \in [Slots -> 0..next]
<1> DEFINE seen(slot) == {p \in first..(next - 1) : p >= ContextSize /\ Slot(bytes, p) = slot}
<1>1. ASSUME NEW slot \in Slots
      PROVE  (IF seen(slot) = {} THEN table[slot] ELSE Max(seen(slot)) + 1) \in 0..next
  <2>1. CASE seen(slot) = {}
    <3>1. table[slot] \in 0..first
      OBVIOUS
    <3> HIDE DEF seen
    <3> QED
      BY <2>1, <3>1
  <2>2. CASE seen(slot) # {}
    <3>1. seen(slot) \subseteq first..(next - 1) /\ seen(slot) \subseteq 0..next
      OBVIOUS
    <3> HIDE DEF seen
    <3>2. Max(seen(slot)) \in seen(slot)
      BY <2>2, <3>1, Greatest
    <3>3. Max(seen(slot)) \in first..(next - 1)
      BY <3>1, <3>2
    <3> DEFINE x == Max(seen(slot))
    <3> HIDE DEF x
    <3>4. x + 1 \in 0..next
      BY <3>3 DEF x
    <3> QED
      BY <2>2, <3>4 DEF x
  <2> QED
    BY <2>1, <2>2
<1>2. Marked(table, bytes, first, next - 1)
        = [slot \in Slots |-> IF seen(slot) = {} THEN table[slot] ELSE Max(seen(slot)) + 1]
  BY DEF Marked
<1> HIDE DEF seen
<1> QED
  BY <1>1, <1>2

(* Both sides mark the same, if they have seen the same bytes.             *)
LEMMA MarkedSame ==
    ASSUME NEW b \in Seq(Bytes), NEW c \in Seq(Bytes), NEW first \in Nat, NEW last \in Int,
           last <= Len(b), last <= Len(c), \A i \in 1..last : b[i] = c[i], NEW table
    PROVE  Marked(table, b, first, last) = Marked(table, c, first, last)
<1>1. ASSUME NEW p \in first..last, p >= ContextSize PROVE Slot(b, p) = Slot(c, p)
  <2>1. p \in Nat /\ p <= Len(b) /\ p <= Len(c) /\ \A i \in 1..p : b[i] = c[i]
    OBVIOUS
  <2> QED
    BY <1>1, <2>1, SlotSame
<1>2. \A slot : {p \in first..last : p >= ContextSize /\ Slot(b, p) = slot}
                  = {p \in first..last : p >= ContextSize /\ Slot(c, p) = slot}
  BY <1>1
<1> QED
  BY <1>2 DEF Marked

(* The bytes of a match, one by one.                                       *)
Copies(f, source, count) ==
    f = [k \in 1..count |-> IF source + k <= Len(decoded) THEN decoded[source + k]
                                                          ELSE f[source + k - Len(decoded)]]

(* They repeat what lies between the source and the end.                   *)
LEMMA CopyExists ==
    ASSUME decoded \in Seq(Bytes), NEW source \in Nat, source < Len(decoded), NEW count \in Nat
    PROVE  \E f \in [1..count -> Bytes] : Copies(f, source, count)
<1> DEFINE L == Len(decoded)
           d == L - source
           f == [k \in 1..count |-> decoded[source + 1 + ((k - 1) % d)]]
           next(k) == IF source + k <= L THEN decoded[source + k] ELSE f[source + k - L]
<1>1. L \in Nat /\ d \in Nat /\ d >= 1 /\ source + d = L
  OBVIOUS
<1>2. ASSUME NEW k \in 1..count PROVE f[k] \in Bytes /\ f[k] = next(k)
  <2>1. (k - 1) % d \in 0..(d - 1)
    <3>1. k - 1 \in Nat
      OBVIOUS
    <3> HIDE DEF d
    <3> QED
      BY <3>1, <1>1
  <2>2. source + 1 + ((k - 1) % d) \in 1..L
    <3> DEFINE r == (k - 1) % d
    <3>1. r \in 0..(d - 1)
      BY <2>1
    <3> HIDE DEF r, d, L
    <3>2. source + 1 + r \in 1..L
      BY <1>1, <3>1
    <3> QED
      BY <3>2 DEF r
  <2>3. f[k] \in Bytes
    BY <2>2
  <2>4. CASE source + k <= L
    <3>1. k - 1 \in 0..(d - 1)
      BY <2>4, <1>1
    <3>2. (k - 1) % d = k - 1
      <4> HIDE DEF d
      <4> QED
        BY <3>1, <1>1
    <3>3. source + 1 + (k - 1) = source + k
      OBVIOUS
    <3> QED
      BY <2>3, <2>4, <3>2, <3>3
  <2>5. CASE ~(source + k <= L)
    <3>1. k - d \in 1..count /\ source + k - L = k - d /\ (k - 1) - d \in Nat /\ (k - d) - 1 = (k - 1) - d
      BY <2>5, <1>1
    <3>2. ((k - 1) - d) % d = (k - 1) % d
      <4>1. ((k - 1) - d) + d = k - 1
        BY <1>1
      <4> HIDE DEF d
      <4> QED
        BY <3>1, <4>1, <1>1, RemainderRepeats
    <3>3. f[k - d] = decoded[source + 1 + (((k - 1) - d) % d)]
      BY <3>1
    <3> QED
      BY <2>3, <2>5, <3>1, <3>2, <3>3
  <2> QED
    BY <2>4, <2>5
<1>3. f = [k \in 1..count |-> f[k]]
  OBVIOUS
<1>4. f = [k \in 1..count |-> next(k)] /\ f \in [1..count -> Bytes]
  <2> HIDE DEF f, next
  <2> QED
    BY <1>2, <1>3
<1> HIDE DEF f
<1> QED
  BY <1>4 DEF Copies

LEMMA CopyUnique ==
    ASSUME decoded \in Seq(Bytes), NEW source \in Nat, source < Len(decoded), NEW count \in Nat,
           NEW f, Copies(f, source, count), NEW g, Copies(g, source, count)
    PROVE  f = g
<1> DEFINE L == Len(decoded)
           next(h, k) == IF source + k <= L THEN decoded[source + k] ELSE h[source + k - L]
           T == {k \in 1..count : f[k] # g[k]}
<1>1. f = [k \in 1..count |-> next(f, k)] /\ g = [k \in 1..count |-> next(g, k)]
  BY DEF Copies
<1>2. ASSUME T # {} PROVE FALSE
  <2>1. PICK k \in T : \A i \in T : k <= i
    <3>1. T \subseteq Nat
      OBVIOUS
    <3> HIDE DEF T
    <3> QED
      BY <1>2, <3>1, Least
  <2>2. k \in 1..count /\ f[k] # g[k]
    BY <2>1
  <2>3. L \in Nat
    OBVIOUS
  <2>4. ~(source + k <= L)
    BY <1>1, <2>2
  <2>5. source + k - L \in 1..count /\ ~(k <= source + k - L)
    BY <2>2, <2>3, <2>4
  <2>6. f[source + k - L] = g[source + k - L]
    BY <2>1, <2>5
  <2>7. next(f, k) = next(g, k)
    BY <2>6
  <2> HIDE DEF next
  <2> QED
    BY <1>1, <2>2, <2>7
<1>3. \A k \in 1..count : f[k] = g[k]
  BY <1>2
<1> HIDE DEF next
<1> QED
  BY <1>1, <1>3

LEMMA CopiedIs ==
    ASSUME decoded \in Seq(Bytes), NEW source \in Nat, source < Len(decoded), NEW count \in Nat
    PROVE  /\ Copied(source, count) \in [1..count -> Bytes]
           /\ \A f : Copies(f, source, count) => Copied(source, count) = f
<1> DEFINE g == CHOOSE f : Copies(f, source, count)
<1>1. PICK h \in [1..count -> Bytes] : Copies(h, source, count)
  BY CopyExists
<1>2. Copies(g, source, count)
  BY <1>1
<1>3. Copied(source, count) = g
  BY DEF Copied, Copies
<1> HIDE DEF g
<1>4. \A f : Copies(f, source, count) => g = f
  BY <1>2, CopyUnique
<1> QED
  BY <1>1, <1>3, <1>4

-----------------------------------------------------------------------------
(* What both sides do to their state                                       *)

TypeInv ==
    /\ phase \in {"encode", "none", "decode", "done", "rejected"}
    /\ rule \in Rules
    /\ input \in Seq(Bytes) /\ coded \in Seq(Bytes) /\ decoded \in Seq(Bytes)
    /\ encIndex \in 0..Len(input) /\ position \in Nat \ {0}
    /\ expectedSize \in Nat /\ Len(decoded) <= expectedSize
    /\ encTable \in [Slots -> 0..encIndex]
    /\ decTable \in [Slots -> 0..Len(decoded)]

(* The digits after a marker, up to the first without a flag.              *)
LEMMA LengthEndIs ==
    ASSUME coded \in Seq(Bytes), position \in Nat \ {0}, position < Len(coded)
    PROVE  /\ LengthEnd \in 0..(Len(coded) - position - 1)
           /\ \A m \in 1..(Len(coded) - position - 1) :
                /\ coded[position + 1 + m] < DigitBase
                /\ \A i \in 1..(m - 1) : coded[position + 1 + i] >= DigitBase
                => LengthEnd = m
<1> DEFINE room == Len(coded) - position - 1
           rest == SubSeq(coded, position + 2, Len(coded))
           I == {i \in 1..Len(rest) : rest[i] < DigitBase}
<1>1. room \in Nat /\ DigitBase \in Nat
  BY Sizes
<1>2. /\ Len(rest) = room /\ \A i \in 1..room : rest[i] = coded[position + 1 + i]
      /\ \A i \in 1..room : rest[i] \in Nat
  <2>1. rest = [i \in 1..room |-> coded[position + 1 + i]]
    <3>1. Len(coded) - (position + 2) + 1 = room /\ \A i \in 1..room : i + (position + 2) - 1 = position + 1 + i
      OBVIOUS
    <3>2. position + 2 \in Nat /\ position + 2 >= 1
      OBVIOUS
    <3> QED
      BY <3>1, <3>2, <1>1
  <2>2. ASSUME NEW i \in 1..room PROVE coded[position + 1 + i] \in Nat
    <3>1. position + 1 + i \in 1..Len(coded)
      OBVIOUS
    <3>2. coded[position + 1 + i] \in Bytes
      BY <3>1
    <3> QED
      BY <3>2, <1>1 DEF Bytes
  <2>3. Len(rest) = room
    BY <1>1
  <2> HIDE DEF rest, room
  <2> QED
    BY <2>1, <2>2, <2>3
<1>3. LengthEnd = IF I # {} THEN Min(I) ELSE 0
  BY DEF LengthEnd, SelectInSeq
<1> HIDE DEF rest, room
<1>4. ASSUME I # {} PROVE Min(I) \in I /\ \A i \in I : Min(I) <= i
  <2>1. I \subseteq Nat
    BY <1>2
  <2>2. \E x \in I : \A y \in I : x <= y
    <3> HIDE DEF I
    <3> QED
      BY <1>4, <2>1, Least
  <2> HIDE DEF I
  <2> QED
    BY <2>2 DEF Min
<1>5. LengthEnd \in 0..room
  <2>1. CASE I = {}
    BY <1>1, <1>3, <2>1
  <2>2. CASE I # {}
    BY <1>1, <1>2, <1>3, <1>4, <2>2
  <2> QED
    BY <2>1, <2>2
<1>6. ASSUME NEW m \in 1..room, coded[position + 1 + m] < DigitBase,
             \A i \in 1..(m - 1) : coded[position + 1 + i] >= DigitBase
      PROVE  LengthEnd = m
  <2>1. m \in I
    BY <1>1, <1>2, <1>6
  <2>2. Min(I) \in I /\ Min(I) <= m /\ LengthEnd = Min(I)
    BY <2>1, <1>3, <1>4
  <2> DEFINE e == Min(I)
  <2>3. e \in 1..room /\ rest[e] < DigitBase /\ e <= m
    BY <1>2, <2>2
  <2> HIDE DEF e
  <2>4. CASE e = m
    BY <2>2, <2>4 DEF e
  <2>5. CASE e # m
    <3>1. e \in 1..(m - 1)
      BY <1>1, <2>3, <2>5
    <3>2. coded[position + 1 + e] >= DigitBase /\ rest[e] = coded[position + 1 + e] /\ rest[e] \in Nat
      BY <3>1, <1>2, <1>6, <2>3
    <3> QED
      BY <3>2, <2>3, <1>1
  <2> QED
    BY <2>4, <2>5
<1> QED
  BY <1>5, <1>6 DEF room

(* What is read is a number.                                               *)
LEMMA LengthNat ==
    ASSUME coded \in Seq(Bytes), position \in Nat \ {0}, position < Len(coded)
    PROVE  Length \in Nat /\ AfterToken \in Nat \ {0}
<1> DEFINE last == position + 1 + LengthEnd
           digits == SubSeq(coded, position + 2, last)
<1>1. LengthEnd \in 0..(Len(coded) - position - 1)
  BY LengthEndIs
<1>2. last \in Nat \ {0} /\ last <= Len(coded) /\ position + 2 \in Nat \ {0}
  BY <1>1
<1>3. digits \in Seq(Bytes)
  <2>1. digits = [i \in 1..(last - (position + 2) + 1) |-> coded[i + (position + 2) - 1]]
    <3> HIDE DEF last
    <3> QED
      BY <1>2
  <2>2. \A i \in 1..(last - (position + 2) + 1) : i + (position + 2) - 1 \in 1..Len(coded)
    <3> HIDE DEF last
    <3> QED
      BY <1>2
  <2>3. last - (position + 2) + 1 = LengthEnd
    BY <1>1
  <2>4. digits \in [1..LengthEnd -> Bytes]
    <3> HIDE DEF digits
    <3> QED
      BY <2>1, <2>2, <2>3
  <2> HIDE DEF digits
  <2> QED
    BY <1>1, <2>4
<1>4. Length = Number(digits)
  BY DEF Length
<1> HIDE DEF digits
<1>5. Length \in Nat
  BY <1>3, <1>4, NumberNat
<1> QED
  BY <1>2, <1>5 DEF AfterToken

(* Some bytes must match.                                                  *)
LEMMA NeededNat ==
    ASSUME rule \in Rules, NEW distance
    PROVE  Needed(distance) \in Nat \ {0}
<1>1. rule.minMatch \in Nat \ {0} /\ rule.farMatch \in Nat \ {0}
  BY LzpAssumption
<1> QED
  BY <1>1 DEF Needed

(* A match ends inside of the block and is as long as it can be.           *)
LEMMA MatchIs ==
    ASSUME input \in Seq(Bytes), encIndex \in 0..Len(input), NEW source
    PROVE  /\ MatchLength(source, encIndex) \in 0..(Len(input) - encIndex)
           /\ \A k \in 1..MatchLength(source, encIndex) : input[source + k] = input[encIndex + k]
<1> DEFINE M == {n \in 0..(Len(input) - encIndex) : \A k \in 1..n : input[source + k] = input[encIndex + k]}
<1>1. 0 \in M
  OBVIOUS
<1>2. M \subseteq 0..(Len(input) - encIndex) /\ M # {} /\ Len(input) - encIndex \in Nat
  <2>1. M \subseteq 0..(Len(input) - encIndex) /\ Len(input) - encIndex \in Nat
    OBVIOUS
  <2> HIDE DEF M
  <2> QED
    BY <1>1, <2>1
<1>3. Max(M) \in M
  <2> HIDE DEF M
  <2> QED
    BY <1>2, Greatest
<1>4. MatchLength(source, encIndex) = Max(M)
  BY DEF MatchLength
<1> QED
  BY <1>3, <1>4

(* What an encoder's match puts out and takes in.                          *)
LEMMA MatchToken ==
    ASSUME TypeInv, MatchTaken
    PROVE  LET match == MatchLength(Source, encIndex)
               needed == Needed(encIndex - Source)
           IN  /\ Source \in 0..(encIndex - 1) /\ needed \in Nat \ {0}
               /\ match \in 1..(Len(input) - encIndex) /\ match >= needed
               /\ match - needed + 1 \in 1..Len(input)
<1> DEFINE match == MatchLength(Source, encIndex)
           needed == Needed(encIndex - Source)
<1>1. needed \in Nat \ {0}
  BY NeededNat DEF TypeInv
<1>2. match \in 0..(Len(input) - encIndex)
  BY MatchIs DEF TypeInv
<1>3. Predicted(encTable, input, encIndex) \in 0..encIndex /\ encIndex \in Nat /\ Len(input) \in Nat
  BY PredictedSeen DEF TypeInv
<1>4. Source \in 0..(encIndex - 1)
  BY <1>3 DEF Source, MatchTaken
<1>5. match >= needed
  BY DEF MatchTaken
<1> HIDE DEF match, needed
<1>6. /\ match \in 1..(Len(input) - encIndex) /\ match - needed + 1 \in 1..Len(input)
  BY <1>1, <1>2, <1>3, <1>5
<1> QED
  BY <1>1, <1>4, <1>5, <1>6 DEF match, needed

(* The decoder's, of any stream.                                           *)
LEMMA MatchInside ==
    ASSUME TypeInv, Decoding, LengthRead, Length # 0, MatchFits
    PROVE  /\ Prediction - 1 \in Nat /\ Prediction - 1 < Len(decoded)
           /\ Match \in Nat /\ Match <= expectedSize - Len(decoded)
<1>1. Length \in Nat
  BY LengthNat DEF TypeInv, LengthRead, AtMarker
<1>2. Needed(Len(decoded) - (Prediction - 1)) \in Nat \ {0}
  BY NeededNat DEF TypeInv
<1>3. Prediction \in 0..Len(decoded)
  <2>1. Len(decoded) \in 0..Len(decoded) /\ Len(decoded) \in Nat
    BY DEF TypeInv
  <2> QED
    BY <2>1, PredictedSeen DEF TypeInv, Prediction
<1>4. Match \in Nat
  BY <1>1, <1>2 DEF Match
<1> QED
  BY <1>3, <1>4 DEF MatchFits, TypeInv

(* The state keeps its types, the tables to what was seen and the output   *)
(* to what is expected.                                                    *)
LEMMA InitTyped == LzpInit => TypeInv
<1> SUFFICES ASSUME LzpInit PROVE TypeInv
  OBVIOUS
<1>1. /\ rule \in Rules /\ encIndex = 0 /\ position = 1 /\ decoded = <<>>
      /\ encTable = EmptyTable /\ decTable = EmptyTable
  BY DEF LzpInit
<1>2. EmptyTable \in [Slots -> 0..0]
  BY DEF EmptyTable, Slots
<1>3. /\ input \in Seq(Bytes) /\ coded \in Seq(Bytes) /\ expectedSize \in Nat
      /\ phase \in {"encode", "none", "decode", "rejected"}
  <2>1. CASE foreign = FALSE
    <3>1. input \in Inputs /\ expectedSize = Len(input) /\ phase \in {"none", "encode"} /\ coded = <<Marker(input)>>
      BY <2>1 DEF LzpInit
    <3>2. input \in Seq(Bytes)
      BY <3>1, StreamAssumption
    <3>3. <<Marker(input)>> \in Seq(Bytes)
      BY <3>2, MarkerByte
    <3> QED
      BY <3>1, <3>2, <3>3
  <2>2. CASE foreign # FALSE
    <3>1. PICK written \in ForeignStreams :
            /\ phase \in {"decode", "rejected"}
            /\ input = <<>> /\ coded = written.coded /\ expectedSize = written.size
      BY <2>2 DEF LzpInit
    <3>2. written.coded \in Seq(Bytes) /\ written.size \in Nat
      BY StreamAssumption
    <3> QED
      BY <3>1, <3>2
  <2> QED
    BY <2>1, <2>2
<1>4. decoded \in Seq(Bytes) /\ Len(decoded) = 0 /\ encIndex \in 0..Len(input)
  BY <1>1, <1>3
<1> QED
  BY <1>1, <1>2, <1>3, <1>4 DEF TypeInv

LEMMA EncodeMatchTyped ==
    ASSUME TypeInv, EncodeMatch
    PROVE  TypeInv'
<1> DEFINE match == MatchLength(Source, encIndex)
           digits == LengthDigits(match - Needed(encIndex - Source) + 1)
<1>1. match \in 1..(Len(input) - encIndex) /\ match - Needed(encIndex - Source) + 1 \in Nat
  BY MatchToken DEF EncodeMatch
<1>2. digits \in Seq(Bytes)
  BY <1>1, LengthCoded DEF Flags
<1>3. /\ coded' = coded \o <<Marker(input)>> \o digits
      /\ encTable' = Marked(encTable, input, encIndex, encIndex + match - 1)
      /\ encIndex' = encIndex + match
      /\ phase' \in {"none", "encode"}
      /\ UNCHANGED <<rule, input, expectedSize, position, decTable, decoded>>
  BY DEF EncodeMatch, GoOn
<1> HIDE DEF match, digits
<1>4. coded' \in Seq(Bytes)
  <2>1. <<Marker(input)>> \in Seq(Bytes)
    BY MarkerByte DEF TypeInv
  <2> QED
    BY <1>2, <1>3, <2>1 DEF TypeInv
<1>5. encIndex' \in 0..Len(input) /\ encIndex' \in Nat /\ encIndex \in Nat /\ encIndex <= encIndex'
  BY <1>1, <1>3 DEF TypeInv
<1>6. encTable' \in [Slots -> 0..encIndex']
  <2>1. encTable \in [Slots -> 0..encIndex]
    BY DEF TypeInv
  <2>2. match \in Nat /\ encIndex + match - 1 = encIndex' - 1
    BY <1>1, <1>3, <1>5
  <2>3. encTable' = Marked(encTable, input, encIndex, encIndex' - 1)
    BY <1>3, <2>2
  <2> QED
    BY <1>5, <2>1, <2>3, MarkedSeen
<1> QED
  BY <1>3, <1>4, <1>5, <1>6 DEF TypeInv

LEMMA EncodeLiteralTyped ==
    ASSUME TypeInv, EncodeLiteral
    PROVE  TypeInv'
<1>1. encIndex \in Nat /\ encIndex + 1 \in 1..Len(input) /\ encIndex + 1 \in Nat /\ (encIndex + 1) - 1 = encIndex
  BY DEF TypeInv, EncodeLiteral
<1>2. /\ coded' = coded \o (IF input[encIndex + 1] = Marker(input) THEN <<input[encIndex + 1], 0>>
                                                                ELSE <<input[encIndex + 1]>>)
      /\ encTable' = Marked(encTable, input, encIndex, encIndex)
      /\ encIndex' = encIndex + 1
      /\ phase' \in {"none", "encode"}
      /\ UNCHANGED <<rule, input, expectedSize, position, decTable, decoded>>
  BY DEF EncodeLiteral, GoOn
<1>3. coded' \in Seq(Bytes)
  <2>1. input[encIndex + 1] \in Bytes /\ 0 \in Bytes
    BY <1>1, Sizes DEF TypeInv, Bytes
  <2>2. <<input[encIndex + 1], 0>> \in Seq(Bytes) /\ <<input[encIndex + 1]>> \in Seq(Bytes)
    BY <2>1
  <2> QED
    BY <1>2, <2>2 DEF TypeInv
<1>4. encTable' \in [Slots -> 0..encIndex']
  <2>1. encTable \in [Slots -> 0..encIndex] /\ encIndex <= encIndex + 1
    BY <1>1 DEF TypeInv
  <2>2. Marked(encTable, input, encIndex, (encIndex + 1) - 1) \in [Slots -> 0..(encIndex + 1)]
    BY <1>1, <2>1, MarkedSeen
  <2> QED
    BY <1>1, <1>2, <2>2
<1> QED
  BY <1>1, <1>2, <1>3, <1>4 DEF TypeInv

(* A decoder's step that appends and marks as much.                        *)
LEMMA DecodeTyped ==
    ASSUME TypeInv, NEW bytes, decoded' \in Seq(Bytes), Len(decoded) <= Len(decoded'),
           Len(decoded') <= expectedSize, position' \in Nat \ {0},
           decTable' = Marked(decTable, bytes, Len(decoded), Len(decoded') - 1),
           UNCHANGED <<phase, foreign, rule, input, encIndex, encTable, coded, expectedSize>>
    PROVE  TypeInv'
<1>1. Len(decoded) \in Nat /\ Len(decoded') \in Nat /\ decTable \in [Slots -> 0..Len(decoded)]
  BY DEF TypeInv
<1>2. decTable' \in [Slots -> 0..Len(decoded')]
  BY <1>1, MarkedSeen
<1> QED
  BY <1>2 DEF TypeInv

(* One byte appended.                                                      *)
LEMMA AppendTyped ==
    ASSUME TypeInv, Decoding, NEW byte \in Bytes, decoded' = Append(decoded, byte),
           decTable' = Marked(decTable, decoded, Len(decoded), Len(decoded)),
           position' \in Nat \ {0},
           UNCHANGED <<phase, foreign, rule, input, encIndex, encTable, coded, expectedSize>>
    PROVE  TypeInv'
<1>1. /\ decoded' \in Seq(Bytes) /\ Len(decoded') = Len(decoded) + 1 /\ Len(decoded) \in Nat
  BY DEF TypeInv
<1>2. Len(decoded') - 1 = Len(decoded) /\ Len(decoded) <= Len(decoded') /\ Len(decoded') <= expectedSize
  BY <1>1 DEF TypeInv, Decoding
<1> QED
  BY <1>1, <1>2, DecodeTyped

LEMMA DecodeMatchTyped ==
    ASSUME TypeInv, DecodeMatch
    PROVE  TypeInv'
<1> DEFINE copied == Copied(Prediction - 1, Match)
<1>1. /\ Prediction - 1 \in Nat /\ Prediction - 1 < Len(decoded)
      /\ Match \in Nat /\ Match <= expectedSize - Len(decoded)
  BY MatchInside DEF DecodeMatch
<1>2. copied \in [1..Match -> Bytes]
  BY <1>1, CopiedIs DEF TypeInv
<1>3. /\ decoded' = decoded \o copied
      /\ decTable' = Marked(decTable, decoded', Len(decoded), Len(decoded) + Match - 1)
      /\ position' = AfterToken
      /\ UNCHANGED <<phase, foreign, rule, input, encIndex, encTable, coded, expectedSize>>
  BY DEF DecodeMatch
<1> DEFINE count == Match
<1> HIDE DEF copied, count
<1>4. copied \in Seq(Bytes) /\ Len(copied) = count
  BY <1>1, <1>2 DEF count
<1>5. decoded' \in Seq(Bytes) /\ Len(decoded') = Len(decoded) + count /\ Len(decoded) \in Nat
  <2>1. decoded \in Seq(Bytes)
    BY DEF TypeInv
  <2>2. decoded' = decoded \o copied
    BY <1>3
  <2>3. decoded \o copied \in Seq(Bytes) /\ Len(decoded \o copied) = Len(decoded) + Len(copied)
    BY <1>4, <2>1
  <2> QED
    BY <1>4, <2>1, <2>2, <2>3
<1>6. Len(decoded) <= Len(decoded') /\ Len(decoded') <= expectedSize
      /\ decTable' = Marked(decTable, decoded', Len(decoded), Len(decoded') - 1)
  BY <1>1, <1>3, <1>5 DEF TypeInv, count
<1>7. position' \in Nat \ {0}
  BY <1>3, LengthNat DEF TypeInv, DecodeMatch, LengthRead, AtMarker
<1> QED
  BY <1>3, <1>5, <1>6, <1>7, DecodeTyped

LEMMA StepTyped == TypeInv /\ [LzpNext]_lzpVars => TypeInv'
<1> SUFFICES ASSUME TypeInv, [LzpNext]_lzpVars PROVE TypeInv'
  OBVIOUS
<1>1. CASE EncodeMatch
  BY <1>1, EncodeMatchTyped
<1>2. CASE EncodeLiteral
  BY <1>2, EncodeLiteralTyped
<1>3. CASE Encoded
  BY <1>3 DEF Encoded, TypeInv
<1>4. CASE DecodeLiteral
  <2>1. NextByte \in Bytes
    BY <1>4 DEF DecodeLiteral, NextByte, TypeInv
  <2>2. position' \in Nat \ {0}
    BY <1>4 DEF DecodeLiteral, TypeInv
  <2> QED
    BY <1>4, <2>1, <2>2, AppendTyped DEF DecodeLiteral
<1>5. CASE DecodeMarker
  <2>1. position < Len(coded) /\ coded \in Seq(Bytes) /\ position \in Nat \ {0}
    BY <1>5 DEF DecodeMarker, LengthRead, AtMarker, TypeInv
  <2>2. coded[1] \in Bytes
    BY <2>1
  <2>3. position' \in Nat \ {0}
    BY <1>5, <2>1, LengthNat DEF DecodeMarker
  <2> QED
    BY <1>5, <2>2, <2>3, AppendTyped DEF DecodeMarker
<1>6. CASE DecodeMatch
  BY <1>6, DecodeMatchTyped
<1>7. CASE DecodeThrows
  BY <1>7 DEF DecodeThrows, TypeInv
<1>8. CASE DecodeEnds
  BY <1>8 DEF DecodeEnds, TypeInv
<1>9. CASE LzpStopped \/ UNCHANGED lzpVars
  BY <1>9 DEF LzpStopped, lzpVars, TypeInv
<1> QED
  BY <1>1, <1>2, <1>3, <1>4, <1>5, <1>6, <1>7, <1>8, <1>9 DEF LzpNext

(* The tables hold positions that were seen, on both sides.                *)
THEOREM LzpTyped == LzpSpec => []TypeInv
BY InitTyped, StepTyped, PTL DEF LzpSpec

(* Of any stream: a prediction is of a byte that is already written, and   *)
(* no more is written than expected.                                       *)
THEOREM DecoderAlwaysInBounds == LzpSpec => []DecoderInBounds
<1>1. TypeInv => DecoderInBounds
  <2> SUFFICES ASSUME TypeInv PROVE DecoderInBounds
    OBVIOUS
  <2>1. Len(decoded) \in Nat /\ decTable \in [Slots -> 0..Len(decoded)] /\ Len(decoded) <= expectedSize
    BY DEF TypeInv
  <2>2. \A slot \in DOMAIN decTable : decTable[slot] <= Len(decoded)
    BY <2>1
  <2> QED
    BY <2>1, <2>2 DEF DecoderInBounds
<1> QED
  BY <1>1, LzpTyped, PTL

-----------------------------------------------------------------------------
(* The round trip.  A history of milestones holds what the encoder had     *)
(* seen, its table and the length of its output after each token; the      *)
(* decoder is always at one of them.                                       *)

Known(m, text, written) ==
    /\ m.at \in 0..Len(text)
    /\ m.table \in [Slots -> 0..m.at]
    /\ m.length \in 1..Len(written)

NeededBy(r, distance) == IF distance >= r.farDistance THEN r.farMatch ELSE r.minMatch

LiteralStep(text, written, m, n) ==
    /\ n.at = m.at + 1
    /\ n.table = Marked(m.table, text, m.at, m.at)
    /\ written[m.length + 1] = text[m.at + 1]
    /\ IF text[m.at + 1] = Marker(text)
       THEN n.length = m.length + 2 /\ written[m.length + 2] = 0
       ELSE n.length = m.length + 1

SourceOf(text, m) == Predicted(m.table, text, m.at) - 1

DigitsOf(r, text, m, n) ==
    LengthDigits(n.at - m.at - NeededBy(r, m.at - SourceOf(text, m)) + 1)

MatchStep(r, text, written, m, n) ==
    /\ m.at < n.at
    /\ SourceOf(text, m) \in 0..(m.at - 1)
    /\ NeededBy(r, m.at - SourceOf(text, m)) \in 1..(n.at - m.at)
    /\ \A k \in 1..(n.at - m.at) : text[SourceOf(text, m) + k] = text[m.at + k]
    /\ n.table = Marked(m.table, text, m.at, n.at - 1)
    /\ written[m.length + 1] = Marker(text)
    /\ n.length = m.length + 1 + Len(DigitsOf(r, text, m, n))
    /\ \A i \in 1..Len(DigitsOf(r, text, m, n)) :
         written[m.length + 1 + i] = DigitsOf(r, text, m, n)[i]

TokenStep(r, text, written, m, n) ==
    LiteralStep(text, written, m, n) \/ MatchStep(r, text, written, m, n)

Trace(h, k, r, text, written) ==
    /\ h[0].at = 0 /\ h[0].table = EmptyTable /\ h[0].length = 1
    /\ \A j \in 0..k : Known(h[j], text, written)
    /\ \A j \in 0..(k - 1) : TokenStep(r, text, written, h[j], h[j + 1])

Reached(h, k, at, table, length) ==
    h[k].at = at /\ h[k].table = table /\ h[k].length = length

(* The decoder has read the tokens before a milestone.                     *)
Follows(m) ==
    /\ Len(decoded) = m.at /\ \A i \in 1..m.at : decoded[i] = input[i]
    /\ decTable = m.table
    /\ position = m.length

Honest ==
    ~foreign =>
      /\ input \in Inputs /\ expectedSize = Len(input)
      /\ Len(coded) >= 1 /\ coded[1] = Marker(input)
      /\ phase # "rejected"
      /\ phase \in {"encode", "decode"} => Len(coded) < Len(input)
      /\ phase = "encode" =>
           /\ decoded = <<>> /\ decTable = EmptyTable /\ position = 1
           /\ \E k \in Nat : \E h :
                Trace(h, k, rule, input, coded) /\ Reached(h, k, encIndex, encTable, Len(coded))
      /\ phase = "decode" =>
           \E k \in Nat : \E h :
             /\ Trace(h, k, rule, input, coded)
             /\ h[k].at = Len(input) /\ h[k].length = Len(coded)
             /\ \E j \in 0..k : Follows(h[j])
      /\ phase = "done" => decoded = input

LEMMA NeededIs == \A d : Needed(d) = NeededBy(rule, d)
BY DEF Needed, NeededBy

(* What is appended to a stream leaves its tokens as they were.            *)
LEMMA KnownKept ==
    ASSUME NEW text \in Seq(Bytes), NEW c \in Seq(Bytes), NEW d \in Seq(Bytes), Len(c) <= Len(d),
           NEW m, Known(m, text, c)
    PROVE  Known(m, text, d)
BY DEF Known

LEMMA StepKept ==
    ASSUME NEW text \in Seq(Bytes), NEW c \in Seq(Bytes), NEW d \in Seq(Bytes), Len(c) <= Len(d),
           \A i \in 1..Len(c) : d[i] = c[i],
           NEW r, NEW m, NEW n, Known(m, text, c), Known(n, text, c), TokenStep(r, text, c, m, n)
    PROVE  TokenStep(r, text, d, m, n)
<1>1. m.length \in Nat /\ n.length \in Nat /\ m.length >= 1 /\ n.length <= Len(c)
  BY DEF Known
<1>2. CASE LiteralStep(text, c, m, n)
  <2>1. /\ n.length = m.length + 2 \/ n.length = m.length + 1
        /\ text[m.at + 1] = Marker(text) => n.length = m.length + 2
    BY <1>2, Zenon DEF LiteralStep
  <2>2. m.length + 1 \in 1..Len(c) /\ (text[m.at + 1] = Marker(text) => m.length + 2 \in 1..Len(c))
    BY <1>1, <2>1
  <2> QED
    BY <1>2, <2>2 DEF LiteralStep, TokenStep
<1>3. CASE MatchStep(r, text, c, m, n)
  <2> DEFINE digits == DigitsOf(r, text, m, n)
  <2>1. /\ n.length = m.length + 1 + Len(digits) /\ c[m.length + 1] = Marker(text)
        /\ \A i \in 1..Len(digits) : c[m.length + 1 + i] = digits[i]
    BY <1>3 DEF MatchStep
  <2>2. Len(digits) \in Nat
    <3> DEFINE needed == NeededBy(r, m.at - SourceOf(text, m))
    <3>1. needed \in 1..(n.at - m.at)
      BY <1>3 DEF MatchStep
    <3>2. n.at \in Nat /\ m.at \in Nat
      BY DEF Known
    <3> HIDE DEF needed
    <3>3. n.at - m.at - needed + 1 \in Nat
      BY <3>1, <3>2
    <3> QED
      BY <3>3, LengthCoded DEF DigitsOf, Flags, needed
  <2> HIDE DEF digits
  <2>3. m.length + 1 \in 1..Len(c) /\ \A i \in 1..Len(digits) : m.length + 1 + i \in 1..Len(c)
    <3> DEFINE count == Len(digits)
    <3>1. n.length = m.length + 1 + count /\ count \in Nat /\ Len(c) \in Nat
      BY <2>1, <2>2
    <3> HIDE DEF count
    <3>2. m.length + 1 \in 1..Len(c) /\ \A i \in 1..count : m.length + 1 + i \in 1..Len(c)
      BY <1>1, <3>1
    <3> QED
      BY <3>2 DEF count
  <2>4. d[m.length + 1] = Marker(text) /\ \A i \in 1..Len(digits) : d[m.length + 1 + i] = digits[i]
    BY <2>1, <2>3
  <2> QED
    BY <1>3, <2>4 DEF digits, MatchStep, TokenStep
<1> QED
  BY <1>2, <1>3 DEF TokenStep

(* One more token.                                                         *)
LEMMA TraceGrows ==
    ASSUME NEW text \in Seq(Bytes), NEW c \in Seq(Bytes), NEW d \in Seq(Bytes), Len(c) <= Len(d),
           \A i \in 1..Len(c) : d[i] = c[i],
           NEW r, NEW k \in Nat, NEW h, Trace(h, k, r, text, c),
           NEW n, Known(n, text, d), TokenStep(r, text, d, h[k], n)
    PROVE  \E g : Trace(g, k + 1, r, text, d) /\ g[k + 1] = n
<1> DEFINE g == [j \in 0..(k + 1) |-> IF j <= k THEN h[j] ELSE n]
<1>1. \A j \in 0..k : g[j] = h[j]
  OBVIOUS
<1>2. g[k + 1] = n
  OBVIOUS
<1> HIDE DEF g
<1>3. \A j \in 0..k : Known(h[j], text, d)
  BY KnownKept DEF Trace
<1>4. \A j \in 0..(k + 1) : Known(g[j], text, d)
  BY <1>1, <1>2, <1>3
<1>5. ASSUME NEW j \in 0..k PROVE TokenStep(r, text, d, g[j], g[j + 1])
  <2>1. CASE j = k
    BY <1>1, <1>2, <2>1
  <2>2. CASE j # k
    <3>1. j \in 0..(k - 1) /\ j \in 0..k /\ j + 1 \in 0..k
      BY <2>2
    <3>2. TokenStep(r, text, c, h[j], h[j + 1]) /\ Known(h[j], text, c) /\ Known(h[j + 1], text, c)
      BY <3>1 DEF Trace
    <3>3. TokenStep(r, text, d, h[j], h[j + 1])
      BY <3>2, StepKept
    <3> QED
      BY <1>1, <3>1, <3>3
  <2> QED
    BY <2>1, <2>2
<1>6. (k + 1) - 1 = k /\ 0 \in 0..k
  OBVIOUS
<1>7. g[0].at = 0 /\ g[0].table = EmptyTable /\ g[0].length = 1
  BY <1>1, <1>6 DEF Trace
<1>8. Trace(g, k + 1, r, text, d)
  BY <1>4, <1>5, <1>6, <1>7 DEF Trace
<1> QED
  BY <1>2, <1>8

LEMMA InitHonest == LzpInit => Honest
<1> SUFFICES ASSUME LzpInit, ~foreign PROVE Honest
  BY DEF Honest
<1>1. /\ input \in Inputs /\ expectedSize = Len(input) /\ coded = <<Marker(input)>>
      /\ phase = IF Len(input) <= Lesser(rule.minMatch, rule.farMatch) + ContextSize
                 THEN "none" ELSE "encode"
      /\ encIndex = 0 /\ encTable = EmptyTable /\ rule \in Rules
      /\ decoded = <<>> /\ decTable = EmptyTable /\ position = 1
  BY DEF LzpInit
<1>2. phase = "encode" => Len(coded) < Len(input)
  <2>1. rule.minMatch \in Nat \ {0} /\ rule.farMatch \in Nat \ {0}
    BY <1>1, LzpAssumption
  <2>2. Len(input) \in Nat
    BY <1>1, StreamAssumption
  <2> QED
    BY <1>1, <2>1, <2>2, Sizes DEF Lesser
<1>3. \E h : Trace(h, 0, rule, input, coded) /\ Reached(h, 0, encIndex, encTable, Len(coded))
  <2> DEFINE g == [j \in 0..0 |-> [at |-> 0, table |-> EmptyTable, length |-> 1]]
  <2>1. g[0].at = 0 /\ g[0].table = EmptyTable /\ g[0].length = 1
    OBVIOUS
  <2> HIDE DEF g
  <2>2. Len(coded) = 1
    BY <1>1
  <2>3. EmptyTable \in [Slots -> 0..0]
    BY DEF EmptyTable, Slots
  <2>4. Known(g[0], input, coded)
    BY <1>1, <2>1, <2>2, <2>3, StreamAssumption DEF Known
  <2>5. Trace(g, 0, rule, input, coded)
    BY <2>1, <2>4 DEF Trace
  <2> QED
    BY <1>1, <2>1, <2>2, <2>5 DEF Reached
<1> QED
  BY <1>1, <1>2, <1>3 DEF Honest

Mark(at, table, length) == [at |-> at, table |-> table, length |-> length]

LEMMA Joined ==
    ASSUME NEW a \in Seq(Bytes), NEW b \in Seq(Bytes)
    PROVE  /\ a \o b \in Seq(Bytes) /\ Len(a \o b) = Len(a) + Len(b)
           /\ \A i \in 1..Len(a) : (a \o b)[i] = a[i]
           /\ \A i \in 1..Len(b) : (a \o b)[Len(a) + i] = b[i]
OBVIOUS

LEMMA StepOfFields ==
    ASSUME NEW r, NEW text, NEW written, NEW m, NEW p, NEW n,
           p.at = m.at, p.table = m.table, p.length = m.length, TokenStep(r, text, written, m, n)
    PROVE  TokenStep(r, text, written, p, n)
<1>1. CASE LiteralStep(text, written, m, n)
  <2>1. LiteralStep(text, written, p, n)
    BY <1>1 DEF LiteralStep
  <2> QED
    BY <2>1 DEF TokenStep
<1>2. CASE MatchStep(r, text, written, m, n)
  <2>1. SourceOf(text, p) = SourceOf(text, m)
    BY DEF SourceOf
  <2>2. DigitsOf(r, text, p, n) = DigitsOf(r, text, m, n)
    BY <2>1 DEF DigitsOf
  <2>3. MatchStep(r, text, written, p, n)
    BY <1>2, <2>1, <2>2 DEF MatchStep
  <2> QED
    BY <2>3 DEF TokenStep
<1> QED
  BY <1>1, <1>2 DEF TokenStep

(* An encoder's step adds a milestone.                                     *)
LEMMA HistoryGrows ==
    ASSUME input \in Seq(Bytes), coded \in Seq(Bytes), coded' \in Seq(Bytes),
           Len(coded) <= Len(coded'), \A i \in 1..Len(coded) : coded'[i] = coded[i],
           Known(Mark(encIndex', encTable', Len(coded')), input, coded'),
           TokenStep(rule, input, coded', Mark(encIndex, encTable, Len(coded)),
                     Mark(encIndex', encTable', Len(coded'))),
           \E k \in Nat : \E h :
             Trace(h, k, rule, input, coded) /\ Reached(h, k, encIndex, encTable, Len(coded))
    PROVE  \E k \in Nat : \E h :
             /\ Trace(h, k, rule, input, coded')
             /\ Reached(h, k, encIndex', encTable', Len(coded'))
<1>1. PICK k \in Nat : \E h : /\ Trace(h, k, rule, input, coded)
                               /\ Reached(h, k, encIndex, encTable, Len(coded))
  OBVIOUS
<1>2. PICK h : Trace(h, k, rule, input, coded) /\ Reached(h, k, encIndex, encTable, Len(coded))
  BY <1>1
<1>3. PICK n : n = Mark(encIndex', encTable', Len(coded'))
  OBVIOUS
<1>4. TokenStep(rule, input, coded', h[k], n)
  <2>1. h[k].at = encIndex /\ h[k].table = encTable /\ h[k].length = Len(coded)
    BY <1>2 DEF Reached
  <2> QED
    BY <1>3, <2>1, StepOfFields DEF Mark
<1>5. Known(n, input, coded') /\ Trace(h, k, rule, input, coded)
  BY <1>2, <1>3
<1>6. \E g : Trace(g, k + 1, rule, input, coded') /\ g[k + 1] = n
  BY <1>4, <1>5, TraceGrows
<1>7. PICK g : Trace(g, k + 1, rule, input, coded') /\ g[k + 1] = n
  BY <1>6
<1>8. Reached(g, k + 1, encIndex', encTable', Len(coded'))
  BY <1>3, <1>7 DEF Reached, Mark
<1> QED
  BY <1>7, <1>8

LEMMA EncodeHonest ==
    ASSUME TypeInv, Honest, ~foreign, phase = "encode", TypeInv', GoOn,
           NEW token \in Seq(Bytes), coded' = coded \o token,
           TokenStep(rule, input, coded', Mark(encIndex, encTable, Len(coded)),
                     Mark(encIndex', encTable', Len(coded'))),
           UNCHANGED <<foreign, rule, input, expectedSize, position, decTable, decoded>>
    PROVE  Honest'
<1>1. /\ coded \in Seq(Bytes) /\ input \in Seq(Bytes) /\ coded' \in Seq(Bytes)
      /\ encIndex' \in 0..Len(input) /\ encTable' \in [Slots -> 0..encIndex']
  BY DEF TypeInv
<1>2. Len(coded) <= Len(coded') /\ \A i \in 1..Len(coded) : coded'[i] = coded[i]
  BY <1>1
<1>3. Len(coded) >= 1 /\ coded[1] = Marker(input) /\ Len(coded) \in Nat /\ Len(coded') \in Nat
  BY <1>1 DEF Honest
<1>4. coded'[1] = Marker(input) /\ Len(coded') >= 1
  BY <1>2, <1>3
<1>5. Known(Mark(encIndex', encTable', Len(coded')), input, coded')
  BY <1>1, <1>3, <1>4 DEF Known, Mark
<1>6. \E k \in Nat : \E h : /\ Trace(h, k, rule, input, coded)
                            /\ Reached(h, k, encIndex, encTable, Len(coded))
  BY DEF Honest
<1>7. \E k \in Nat : \E h : /\ Trace(h, k, rule, input, coded')
                             /\ Reached(h, k, encIndex', encTable', Len(coded'))
  BY <1>1, <1>2, <1>5, <1>6, HistoryGrows
<1>8. phase' \in {"encode", "none"} /\ (phase' = "encode" => Len(coded') < Len(input))
  BY <1>1 DEF GoOn
<1>9. /\ input \in Inputs /\ expectedSize = Len(input)
       /\ decoded = <<>> /\ decTable = EmptyTable /\ position = 1
  BY DEF Honest
<1>10. /\ phase' # "rejected" /\ phase' # "decode" /\ phase' # "done"
  BY <1>8
<1> QED
  BY <1>4, <1>7, <1>8, <1>9, <1>10 DEF Honest

LEMMA EncodeLiteralHonest ==
    ASSUME TypeInv, Honest, ~foreign, EncodeLiteral
    PROVE  Honest'
<1> DEFINE value == input[encIndex + 1]
           token == IF value = Marker(input) THEN <<value, 0>> ELSE <<value>>
           n == Mark(encIndex', encTable', Len(coded'))
           m == Mark(encIndex, encTable, Len(coded))
<1>1. TypeInv'
  BY EncodeLiteralTyped
<1>2. coded \in Seq(Bytes) /\ encIndex \in Nat /\ encIndex + 1 \in 1..Len(input) /\ input \in Seq(Bytes)
  BY DEF TypeInv, EncodeLiteral
<1>3. /\ coded' = coded \o token /\ encIndex' = encIndex + 1 /\ phase = "encode" /\ GoOn
      /\ encTable' = Marked(encTable, input, encIndex, encIndex)
      /\ UNCHANGED <<foreign, rule, input, expectedSize, position, decTable, decoded>>
  BY DEF EncodeLiteral
<1>4. value \in Bytes /\ 0 \in Bytes
  BY <1>2, Sizes DEF Bytes
<1> HIDE DEF value
<1>5. /\ token \in Seq(Bytes) /\ token[1] = value /\ Len(token) \in 1..2
      /\ IF value = Marker(input) THEN Len(token) = 2 /\ token[2] = 0 ELSE Len(token) = 1
  BY <1>4
<1> HIDE DEF token
<1>6. /\ coded'[Len(coded) + 1] = value
      /\ Len(coded') = Len(coded) + Len(token)
      /\ value = Marker(input) => coded'[Len(coded) + 2] = 0
  BY <1>2, <1>3, <1>5
<1>7. LiteralStep(input, coded', m, n)
  <2>1. /\ n.at = encIndex' /\ n.table = encTable' /\ n.length = Len(coded')
        /\ m.at = encIndex /\ m.table = encTable /\ m.length = Len(coded)
    BY DEF Mark
  <2> HIDE DEF m, n
  <2>2. IF input[m.at + 1] = Marker(input)
        THEN n.length = m.length + 2 /\ coded'[m.length + 2] = 0
        ELSE n.length = m.length + 1
    BY <1>5, <1>6, <2>1 DEF value
  <2> QED
    BY <1>3, <1>6, <2>1, <2>2 DEF LiteralStep, value
<1>8. TokenStep(rule, input, coded', m, n)
  BY <1>7 DEF TokenStep
<1> QED
  BY <1>1, <1>3, <1>5, <1>8, EncodeHonest

LEMMA EncodeMatchHonest ==
    ASSUME TypeInv, Honest, ~foreign, EncodeMatch
    PROVE  Honest'
<1> DEFINE match == MatchLength(Source, encIndex)
           needed == Needed(encIndex - Source)
           digits == LengthDigits(match - needed + 1)
           token == <<Marker(input)>> \o digits
           n == Mark(encIndex', encTable', Len(coded'))
           m == Mark(encIndex, encTable, Len(coded))
<1>1. TypeInv'
  BY EncodeMatchTyped
<1>2. coded \in Seq(Bytes) /\ encIndex \in Nat /\ input \in Seq(Bytes)
  BY DEF TypeInv
<1>3. /\ Source \in 0..(encIndex - 1) /\ needed \in Nat \ {0}
      /\ match \in 1..(Len(input) - encIndex) /\ match >= needed
  BY MatchToken DEF EncodeMatch
<1>4. \A i \in 1..match : input[Source + i] = input[encIndex + i]
  BY MatchIs DEF TypeInv
<1>5. /\ coded' = coded \o <<Marker(input)>> \o digits /\ encIndex' = encIndex + match
      /\ encTable' = Marked(encTable, input, encIndex, encIndex + match - 1)
      /\ phase = "encode" /\ GoOn
      /\ UNCHANGED <<foreign, rule, input, expectedSize, position, decTable, decoded>>
  BY DEF EncodeMatch
<1>6. needed = NeededBy(rule, encIndex - Source)
  BY NeededIs
<1> HIDE DEF match, needed
<1>7. digits \in Seq(Bytes)
  <2>1. match - needed + 1 \in Nat
    BY <1>3
  <2> QED
    BY <2>1, LengthCoded DEF Flags
<1>8. Marker(input) \in Bytes
  BY <1>2, MarkerByte
<1> HIDE DEF digits
<1>9. /\ token \in Seq(Bytes) /\ coded' = coded \o token
      /\ coded'[Len(coded) + 1] = Marker(input)
      /\ Len(coded') = Len(coded) + 1 + Len(digits)
      /\ \A i \in 1..Len(digits) : coded'[Len(coded) + 1 + i] = digits[i]
  <2> DEFINE one == <<Marker(input)>>
  <2>1. one \in Seq(Bytes) /\ Len(one) = 1 /\ one[1] = Marker(input)
    BY <1>8
  <2>2. coded' = (coded \o one) \o digits
    BY <1>5
  <2> HIDE DEF one
  <2>3. (coded \o one) \o digits = coded \o (one \o digits)
    BY <1>2, <1>7, <2>1
  <2>4. coded' = coded \o (one \o digits) /\ one \o digits \in Seq(Bytes)
    BY <1>7, <2>1, <2>2, <2>3
  <2>5. coded \o one \in Seq(Bytes) /\ Len(coded \o one) = Len(coded) + 1
        /\ (coded \o one)[Len(coded) + 1] = Marker(input)
    <3>1. 1 \in 1..Len(one)
      BY <2>1
    <3>2. /\ coded \o one \in Seq(Bytes) /\ Len(coded \o one) = Len(coded) + Len(one)
          /\ (coded \o one)[Len(coded) + 1] = one[1]
      BY <1>2, <2>1, <3>1, Joined
    <3> QED
      BY <2>1, <3>2
  <2>6. /\ coded'[Len(coded) + 1] = Marker(input)
        /\ Len(coded') = Len(coded) + 1 + Len(digits)
        /\ \A i \in 1..Len(digits) : coded'[Len(coded) + 1 + i] = digits[i]
    <3> DEFINE both == coded \o one
    <3>1. Len(both) = Len(coded) + 1 /\ both \in Seq(Bytes) /\ Len(both) \in 1..Len(both)
          /\ both[Len(both)] = Marker(input)
      BY <1>2, <2>5
    <3> HIDE DEF both
    <3>2. Len(both \o digits) = Len(both) + Len(digits) /\ (both \o digits)[Len(both)] = both[Len(both)]
          /\ \A i \in 1..Len(digits) : (both \o digits)[Len(both) + i] = digits[i]
      BY <1>7, <3>1, Joined
    <3>3. coded' = both \o digits
      BY <2>2 DEF both
    <3> QED
      BY <3>1, <3>2, <3>3
  <2> QED
    BY <2>4, <2>6 DEF one
<1> HIDE DEF token
<1>10. MatchStep(rule, input, coded', m, n)
  <2>1. /\ n.at = encIndex' /\ n.table = encTable' /\ n.length = Len(coded')
        /\ m.at = encIndex /\ m.table = encTable /\ m.length = Len(coded)
    BY DEF Mark
  <2> HIDE DEF m, n
  <2>2. SourceOf(input, m) = Source
    BY <2>1 DEF SourceOf, Source
  <2>3. n.at - m.at = match /\ m.at < n.at /\ n.at - 1 = encIndex + match - 1
    BY <1>2, <1>3, <1>5, <2>1
  <2>4. DigitsOf(rule, input, m, n) = digits
    BY <1>6, <2>1, <2>2, <2>3 DEF DigitsOf, digits
  <2>5. NeededBy(rule, m.at - SourceOf(input, m)) \in 1..(n.at - m.at)
    <3>1. needed \in 1..match
      BY <1>3
    <3> QED
      BY <3>1, <1>6, <2>1, <2>2, <2>3
  <2>6. SourceOf(input, m) \in 0..(m.at - 1)
        /\ \A i \in 1..(n.at - m.at) : input[SourceOf(input, m) + i] = input[m.at + i]
    BY <1>3, <1>4, <2>1, <2>2, <2>3
  <2>7. n.table = Marked(m.table, input, m.at, n.at - 1)
    BY <1>5, <2>1, <2>3
  <2>8. /\ coded'[m.length + 1] = Marker(input)
        /\ n.length = m.length + 1 + Len(DigitsOf(rule, input, m, n))
        /\ \A i \in 1..Len(DigitsOf(rule, input, m, n)) :
             coded'[m.length + 1 + i] = DigitsOf(rule, input, m, n)[i]
    BY <1>9, <2>1, <2>4
  <2> QED
    BY <2>3, <2>5, <2>6, <2>7, <2>8 DEF MatchStep
<1>11. TokenStep(rule, input, coded', m, n)
  BY <1>10 DEF TokenStep
<1> QED
  BY <1>1, <1>5, <1>9, <1>11, EncodeHonest

(* The decoder starts at the first milestone.                              *)
LEMMA EncodedHonest ==
    ASSUME TypeInv, Honest, ~foreign, Encoded
    PROVE  Honest'
<1>1. /\ phase = "encode" /\ encIndex = Len(input) /\ phase' = "decode"
      /\ UNCHANGED <<foreign, rule, input, encIndex, encTable, coded, expectedSize, position, decTable,
                     decoded>>
  BY DEF Encoded
<1>k. PICK k \in Nat : \E h : /\ Trace(h, k, rule, input, coded)
                               /\ Reached(h, k, encIndex, encTable, Len(coded))
  BY <1>1 DEF Honest
<1>2. PICK h : Trace(h, k, rule, input, coded) /\ Reached(h, k, encIndex, encTable, Len(coded))
  BY <1>k
<1>3. decoded = <<>> /\ decTable = EmptyTable /\ position = 1
  BY <1>1 DEF Honest
<1>4. h[0].at = 0 /\ h[0].table = EmptyTable /\ h[0].length = 1
  BY <1>2 DEF Trace
<1>5. 0 \in 0..k /\ Follows(h[0])'
  BY <1>1, <1>3, <1>4 DEF Follows
<1>6. h[k].at = Len(input) /\ h[k].length = Len(coded)
  BY <1>1, <1>2 DEF Reached
<1>7. (\E q \in Nat : \E f :
         /\ Trace(f, q, rule, input, coded)
         /\ f[q].at = Len(input) /\ f[q].length = Len(coded)
         /\ \E j \in 0..q : Follows(f[j]))'
  BY <1>1, <1>2, <1>5, <1>6
<1>8. /\ input \in Inputs /\ expectedSize = Len(input) /\ Len(coded) >= 1 /\ coded[1] = Marker(input)
      /\ Len(coded) < Len(input)
  BY <1>1 DEF Honest
<1> QED
  BY <1>1, <1>7, <1>8 DEF Honest

(* A length as the decoder finds it.                                       *)
LEMMA DigitsAhead ==
    ASSUME coded \in Seq(Bytes), position \in Nat \ {0}, NEW digits, Flags(digits),
           Len(digits) <= MaxDigits, position + 1 + Len(digits) <= Len(coded),
           coded[position + 1] = coded[1],
           \A i \in 1..Len(digits) : coded[position + 1 + i] = digits[i]
    PROVE  /\ AtMarker /\ LengthRead
           /\ Length = Number(digits) /\ AfterToken = position + 1 + Len(digits)
<1> DEFINE count == Len(digits)
<1>1. /\ digits \in Seq(Bytes) /\ count \in Nat /\ count >= 1 /\ digits[count] < DigitBase
      /\ \A i \in 1..(count - 1) : digits[i] >= DigitBase
  BY DEF Flags
<1>2. \A i \in 1..count : coded[position + 1 + i] = digits[i]
  OBVIOUS
<1>3. Len(coded) \in Nat /\ position + 1 + count <= Len(coded) /\ count <= MaxDigits
  OBVIOUS
<1> HIDE DEF count
<1>4. position < Len(coded) /\ count \in 1..(Len(coded) - position - 1)
  BY <1>1, <1>3
<1>5. LengthEnd = count
  <2>1. coded[position + 1 + count] < DigitBase
    BY <1>1, <1>2
  <2>2. \A i \in 1..(count - 1) : coded[position + 1 + i] >= DigitBase
    <3>1. \A i \in 1..(count - 1) : i \in 1..count
      BY <1>1
    <3> QED
      BY <1>1, <1>2, <3>1
  <2> QED
    BY <1>4, <2>1, <2>2, LengthEndIs
<1>6. AtMarker
  BY <1>4 DEF AtMarker, NextByte
<1>7. LengthRead
  BY <1>1, <1>3, <1>5, <1>6, Sizes DEF LengthRead
<1>8. SubSeq(coded, position + 2, position + 1 + LengthEnd) = digits
  <2> DEFINE part == SubSeq(coded, position + 2, position + 1 + count)
             first == position + 2
             last == position + 1 + count
  <2>1. first \in Nat \ {0} /\ last \in Nat /\ last <= Len(coded) /\ last - first + 1 = count
        /\ \A i \in 1..count : i + first - 1 = position + 1 + i
    BY <1>1, <1>3
  <2>2. part = [i \in 1..(last - first + 1) |-> coded[i + first - 1]]
    <3> HIDE DEF first, last
    <3>1. SubSeq(coded, first, last) = [i \in 1..(last - first + 1) |-> coded[i + first - 1]]
      BY <2>1
    <3> QED
      BY <3>1 DEF first, last
  <2>3. part = [i \in 1..count |-> digits[i]]
    <3> HIDE DEF first, last, part
    <3> QED
      BY <1>2, <2>1, <2>2
  <2>4. digits = [i \in 1..count |-> digits[i]]
    BY <1>1 DEF count
  <2> HIDE DEF part
  <2>5. part = digits
    BY <2>3, <2>4
  <2> QED
    BY <1>5, <2>5 DEF part
<1> QED
  BY <1>5, <1>6, <1>7, <1>8 DEF Length, AfterToken, count

Ahead(m, n) ==
    /\ input \in Inputs /\ expectedSize = Len(input) /\ Len(coded) >= 1 /\ coded[1] = Marker(input)
    /\ Follows(m) /\ Known(m, input, coded) /\ Known(n, input, coded)

LEMMA AheadFacts ==
    ASSUME TypeInv, NEW m, NEW n, Ahead(m, n)
    PROVE  /\ input \in Seq(Bytes) /\ coded \in Seq(Bytes) /\ decoded \in Seq(Bytes)
           /\ m.at \in Nat /\ Len(decoded) = m.at /\ m.at <= Len(input)
           /\ n.at \in Nat /\ n.at <= Len(input)
           /\ \A i \in 1..m.at : decoded[i] = input[i]
           /\ decTable = m.table /\ position = m.length /\ position \in Nat \ {0}
           /\ n.length \in Nat /\ n.length <= Len(coded) /\ coded[1] = Marker(input)
BY DEF TypeInv, Ahead, Follows, Known

(* Of one byte read.                                                       *)
LEMMA ByteFollows ==
    ASSUME TypeInv, NEW m, NEW n, Ahead(m, n), LiteralStep(input, coded, m, n),
           decoded' = Append(decoded, input[m.at + 1]),
           decTable' = Marked(decTable, decoded, Len(decoded), Len(decoded)),
           position' = n.length, input' = input
    PROVE  Follows(n)'
<1>1. /\ input \in Seq(Bytes) /\ decoded \in Seq(Bytes)
      /\ m.at \in Nat /\ Len(decoded) = m.at /\ m.at <= Len(input)
      /\ \A i \in 1..m.at : decoded[i] = input[i]
      /\ decTable = m.table
  BY AheadFacts
<1>2. n.at = m.at + 1 /\ n.table = Marked(m.table, input, m.at, m.at)
  BY DEF LiteralStep
<1>3. Marked(decTable, decoded, Len(decoded), Len(decoded)) = Marked(m.table, input, m.at, m.at)
  <2>1. m.at \in Nat /\ m.at \in Int /\ m.at <= Len(decoded) /\ m.at <= Len(input)
    BY <1>1
  <2>2. Marked(decTable, decoded, m.at, m.at) = Marked(decTable, input, m.at, m.at)
    BY <1>1, <2>1, MarkedSame
  <2> QED
    BY <1>1, <2>2
<1>4. Len(decoded') = n.at /\ \A i \in 1..n.at : decoded'[i] = input[i]
  BY <1>1, <1>2
<1> QED
  BY <1>2, <1>3, <1>4 DEF Follows

LEMMA LiteralAhead ==
    ASSUME TypeInv, NEW m, NEW n, Ahead(m, n), LiteralStep(input, coded, m, n),
           input[m.at + 1] # Marker(input)
    PROVE  ~AtMarker /\ position < Len(coded) /\ (DecodeLiteral => Follows(n)')
<1>1. /\ n.length = position + 1 /\ coded[position + 1] = input[m.at + 1]
      /\ position \in Nat \ {0} /\ n.length <= Len(coded) /\ coded[1] = Marker(input)
      /\ coded \in Seq(Bytes)
  BY AheadFacts DEF LiteralStep
<1>2. ~AtMarker /\ position < Len(coded)
  BY <1>1 DEF AtMarker, NextByte
<1>3. ASSUME DecodeLiteral PROVE Follows(n)'
  <2>1. /\ decoded' = Append(decoded, coded[position + 1]) /\ position' = position + 1
        /\ decTable' = Marked(decTable, decoded, Len(decoded), Len(decoded)) /\ input' = input
    BY <1>3 DEF DecodeLiteral, NextByte
  <2>2. decoded' = Append(decoded, input[m.at + 1]) /\ position' = n.length
    BY <1>1, <2>1
  <2> QED
    BY <2>1, <2>2, ByteFollows
<1> QED
  BY <1>2, <1>3

LEMMA MarkerAhead ==
    ASSUME TypeInv, NEW m, NEW n, Ahead(m, n), LiteralStep(input, coded, m, n),
           input[m.at + 1] = Marker(input)
    PROVE  AtMarker /\ LengthRead /\ Length = 0 /\ (DecodeMarker => Follows(n)')
<1>1. /\ n.length = position + 2 /\ coded[position + 1] = coded[1] /\ coded[position + 2] = 0
      /\ position \in Nat \ {0} /\ n.length <= Len(coded) /\ coded[1] = input[m.at + 1]
      /\ coded \in Seq(Bytes)
  BY AheadFacts DEF LiteralStep
<1> DEFINE digits == <<0>>
<1>2. 0 \in Bytes /\ <<>> \in Seq(Bytes) /\ digits = <<0>> \o <<>>
  BY Sizes DEF Bytes
<1>3. Flags(digits) /\ Len(digits) = 1 /\ digits[1] = 0
  BY <1>2, Sizes DEF Flags
<1>4. Number(digits) = 0
  <2>1. Number(<<0>> \o <<>>) = (0 % DigitBase) + DigitBase * Number(<<>>)
    BY <1>2, NumberStep
  <2>2. 0 % DigitBase = 0 /\ DigitBase * 0 = 0
    BY Sizes
  <2> QED
    BY <1>2, <2>1, <2>2, NumberNone
<1> HIDE DEF digits
<1>5. /\ AtMarker /\ LengthRead
      /\ Length = Number(digits) /\ AfterToken = position + 1 + Len(digits)
  <2>1. Len(digits) <= MaxDigits /\ position + 1 + Len(digits) <= Len(coded)
    BY <1>1, <1>3, Sizes
  <2>2. \A i \in 1..Len(digits) : coded[position + 1 + i] = digits[i]
    BY <1>1, <1>3
  <2> QED
    BY <1>1, <1>3, <2>1, <2>2, DigitsAhead
<1>6. ASSUME DecodeMarker PROVE Follows(n)'
  <2>1. /\ decoded' = Append(decoded, coded[1]) /\ position' = AfterToken
        /\ decTable' = Marked(decTable, decoded, Len(decoded), Len(decoded)) /\ input' = input
    BY <1>6 DEF DecodeMarker
  <2>2. decoded' = Append(decoded, input[m.at + 1]) /\ position' = n.length
    BY <1>1, <1>3, <1>5, <2>1
  <2> QED
    BY <2>1, <2>2, ByteFollows
<1> QED
  BY <1>4, <1>5, <1>6

(* A match: the decoder finds its length, and copies what the encoder saw. *)
LEMMA MatchAhead ==
    ASSUME TypeInv, NEW m, NEW n, Ahead(m, n), MatchStep(rule, input, coded, m, n)
    PROVE  AtMarker /\ LengthRead /\ Length # 0 /\ MatchFits /\ (DecodeMatch => Follows(n)')
<1> DEFINE count == n.at - m.at
           source == SourceOf(input, m)
           needed == NeededBy(rule, m.at - source)
           digits == DigitsOf(rule, input, m, n)
<1>1. /\ input \in Seq(Bytes) /\ coded \in Seq(Bytes) /\ decoded \in Seq(Bytes)
      /\ m.at \in Nat /\ Len(decoded) = m.at /\ m.at <= Len(input)
      /\ n.at \in Nat /\ n.at <= Len(input)
      /\ \A i \in 1..m.at : decoded[i] = input[i]
      /\ decTable = m.table /\ position = m.length /\ position \in Nat \ {0}
      /\ n.length \in Nat /\ n.length <= Len(coded) /\ coded[1] = Marker(input)
  BY AheadFacts
<1>2. /\ m.at < n.at /\ source \in 0..(m.at - 1) /\ needed \in 1..count
      /\ \A k \in 1..count : input[source + k] = input[m.at + k]
      /\ n.table = Marked(m.table, input, m.at, n.at - 1)
      /\ coded[m.length + 1] = Marker(input)
      /\ n.length = m.length + 1 + Len(digits)
      /\ \A i \in 1..Len(digits) : coded[m.length + 1 + i] = digits[i]
  BY DEF MatchStep
<1>3. digits = LengthDigits(count - needed + 1)
  BY DEF DigitsOf
<1>4. needed = Needed(m.at - source)
  BY NeededIs
<1>5. input \in Inputs /\ expectedSize = Len(input)
  BY DEF Ahead
<1> HIDE DEF digits
<1>6. count \in Nat /\ count >= 1 /\ m.at + count = n.at /\ m.at + count <= Len(input)
  <2>1. m.at \in Nat /\ n.at \in Nat /\ m.at < n.at
    BY <1>1, <1>2
  <2>2. count \in Nat /\ count >= 1 /\ m.at + count = n.at
    BY <2>1
  <2> HIDE DEF count
  <2> QED
    BY <1>1, <2>2
<1> HIDE DEF count, needed
<1>7. count - needed + 1 \in Nat /\ count - needed + 1 >= 1 /\ count - needed + 1 \in 0..Len(input)
      /\ count - needed + 1 - 1 + needed = count
  <2>1. needed \in 1..count
    BY <1>2
  <2>2. Len(input) \in Nat /\ m.at \in Nat /\ count \in Nat
        /\ m.at + count <= Len(input)
    BY <1>1, <1>6
  <2>3. count <= Len(input)
    BY <2>2
  <2> QED
    BY <2>1, <2>2, <2>3
<1>8. /\ Flags(digits) /\ Number(digits) = count - needed + 1 /\ Len(digits) <= MaxDigits
      /\ Len(digits) \in Nat
  <2>1. Len(LengthDigits(count - needed + 1)) <= MaxDigits
    BY <1>5, <1>7, DigitsAssumption
  <2>2. Flags(digits) /\ Number(digits) = count - needed + 1
    BY <1>3, <1>7, LengthCoded
  <2> QED
    BY <1>3, <2>1, <2>2 DEF Flags
<1>9. AtMarker /\ LengthRead /\ Length = Number(digits) /\ AfterToken = position + 1 + Len(digits)
  <2>1. position + 1 + Len(digits) <= Len(coded) /\ coded[position + 1] = coded[1]
        /\ \A i \in 1..Len(digits) : coded[position + 1 + i] = digits[i]
    BY <1>1, <1>2
  <2> QED
    BY <1>1, <1>8, <2>1, DigitsAhead
<1>10. Prediction - 1 = source /\ Prediction # 0
  <2>1. Predicted(m.table, decoded, m.at) = Predicted(m.table, input, m.at)
    <3>1. CASE m.at >= ContextSize
      <4>1. m.at <= Len(decoded)
        BY <1>1
      <4>2. Slot(decoded, m.at) = Slot(input, m.at)
        BY <1>1, <3>1, <4>1, SlotSame
      <4> QED
        BY <4>2 DEF Predicted
    <3>2. CASE ~(m.at >= ContextSize)
      BY <3>2 DEF Predicted
    <3> QED
      BY <3>1, <3>2
  <2>2. Prediction = Predicted(m.table, input, m.at)
    BY <1>1, <2>1 DEF Prediction
  <2>3. Prediction - 1 = source
    BY <2>2 DEF SourceOf
  <2>4. Prediction # 0
    <3> HIDE DEF source
    <3>1. source \in Nat
      BY <1>1, <1>2
    <3> QED
      BY <2>3, <3>1
  <2> QED
    BY <2>3, <2>4
<1>11. Match = count
  <2>1. Match = Length - 1 + Needed(m.at - source)
    BY <1>1, <1>10 DEF Match
  <2>2. Match = Length - 1 + needed
    BY <1>4, <2>1
  <2>3. Length = count - needed + 1
    BY <1>8, <1>9
  <2>4. needed \in Nat
    BY <1>2, <1>6
  <2> QED
    BY <1>6, <2>2, <2>3, <2>4
<1>12. MatchFits /\ Length # 0
  <2>1. count <= expectedSize - Len(decoded)
    BY <1>1, <1>5, <1>6
  <2>2. Length # 0
    BY <1>7, <1>8, <1>9
  <2> QED
    BY <1>10, <1>11, <2>1, <2>2 DEF MatchFits
<1> HIDE DEF source
<1>13. Copied(source, count) = [k \in 1..count |-> input[m.at + k]]
  <2> DEFINE f == [k \in 1..count |-> input[m.at + k]]
  <2>1. ASSUME NEW k \in 1..count
        PROVE  f[k] = IF source + k <= Len(decoded) THEN decoded[source + k]
                                                    ELSE f[source + k - Len(decoded)]
    <3>1. source \in Nat /\ k \in Nat /\ k >= 1 /\ source < m.at /\ k <= count
      BY <1>1, <1>2, <1>6, <2>1
    <3>2. f[k] = input[source + k]
      BY <1>2, <2>1
    <3>3. CASE source + k <= m.at
      <4>1. source + k \in 1..m.at
        BY <1>1, <3>1, <3>3
      <4> QED
        BY <1>1, <3>2, <3>3, <4>1
    <3>4. CASE ~(source + k <= m.at)
      <4>1. source + k - m.at \in 1..count /\ m.at + (source + k - m.at) = source + k
        BY <1>1, <1>6, <3>1, <3>4
      <4>2. f[source + k - m.at] = input[source + k]
        BY <4>1
      <4> QED
        BY <1>1, <3>2, <3>4, <4>2
    <3> QED
      BY <3>3, <3>4
  <2>2. f = [k \in 1..count |-> f[k]]
    OBVIOUS
  <2> HIDE DEF f
  <2>3. Copies(f, source, count)
    BY <2>1, <2>2 DEF Copies
  <2>4. source \in Nat /\ source < Len(decoded)
    BY <1>1, <1>2
  <2>5. Copied(source, count) = f
    BY <1>1, <1>6, <2>3, <2>4, CopiedIs
  <2> QED
    BY <2>5 DEF f
<1>14. ASSUME DecodeMatch PROVE Follows(n)'
  <2>1. /\ decoded' = decoded \o Copied(source, count) /\ position' = AfterToken
        /\ decTable' = Marked(decTable, decoded', Len(decoded), Len(decoded) + count - 1)
        /\ input' = input
    BY <1>10, <1>11, <1>14 DEF DecodeMatch
  <2> DEFINE copy == [k \in 1..count |-> input[m.at + k]]
  <2>2. decoded' = decoded \o copy
    BY <1>13, <2>1
  <2>3. copy \in Seq(Bytes) /\ Len(copy) = count /\ \A k \in 1..count : copy[k] = input[m.at + k]
    <3>1. \A k \in 1..count : m.at + k \in 1..Len(input)
      BY <1>1, <1>6
    <3>2. copy \in [1..count -> Bytes]
      BY <1>1, <3>1
    <3> QED
      BY <1>6, <3>2
  <2> HIDE DEF copy
  <2>4. /\ decoded' \in Seq(Bytes) /\ Len(decoded') = n.at
        /\ \A i \in 1..Len(decoded) : decoded'[i] = decoded[i]
        /\ \A k \in 1..count : decoded'[Len(decoded) + k] = copy[k]
    BY <1>1, <1>6, <2>2, <2>3, Joined
  <2>5. \A i \in 1..n.at : decoded'[i] = input[i]
    <3> TAKE i \in 1..n.at
    <3>1. CASE i <= m.at
      <4>1. i \in 1..m.at
        BY <1>1, <3>1
      <4> QED
        BY <1>1, <2>4, <4>1
    <3>2. CASE ~(i <= m.at)
      <4>1. i - m.at \in 1..count /\ m.at + (i - m.at) = i
        BY <1>1, <1>6, <3>2
      <4>2. decoded'[m.at + (i - m.at)] = input[m.at + (i - m.at)]
        BY <1>1, <2>3, <2>4, <4>1
      <4> QED
        BY <4>1, <4>2
    <3> QED
      BY <3>1, <3>2
  <2>6. decTable' = n.table
    <3> DEFINE last == n.at - 1
    <3>1. last \in Int /\ last <= Len(decoded') /\ last <= Len(input) /\ m.at + count - 1 = last
          /\ \A i \in 1..last : i \in 1..n.at
      <4>1. n.at \in Nat /\ n.at <= Len(input) /\ Len(decoded') = n.at /\ m.at + count = n.at
            /\ m.at \in Nat /\ count \in Nat
        BY <1>1, <1>6, <2>4
      <4>2. m.at + count - 1 = last
        BY <4>1
      <4>3. last \in Int /\ last <= n.at /\ \A i \in 1..last : i \in 1..n.at
        BY <4>1
      <4> HIDE DEF last
      <4>4. last <= Len(decoded') /\ last <= Len(input)
        <5>1. Len(input) \in Nat
          BY <1>1
        <5> QED
          BY <4>1, <4>3, <5>1
      <4> QED
        BY <4>2, <4>3, <4>4
    <3>2. decTable' = Marked(m.table, decoded', m.at, last)
      BY <1>1, <2>1, <3>1
    <3>3. \A i \in 1..last : decoded'[i] = input[i]
      BY <2>5, <3>1
    <3>4. n.table = Marked(m.table, input, m.at, last)
      BY <1>2
    <3> HIDE DEF last
    <3>5. Marked(m.table, decoded', m.at, last) = Marked(m.table, input, m.at, last)
      <4>1. decoded' \in Seq(Bytes) /\ input \in Seq(Bytes) /\ m.at \in Nat /\ last \in Int
        BY <1>1, <2>4, <3>1
      <4>2. last <= Len(decoded') /\ last <= Len(input)
        BY <3>1
      <4> QED
        BY <3>3, <4>1, <4>2, MarkedSame
    <3> QED
      BY <3>2, <3>4, <3>5
  <2>7. position' = n.length
    BY <1>1, <1>2, <1>9, <2>1
  <2> QED
    BY <2>1, <2>4, <2>5, <2>6, <2>7 DEF Follows
<1> QED
  BY <1>9, <1>12, <1>14

(* The decoder has a token ahead of it until it has read them all.         *)
LEMMA TokenAhead ==
    ASSUME TypeInv, Honest, ~foreign, phase = "decode"
    PROVE  \E k \in Nat : \E h : \E j \in 0..k :
             /\ Trace(h, k, rule, input, coded)
             /\ h[k].at = Len(input) /\ h[k].length = Len(coded) /\ Follows(h[j])
             /\ j = k => decoded = input /\ position = Len(coded)
             /\ j # k => /\ Ahead(h[j], h[j + 1]) /\ j + 1 \in 0..k
                         /\ TokenStep(rule, input, coded, h[j], h[j + 1])
                         /\ Len(decoded) < expectedSize
<1>0. \E k \in Nat : \E h :
        /\ Trace(h, k, rule, input, coded)
        /\ h[k].at = Len(input) /\ h[k].length = Len(coded)
        /\ \E j \in 0..k : Follows(h[j])
  BY DEF Honest
<1>1. PICK k \in Nat : \E h :
        /\ Trace(h, k, rule, input, coded)
        /\ h[k].at = Len(input) /\ h[k].length = Len(coded)
        /\ \E j \in 0..k : Follows(h[j])
  BY <1>0
<1>2. PICK h : /\ Trace(h, k, rule, input, coded)
               /\ h[k].at = Len(input) /\ h[k].length = Len(coded)
               /\ \E j \in 0..k : Follows(h[j])
  BY <1>1
<1>3. PICK j \in 0..k : Follows(h[j])
  BY <1>2
<1>4. /\ input \in Inputs /\ expectedSize = Len(input) /\ Len(coded) >= 1 /\ coded[1] = Marker(input)
  BY DEF Honest
<1>5. input \in Seq(Bytes) /\ coded \in Seq(Bytes) /\ decoded \in Seq(Bytes)
  BY DEF TypeInv
<1>6. ASSUME j = k PROVE decoded = input /\ position = Len(coded)
  <2>1. Len(decoded) = Len(input) /\ \A i \in 1..Len(input) : decoded[i] = input[i]
    BY <1>2, <1>3, <1>6 DEF Follows
  <2>2. decoded = input
    BY <1>5, <2>1
  <2> QED
    BY <1>2, <1>3, <1>6, <2>2 DEF Follows
<1>7. ASSUME j # k
      PROVE  /\ Ahead(h[j], h[j + 1]) /\ j + 1 \in 0..k
             /\ TokenStep(rule, input, coded, h[j], h[j + 1])
             /\ Len(decoded) < expectedSize
  <2>1. j \in 0..(k - 1) /\ j + 1 \in 0..k
    BY <1>7
  <2>2. /\ Known(h[j], input, coded) /\ Known(h[j + 1], input, coded)
        /\ TokenStep(rule, input, coded, h[j], h[j + 1])
    BY <1>2, <2>1 DEF Trace
  <2>3. Ahead(h[j], h[j + 1])
    BY <1>3, <1>4, <2>2 DEF Ahead
  <2>4. h[j].at < h[j + 1].at
    <3>1. CASE LiteralStep(input, coded, h[j], h[j + 1])
      BY <2>3, <3>1, AheadFacts DEF LiteralStep
    <3>2. CASE MatchStep(rule, input, coded, h[j], h[j + 1])
      BY <3>2 DEF MatchStep
    <3> QED
      BY <2>2, <3>1, <3>2 DEF TokenStep
  <2>5. /\ Len(decoded) = h[j].at /\ h[j].at \in Nat /\ h[j + 1].at \in Nat
        /\ h[j + 1].at <= Len(input)
    BY <2>3, AheadFacts
  <2>6. Len(decoded) < expectedSize
    <3>1. Len(input) \in Nat
      BY <1>5
    <3> QED
      BY <1>4, <2>4, <2>5, <3>1
  <2> QED
    BY <2>1, <2>2, <2>3, <2>6
<1> QED
  BY <1>2, <1>3, <1>6, <1>7

(* Whatever the decoder does, it moves on to the next milestone.           *)
LEMMA DecodeMoves ==
    ASSUME TypeInv, NEW m, NEW n, Ahead(m, n), TokenStep(rule, input, coded, m, n),
           DecodeLiteral \/ DecodeMarker \/ DecodeMatch \/ DecodeThrows
    PROVE  /\ Follows(n)'
           /\ UNCHANGED <<phase, foreign, rule, input, encIndex, encTable, coded, expectedSize>>
<1>1. (DecodeLiteral \/ DecodeMarker \/ DecodeMatch) =>
        UNCHANGED <<phase, foreign, rule, input, encIndex, encTable, coded, expectedSize>>
  BY DEF DecodeLiteral, DecodeMarker, DecodeMatch
<1>2. AtMarker => position < Len(coded)
  BY DEF AtMarker
<1>3. position \in Nat /\ Len(coded) \in Nat
  BY DEF TypeInv
<1>4. ASSUME LiteralStep(input, coded, m, n), input[m.at + 1] # Marker(input)
      PROVE  Follows(n)' /\ DecodeLiteral
  <2>1. ~AtMarker /\ position < Len(coded) /\ (DecodeLiteral => Follows(n)')
    BY <1>4, LiteralAhead
  <2>2. ~DecodeMarker /\ ~DecodeMatch /\ ~DecodeThrows
    BY <1>3, <2>1 DEF DecodeMarker, DecodeMatch, DecodeThrows, LengthRead
  <2> QED
    BY <2>1, <2>2
<1>5. ASSUME LiteralStep(input, coded, m, n), input[m.at + 1] = Marker(input)
      PROVE  Follows(n)' /\ DecodeMarker
  <2>1. AtMarker /\ LengthRead /\ Length = 0 /\ (DecodeMarker => Follows(n)')
    BY <1>5, MarkerAhead
  <2>2. ~DecodeLiteral /\ ~DecodeMatch /\ ~DecodeThrows
    BY <1>2, <1>3, <2>1 DEF DecodeLiteral, DecodeMatch, DecodeThrows
  <2> QED
    BY <2>1, <2>2
<1>6. ASSUME MatchStep(rule, input, coded, m, n)
      PROVE  Follows(n)' /\ DecodeMatch
  <2>1. AtMarker /\ LengthRead /\ Length # 0 /\ MatchFits /\ (DecodeMatch => Follows(n)')
    BY <1>6, MatchAhead
  <2>2. ~DecodeLiteral /\ ~DecodeMarker /\ ~DecodeThrows
    BY <1>2, <1>3, <2>1 DEF DecodeLiteral, DecodeMarker, DecodeThrows
  <2> QED
    BY <2>1, <2>2
<1> QED
  BY <1>1, <1>4, <1>5, <1>6 DEF TokenStep

LEMMA DecodeHonest ==
    ASSUME TypeInv, Honest, ~foreign,
           DecodeLiteral \/ DecodeMarker \/ DecodeMatch \/ DecodeThrows
    PROVE  Honest'
<1>1. Decoding /\ phase = "decode"
  BY DEF DecodeLiteral, DecodeMarker, DecodeMatch, DecodeThrows, Decoding
<1>2. PICK k \in Nat : \E h : \E j \in 0..k :
             /\ Trace(h, k, rule, input, coded)
             /\ h[k].at = Len(input) /\ h[k].length = Len(coded) /\ Follows(h[j])
             /\ j = k => decoded = input /\ position = Len(coded)
             /\ j # k => /\ Ahead(h[j], h[j + 1]) /\ j + 1 \in 0..k
                         /\ TokenStep(rule, input, coded, h[j], h[j + 1])
                         /\ Len(decoded) < expectedSize
  BY <1>1, TokenAhead
<1>3. PICK h : \E j \in 0..k :
             /\ Trace(h, k, rule, input, coded)
             /\ h[k].at = Len(input) /\ h[k].length = Len(coded) /\ Follows(h[j])
             /\ j = k => decoded = input /\ position = Len(coded)
             /\ j # k => /\ Ahead(h[j], h[j + 1]) /\ j + 1 \in 0..k
                         /\ TokenStep(rule, input, coded, h[j], h[j + 1])
                         /\ Len(decoded) < expectedSize
  BY <1>2
<1>4. PICK j \in 0..k :
             /\ Trace(h, k, rule, input, coded)
             /\ h[k].at = Len(input) /\ h[k].length = Len(coded) /\ Follows(h[j])
             /\ j = k => decoded = input /\ position = Len(coded)
             /\ j # k => /\ Ahead(h[j], h[j + 1]) /\ j + 1 \in 0..k
                         /\ TokenStep(rule, input, coded, h[j], h[j + 1])
                         /\ Len(decoded) < expectedSize
  BY <1>3
<1>5. input \in Inputs /\ expectedSize = Len(input) /\ Len(coded) >= 1 /\ coded[1] = Marker(input)
      /\ Len(coded) < Len(input)
  BY <1>1 DEF Honest
<1>6. j # k
  <2>1. Len(decoded) < expectedSize /\ Len(decoded) \in Nat
    BY <1>1 DEF Decoding, TypeInv
  <2> QED
    BY <1>4, <1>5, <2>1
<1>7. /\ Follows(h[j + 1])'
      /\ UNCHANGED <<phase, foreign, rule, input, encIndex, encTable, coded, expectedSize>>
  BY <1>4, <1>6, DecodeMoves
<1>8. \E q \in Nat : \E f :
        /\ Trace(f, q, rule, input, coded)
        /\ f[q].at = Len(input) /\ f[q].length = Len(coded)
        /\ \E i \in 0..q : Follows(f[i])'
  BY <1>4, <1>6, <1>7
<1> QED
  BY <1>1, <1>5, <1>7, <1>8 DEF Honest

LEMMA EndHonest ==
    ASSUME TypeInv, Honest, ~foreign, DecodeEnds
    PROVE  Honest'
<1>1. /\ phase = "decode" /\ Len(decoded) >= expectedSize
      /\ phase' = (IF position = Len(coded) THEN "done" ELSE "rejected")
      /\ UNCHANGED <<foreign, rule, input, encIndex, encTable, coded, expectedSize, position, decTable,
                     decoded>>
  BY DEF DecodeEnds
<1>2. decoded = input /\ position = Len(coded)
  <2>1. Len(decoded) \in Nat /\ expectedSize \in Nat
    BY DEF TypeInv
  <2>2. ~(Len(decoded) < expectedSize)
    BY <1>1, <2>1
  <2> QED
    BY <1>1, <2>2, TokenAhead
<1>3. input \in Inputs /\ expectedSize = Len(input) /\ Len(coded) >= 1 /\ coded[1] = Marker(input)
  BY DEF Honest
<1> QED
  BY <1>1, <1>2, <1>3 DEF Honest

LEMMA StepHonest == TypeInv /\ Honest /\ [LzpNext]_lzpVars => Honest'
<1> SUFFICES ASSUME TypeInv, Honest, [LzpNext]_lzpVars PROVE Honest'
  OBVIOUS
<1>1. foreign' = foreign
  BY DEF LzpNext, lzpVars, EncodeMatch, EncodeLiteral, Encoded, DecodeLiteral, DecodeMarker,
         DecodeMatch, DecodeThrows, DecodeEnds, LzpStopped
<1>2. CASE foreign
  BY <1>1, <1>2 DEF Honest
<1>3. CASE ~foreign
  <2>1. CASE EncodeMatch
    BY <1>3, <2>1, EncodeMatchHonest
  <2>2. CASE EncodeLiteral
    BY <1>3, <2>2, EncodeLiteralHonest
  <2>3. CASE Encoded
    BY <1>3, <2>3, EncodedHonest
  <2>4. CASE DecodeLiteral \/ DecodeMarker \/ DecodeMatch \/ DecodeThrows
    BY <1>3, <2>4, DecodeHonest
  <2>5. CASE DecodeEnds
    BY <1>3, <2>5, EndHonest
  <2>6. CASE LzpStopped \/ UNCHANGED lzpVars
    BY <2>6 DEF LzpStopped, lzpVars, Honest, Reached, Follows
  <2> QED
    BY <2>1, <2>2, <2>3, <2>4, <2>5, <2>6 DEF LzpNext
<1> QED
  BY <1>2, <1>3

(* Of its own streams: the decoder follows the encoder from token to       *)
(* token, so that a block comes back as it was and no stream that was kept *)
(* is refused.                                                             *)
THEOREM AlwaysRoundTrips == LzpSpec => []RoundTrip
<1>1. Honest => RoundTrip
  BY DEF Honest, RoundTrip
<1>2. TypeInv /\ Honest /\ [LzpNext]_lzpVars => (TypeInv /\ Honest)'
  BY StepTyped, StepHonest
<1> QED
  BY <1>1, <1>2, InitTyped, InitHonest, PTL DEF LzpSpec

=============================================================================
