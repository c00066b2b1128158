----------------------------- MODULE BlockCodec ------------------------------
(***************************************************************************)
(* encode_block and decode_block of codec.cpp.  The encoder runs a block   *)
(* through several chains of transforms, each behind a shortcut test, and  *)
(* keeps the smallest payload; the header it writes must tell the decoder  *)
(* which chain won, with that chain's index and intermediate size.         *)
(*                                                                         *)
(* A payload is a record: its size, the coder that made it, the transforms *)
(* the block went through before it, the size of the stream the coder was  *)
(* given, the index of its block sort, and the number of run symbols.      *)
(* What a transform does is not modelled, only that undoing it with the    *)
(* parameters it was done with gives back its input.                       *)
(***************************************************************************)
EXTENDS Naturals, Sequences, SequencesExt

CONSTANTS
    MaxBlock,          \* largest block
    PlanSize,          \* size of a record filter plan
    FlushBytes,        \* the most that finishing the range coder may write
    ShrinkDivisor      \* lzp_shrink_divisor: 256

ASSUME BlockAssumption ==
    /\ MaxBlock \in Nat \ {0}
    /\ PlanSize \in Nat \ {0} /\ FlushBytes \in Nat \ {0}
    /\ ShrinkDivisor \in Nat \ {0}

VARIABLES
    pc,            \* the next step of encode_block
    size,          \* the size of the block
    thorough,      \* the ratio profile
    density,       \* x86 branch targets: "none", "some" or "dense"
    filtered,      \* the stream the current step works on: its transforms
    stream,        \* the size of that stream
    best,          \* best.payload, or NoPayload
    index,         \* best.primary_index
    contextMixed,  \* best.context_mixed
    intermediate,  \* intermediate
    flags,         \* those of lzp_used, x86_used, record_used that are set
    offered,       \* sizes of all payloads any coder returned
    header         \* the header encode_block returns, or NoHeader

vars == <<pc, size, thorough, density, filtered, stream, best, index, contextMixed,
          intermediate, flags, offered, header>>

NoPayload == [size |-> 0, coder |-> "none"]
NoHeader  == [mode |-> "none"]

Smaller(a, b) == IF a < b THEN a ELSE b

Init ==
    /\ size \in 1..MaxBlock
    /\ thorough \in BOOLEAN
    /\ density \in {"none", "some", "dense"}
    /\ pc = IF thorough \/ density # "dense" THEN "mixed" ELSE "x86"
    /\ filtered = <<>>
    /\ stream = size
    /\ best = NoPayload
    /\ index = 0
    /\ contextMixed = FALSE
    /\ intermediate = 0
    /\ flags = {}
    /\ offered = {}
    /\ header = NoHeader

-----------------------------------------------------------------------------
(* encode_candidate on the block itself.                                   *)

(* cm_encode gives up beyond the limit it is given; the payload it returns *)
(* goes behind the record filter plan, if there is one.                    *)
Mixed(limit, prefix) ==
    {[size |-> prefix + n, coder |-> "mixed", stages |-> filtered, stream |-> stream,
      index |-> i, symbols |-> 0] : n \in 1..limit, i \in 1..stream}

MixFirst ==
    /\ pc = "mixed"
    /\ \/ \E payload \in Mixed(size, 0) :
            /\ best' = payload
            /\ index' = payload.index
            /\ contextMixed' = TRUE
            /\ offered' = offered \cup {payload.size}
       \/ /\ index' \in 1..size
          /\ UNCHANGED <<best, contextMixed, offered>>
    /\ pc' = "aggressive"
    /\ UNCHANGED <<size, thorough, density, filtered, stream, intermediate, flags, header>>

(* A name ending in "Faulty" is a variant with a bug in it of the          *)
(* definition after it, for the properties to notice; nothing uses it.     *)

(* rc_encode compares what has been written with the limit before finish   *)
(* writes the bytes held back and flushes the range coder, so a payload    *)
(* may exceed it.  Each run symbol stands for at least one byte.           *)
(* The block sort is that of the mixed candidate.                          *)
RunCoded(limit) ==
    {[size |-> n, coder |-> "runs", stages |-> <<>>, stream |-> size, index |-> index,
      symbols |-> s] : n \in 1..(limit - 1 + FlushBytes), s \in 1..size}

RunLimit == IF best = NoPayload THEN size ELSE best.size

BetterFaulty(payload) == payload.size <= RunLimit + FlushBytes

(* A payload of the same size does not replace the best one.               *)
Better(payload) == best = NoPayload \/ payload.size < best.size

RunCode ==
    /\ pc \in {"aggressive", "conservative"}
    /\ \/ \E payload \in RunCoded(RunLimit) :
            /\ Better(payload)
            /\ best' = payload
            /\ contextMixed' = FALSE
            /\ intermediate' = payload.symbols
            /\ offered' = offered \cup {payload.size}
       \/ \E payload \in RunCoded(RunLimit) :
            /\ ~Better(payload)
            /\ offered' = offered \cup {payload.size}
            /\ UNCHANGED <<best, contextMixed, intermediate>>
       \/ UNCHANGED <<best, contextMixed, intermediate, offered>>
    /\ pc' = IF pc = "aggressive" THEN "conservative" ELSE "lzp"
    /\ UNCHANGED <<size, thorough, density, filtered, stream, index, flags, header>>

-----------------------------------------------------------------------------
(* try_mixed on a pre-transformed stream                                   *)

Limit == IF best = NoPayload THEN size ELSE Smaller(size, best.size)

Prefix == IF filtered = <<"record">> THEN PlanSize ELSE 0

KeepFaulty(payload) ==
    /\ best' = payload
    /\ index' = payload.index
    /\ contextMixed' = TRUE
    /\ intermediate' = IF "lzp" \in ToSet(filtered) THEN stream ELSE intermediate
    /\ flags' = ToSet(filtered)

(* Everything the header will say is replaced together.                    *)
Keep(payload) ==
    /\ best' = payload
    /\ index' = payload.index
    /\ contextMixed' = TRUE
    /\ intermediate' = IF "lzp" \in ToSet(filtered) THEN stream ELSE 0
    /\ flags' = ToSet(filtered)

AfterTry == CASE filtered = <<"lzp">>        -> "x86"
              [] filtered = <<"x86">>        -> "x86lzp"
              [] filtered = <<"x86", "lzp">> -> "record"
              [] OTHER                       -> "choose"

TryMixed ==
    /\ pc = "try"
    /\ \/ /\ Prefix < Limit
          /\ \E payload \in Mixed(Limit - Prefix, Prefix) :
               /\ offered' = offered \cup {payload.size}
               /\ IF Better(payload)
                    THEN Keep(payload)
                    ELSE UNCHANGED <<best, index, contextMixed, intermediate, flags>>
       \/ UNCHANGED <<best, index, contextMixed, intermediate, flags, offered>>
    /\ pc' = AfterTry
    /\ UNCHANGED <<size, thorough, density, filtered, stream, header>>

-----------------------------------------------------------------------------
(* The chains encode_block goes through, and the shortcuts past them.      *)

(* lzp_encode returns a shorter stream or none at all.                     *)
WorthTrying(shorter) == thorough \/ shorter <= size - size \div ShrinkDivisor

Lzp ==
    /\ pc \in {"lzp", "x86lzp"}
    /\ \E shorter \in 1..(size - 1) :
         /\ WorthTrying(shorter)
         /\ stream' = shorter
    /\ filtered' = IF pc = "lzp" THEN <<"lzp">> ELSE <<"x86", "lzp">>
    /\ pc' = "try"
    /\ UNCHANGED <<size, thorough, density, best, index, contextMixed, intermediate, flags,
                   offered, header>>

NoLzp ==
    /\ pc \in {"lzp", "x86lzp"}
    /\ pc' = IF pc = "lzp" THEN "x86" ELSE "record"
    /\ UNCHANGED <<size, thorough, density, filtered, stream, best, index, contextMixed,
                   intermediate, flags, offered, header>>

X86 ==
    /\ pc = "x86"
    /\ IF density # "none"
         THEN filtered' = <<"x86">> /\ stream' = size /\ pc' = "try"
         ELSE pc' = "record" /\ UNCHANGED <<filtered, stream>>
    /\ UNCHANGED <<size, thorough, density, best, index, contextMixed, intermediate, flags,
                   offered, header>>

(* record_plan finds a plan or none.                                       *)
Record ==
    /\ pc = "record"
    /\ \/ filtered' = <<"record">> /\ stream' = size /\ pc' = "try"
       \/ pc' = "choose" /\ UNCHANGED <<filtered, stream>>
    /\ UNCHANGED <<size, thorough, density, best, index, contextMixed, intermediate, flags,
                   offered, header>>

(* The best payload, or the block itself when that is not larger.          *)
Choose ==
    /\ pc = "choose"
    /\ header' =
         IF best # NoPayload /\ best.size < size
           THEN [mode |-> IF contextMixed THEN "mixed" ELSE "transformed", flags |-> flags,
                 originalSize |-> size, payloadSize |-> best.size, primaryIndex |-> index,
                 intermediateSize |-> intermediate]
           ELSE [mode |-> "raw", flags |-> {}, originalSize |-> size, payloadSize |-> size,
                 primaryIndex |-> 0, intermediateSize |-> 0]
    /\ pc' = "done"
    /\ UNCHANGED <<size, thorough, density, filtered, stream, best, index, contextMixed,
                   intermediate, flags, offered>>

Stopped == pc = "done" /\ UNCHANGED vars

Next == MixFirst \/ RunCode \/ TryMixed \/ Lzp \/ NoLzp \/ X86 \/ Record \/ Choose \/ Stopped

Spec == Init /\ [][Next]_vars

-----------------------------------------------------------------------------
(* decode_block                                                            *)

MetadataValid(h) ==
    LET coded == IF "lzp" \in h.flags THEN h.intermediateSize ELSE h.originalSize
    IN  CASE h.mode = "raw" ->
               /\ h.payloadSize = h.originalSize
               /\ h.primaryIndex = 0 /\ h.intermediateSize = 0 /\ h.flags = {}
          [] h.mode = "transformed" ->
               /\ h.primaryIndex \in 1..h.originalSize
               /\ h.intermediateSize \in 1..h.originalSize
               /\ h.flags = {}
          [] h.mode = "mixed" ->
               /\ h.primaryIndex \in 1..coded
               /\ IF "lzp" \in h.flags THEN h.intermediateSize < h.originalSize
                                       ELSE h.intermediateSize = 0
               /\ "record" \in h.flags => h.flags = {"record"}

(* The transforms decode_block undoes, last first.                         *)
Undone(h) ==
    LET When(flag) == IF flag \in h.flags THEN <<flag>> ELSE <<>>
    IN  When("lzp") \o When("x86") \o When("record")

(* Decoding gives back the block when every step is undone with what it    *)
(* was done with.                                                          *)
Restores(h, payload) ==
    CASE h.mode = "raw"         -> TRUE
      [] h.mode = "transformed" ->
           /\ payload.coder = "runs"
           /\ h.intermediateSize = payload.symbols
           /\ h.primaryIndex = payload.index
           /\ payload.stages = <<>>
      [] h.mode = "mixed"       ->
           /\ payload.coder = "mixed"
           /\ payload.stream = IF "lzp" \in h.flags THEN h.intermediateSize ELSE h.originalSize
           /\ h.primaryIndex = payload.index
           /\ Undone(h) = Reverse(payload.stages)

-----------------------------------------------------------------------------
(* Properties                                                              *)

(* Whichever chains were skipped, tried or beaten: the decoder accepts the *)
(* header that was written and undoes exactly the chain that won.          *)
DecodesToTheBlock ==
    pc = "done" => /\ MetadataValid(header)
                   /\ Restores(header, best)

(* No payload any coder returned is smaller than the one written, and a    *)
(* block is never stored larger than it is.                                *)
SmallestKept ==
    pc = "done" => /\ header.payloadSize <= size
                   /\ \A n \in offered : header.payloadSize <= n

=============================================================================
