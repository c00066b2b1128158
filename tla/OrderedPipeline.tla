--------------------------- MODULE OrderedPipeline ---------------------------
(***************************************************************************)
(* What a block pipeline of the codec promises its caller, whatever the    *)
(* threads inside it do: blocks are accepted one after another, at most    *)
(* "depth" of them are held at a time, the consumer receives every         *)
(* accepted block exactly once and in the order of acceptance, a pipeline  *)
(* that completes has handed over all of them, and one that aborts hands   *)
(* over nothing more.  EncodePipeline (compression) and DecompressFile     *)
(* (decompression) are both shown to implement it.                         *)
(***************************************************************************)
EXTENDS Naturals, Sequences

VARIABLES
    depth,     \* how many blocks may be inside at a time
    accepted,  \* how many blocks have been accepted: blocks 1..accepted
    emitted,   \* the blocks the consumer has received, oldest first
    status     \* "open", "complete" or "aborted"

vars == <<depth, accepted, emitted, status>>

Init ==
    /\ depth \in Nat \ {0}
    /\ accepted = 0
    /\ emitted = <<>>
    /\ status = "open"

Accept ==
    /\ status = "open"
    /\ accepted < Len(emitted) + depth
    /\ accepted' = accepted + 1
    /\ UNCHANGED <<depth, emitted, status>>

Emit ==
    /\ status = "open"
    /\ Len(emitted) < accepted
    /\ emitted' = Append(emitted, Len(emitted) + 1)
    /\ UNCHANGED <<depth, accepted, status>>

Complete ==
    /\ status = "open"
    /\ Len(emitted) = accepted
    /\ status' = "complete"
    /\ UNCHANGED <<depth, accepted, emitted>>

Abort ==
    /\ status = "open"
    /\ status' = "aborted"
    /\ UNCHANGED <<depth, accepted, emitted>>

Next == Accept \/ Emit \/ Complete \/ Abort

Spec == Init /\ [][Next]_vars

=============================================================================
