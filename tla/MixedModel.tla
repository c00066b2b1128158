------------------------------ MODULE MixedModel ------------------------------
(***************************************************************************)
(* MixedModel of transforms.cpp, the predictor of the context mixer: for   *)
(* every decision about a byte it blends what counters under several       *)
(* contexts say, refines the result, and learns from the decision.  An     *)
(* operator takes the model and returns the model after.                   *)
(*                                                                         *)
(* The first decision about a byte is whether it repeats the byte before.  *)
(* The others walk a tree: node 1 is the root, and a node of ByteValues or *)
(* more is a complete byte.  Node 0 stands for the repeat decision, which  *)
(* borrows the cells of node 0.                                            *)
(*                                                                         *)
(* All tables are one function from the names of the cells touched so far. *)
(* What the two sides must agree about is which cells are read and written *)
(* and when; the arithmetic of counters, mixers and refinements is in four *)
(* constant operators.                                                     *)
(***************************************************************************)
EXTENDS Integers, BlockSort

CONSTANTS
    HistorySize,         \* bit histories, with their leading one, are below: 256
    RepeatHistorySize,   \* 2^repeat_history_bits
    RecencyRanks,        \* recency_ranks: 8
    Order2Rows(_),       \* rows of the order-2 table for a block size
    Initial(_),          \* what the cells of a table hold at first
    Adapt(_, _, _),      \* a cell after counter_update, Mixer::update or Apm::update
    Domain(_, _),        \* the mixed estimate, which selects the refinement cells
    Blend(_, _)          \* the refined estimate

ASSUME ModelAssumption ==
    /\ HistorySize \in Nat \ {0} /\ RepeatHistorySize \in Nat \ {0}
    /\ RecencyRanks \in Nat

Bytes == 0..(ByteValues - 1)

BitWidth(n) == Cardinality({k \in 0..n : 2^k <= n})

Least(a, b) == IF a < b THEN a ELSE b

RunExact == 4
RunBuckets == 12

(* run_bucket_of: exact below 4, then a bucket per doubling.               *)
RunBucket(length) ==
    IF length < RunExact THEN length
    ELSE Least(RunExact - 1 + BitWidth(length \div RunExact), RunBuckets - 1)

(* run_class_of                                                            *)
RunClass(length) ==
    LET width == BitWidth(length)
    IN  IF width <= 1 THEN 0 ELSE IF width = 2 THEN 1 ELSE IF width <= 4 THEN 2 ELSE 3

(* history_push and repeat_history_push: the oldest bit goes when full.    *)
Push(history, bit, size) ==
    LET pushed == 2 * history + bit
    IN  IF pushed < size THEN pushed ELSE (pushed % (size \div 2)) + size \div 2

NewModel(size) ==
    [size |-> size, c1 |-> 0, d1 |-> 0, run |-> 0, runRank |-> 0, recent |-> 0,
     lastRun |-> [byte \in Bytes |-> 0],
     recentSymbols |-> [i \in 1..(RecencyRanks + 2) |-> 0],
     histories |-> <<>>, cells |-> <<>>]

Get(table, name, initial) == IF name \in DOMAIN table THEN table[name] ELSE initial

Put(table, name, value) ==
    [n \in DOMAIN table \cup {name} |-> IF n = name THEN value ELSE table[n]]

Cell(cells, name) == Get(cells, name, Initial(name[1]))

Depth(node) == BitWidth(node) - 1

(* The partial byte node spells the beginning of a byte.                   *)
OnPath(byte, node) == (ByteValues + byte) \div 2^(Width - Depth(node)) = node

BitAfter(byte, node) == (byte \div 2^(Width - 1 - Depth(node))) % 2

(* excluded_node: its last bit is forced, as the byte is not the previous. *)
Excluded(m) == (m.c1 + ByteValues) \div 2

-----------------------------------------------------------------------------
(* The cells of a decision.  An input has a cell and the bit that moves it *)
(* up; of the recency input that is the bit expected by a recent symbol.   *)

Order2Row(m) == (7 * (m.d1 * ByteValues + m.c1)) % Order2Rows(m.size)

HistoryName(m, node) == IF node = 0 THEN <<"repeat", m.c1>> ELSE <<"order 1", m.c1, node>>

(* The lowest rank whose symbol still matches.                             *)
RecencyInput(m, node) ==
    LET matching == {rank \in 0..(RecencyRanks - 1) : OnPath(m.recentSymbols[rank + 2], node)}
    IN  {[cell |-> <<"recency", RunBucket(m.run), rank, Depth(node)>>,
          up   |-> BitAfter(m.recentSymbols[rank + 2], node)] :
            rank \in {r \in matching : \A other \in matching : r <= other}}

(* The inputs of step and, of node 0, repeat_step, and the cells that      *)
(* blend and learn use: the weights of two mixers and two rows of          *)
(* refinement cells.                                                       *)
Look(m, node) ==
    LET bucket  == RunBucket(m.run)
        history == Get(m.histories, HistoryName(m, node), 1)
        input(name) == [cell |-> name, up |-> 1]
        borrowed == <<input(<<"order 2", Order2Row(m), node>>),
                      input(<<"runs", bucket, m.c1, node>>), input(<<"slow", m.c1, node>>)>>
        refine == <<<<"refine order 1", m.c1, node>>, <<"refine run", bucket, node>>>>
    IN  IF node = 0
        THEN [inputs |-> borrowed \o
                  <<input(<<"recent", m.recent>>), input(<<"repeat map", history>>),
                    input(<<"lengths", bucket, m.lastRun[m.c1]>>),
                    input(<<"ranks", bucket, m.runRank, m.recent % 16>>)>>,
              weights |-> <<<<"by length", bucket, m.lastRun[m.c1]>>, <<"by symbol", m.c1>>>>,
              refine  |-> refine]
        ELSE [inputs |-> borrowed \o
                  <<input(<<"order 0", node>>), input(<<"map", history>>),
                    input(<<"sparse", m.d1, node>>)>> \o SetToSeq(RecencyInput(m, node)),
              weights |-> <<<<"by run", RunClass(m.run), node>>,
                            <<"by class", m.c1 \div 2^(Width - 2),
                              IF OnPath(m.c1, node) THEN 1 ELSE 0, node>>>>,
              refine  |-> refine]

(* What blend finds: the estimate, and the cells that learn updates.  A    *)
(* refinement interpolates between the two cells around the mixed value.   *)
Blended(cells, look, values) ==
    LET read(names) == [i \in DOMAIN names |-> Cell(cells, names[i])]
        domain == Domain(values, read(look.weights))
        pairs  == [i \in 1..(2 * Len(look.refine)) |->
                      Append(look.refine[(i + 1) \div 2], domain + (i % 2))]
    IN  [estimate |-> Blend(values, read(look.weights \o pairs)),
         learning |-> look.weights \o pairs]

-----------------------------------------------------------------------------
(* What is learned                                                         *)

UpdateInput(cells, input, bit) ==
    Put(cells, input.cell,
        Adapt(Cell(cells, input.cell), IF bit = input.up THEN 1 ELSE 0, <<>>))

PushHistory(m, node, bit) ==
    LET name == HistoryName(m, node)
        size == IF node = 0 THEN RepeatHistorySize ELSE HistorySize
    IN  [m EXCEPT !.histories = Put(@, name, Push(Get(@, name, 1), bit, size))]

Learn(cells, learning, values, bit) ==
    FoldLeft(LAMBDA c, name : Put(c, name, Adapt(Cell(c, name), bit, values)), cells, learning)

(* A repeat leaves the tree untouched, but for two of its tables.          *)
LearnRepeat(m, cells, node, bit) ==
    LET learn(c, depth) ==
            LET at == (ByteValues + m.c1) \div 2^(Width - depth)
                up == BitAfter(m.c1, at)
                c1 == Put(c, <<"order 0", at>>, Adapt(Cell(c, <<"order 0", at>>), up, <<>>))
            IN  Put(c1, <<"slow", m.c1, at>>, Adapt(Cell(c1, <<"slow", m.c1, at>>), up, <<>>))
    IN  IF node = 0 /\ bit = 1 THEN FoldLeft(learn, cells, [i \in 1..Width |-> i - 1]) ELSE cells

(* predict and predict_repeat: what the decoder finds before the bit.      *)
Predict(m, node) ==
    LET look   == Look(m, node)
        values == [i \in DOMAIN look.inputs |->
                      <<Cell(m.cells, look.inputs[i].cell), look.inputs[i].up>>]
        blended == Blended(m.cells, look, values)
    IN  [inputs |-> look.inputs, values |-> values, estimate |-> blended.estimate,
         learning |-> blended.learning]

UpdateFaulty(m, node, slots, bit) ==
    LET pushed  == PushHistory(m, node, bit)
        updated == FoldLeft(LAMBDA c, input : UpdateInput(c, input, bit), m.cells,
                            Look(pushed, node).inputs)
        learned == Learn(updated, slots.learning, slots.values, bit)
    IN  [pushed EXCEPT !.cells = LearnRepeat(m, learned, node, bit)]

(* update and update_repeat: what the decoder does after the bit, with the *)
(* cells it predicted the bit from.                                        *)
Update(m, node, slots, bit) ==
    LET updated == FoldLeft(LAMBDA c, input : UpdateInput(c, input, bit), m.cells, slots.inputs)
        learned == Learn(updated, slots.learning, slots.values, bit)
    IN  [PushHistory(m, node, bit) EXCEPT !.cells = LearnRepeat(m, learned, node, bit)]

(* predict_and_update and predict_and_update_repeat: the encoder reads and *)
(* updates counter by counter.                                             *)
PredictAndUpdate(m, node, bit) ==
    LET look == Look(m, node)
        sample(s, input) ==
            [cells  |-> UpdateInput(s.cells, input, bit),
             values |-> Append(s.values, <<Cell(s.cells, input.cell), input.up>>)]
        sampled == FoldLeft(sample, [cells |-> m.cells, values |-> <<>>], look.inputs)
        blended == Blended(sampled.cells, look, sampled.values)
        learned == Learn(sampled.cells, blended.learning, sampled.values, bit)
    IN  [estimate |-> blended.estimate,
         model    |-> [PushHistory(m, node, bit) EXCEPT !.cells = LearnRepeat(m, learned, node, bit)]]

(* end_byte: the contexts of the next byte.  A new run moves its symbol to *)
(* the front of the recent ones.                                           *)
EndByte(m, byte) ==
    LET last    == Len(m.recentSymbols)
        found   == {i \in 1..(last - 1) : m.recentSymbols[i] = byte}
        place   == IF found = {} THEN last ELSE CHOOSE i \in found : \A j \in found : i <= j
        repeat  == byte = m.c1
        recent  == (2 * m.recent + (IF repeat THEN 1 ELSE 0)) % 256
    IN  IF repeat THEN [m EXCEPT !.recent = recent, !.run = @ + 1]
        ELSE [m EXCEPT !.recent = recent, !.c1 = byte, !.d1 = m.c1, !.run = 1,
                       !.lastRun[m.c1] = RunBucket(m.run),
                       !.runRank = place - 1,
                       !.recentSymbols = <<byte>> \o RemoveAt(@, place)]

=============================================================================
