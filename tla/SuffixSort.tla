------------------------------ MODULE SuffixSort ------------------------------
(***************************************************************************)
(* SuffixSorter of transforms.cpp: the suffixes of a block are sorted by   *)
(* sorting some of them (the LMS ones), which recurses on a shorter text,  *)
(* and inducing the order of all others.                                   *)
(*                                                                         *)
(* Every level of the recursion works in the same array: the text of the   *)
(* next level is written into the top slots that this level uses, and is   *)
(* sorted in the bottom ones.  So a level is its size and where its text   *)
(* starts, the text is read from the array, and an action is one of the    *)
(* three stages of run.                                                    *)
(*                                                                         *)
(* A text is a sequence of numbers; positions in it, and slots of the      *)
(* array, count from 0 as in the code.                                     *)
(***************************************************************************)
EXTENDS BlockSort

CONSTANT InduceFlag      \* induce_flag, above every position: 2^31

ASSUME FlagAssumption == InduceFlag \in Nat \ {0}

VARIABLES
    block,    \* the block whose suffixes are sorted
    sa,       \* the suffix array
    levels    \* the calls of run that have not returned, innermost last

sortVars == <<sa, levels>>

(* find_buckets: the first slot of each symbol, or one past its last.      *)
Buckets(text, tails) ==
    [symbol \in ToSet(text) |->
        Cardinality({p \in Positions(text) :
                        At(text, p) < symbol \/ (tails /\ At(text, p) = symbol)})]

(* for_each_lms: the S-type positions after an L-type one, from right to   *)
(* left.  The last position is above the sentinel.                         *)
LmsPositions(text) ==
    LET isS(p) == \E q \in (p + 1)..(Len(text) - 1) :
                    /\ At(text, p) < At(text, q)
                    /\ \A r \in p..(q - 1) : At(text, r) = At(text, p)
    IN  SelectSeq(Downwards(Len(text)), LAMBDA p : p > 0 /\ isS(p) /\ ~isS(p - 1))

FlaggedL(text, suffix) ==
    IF suffix > 0 /\ At(text, suffix - 1) < At(text, suffix) THEN suffix + InduceFlag ELSE suffix

FlaggedS(text, suffix) ==
    IF suffix > 0 /\ At(text, suffix - 1) <= At(text, suffix) THEN suffix + InduceFlag ELSE suffix

(* The L-type suffixes, from left to right at the heads of their buckets.  *)
InduceL(text, array, prune) ==
    LET place(s, suffix) ==
            LET symbol == At(text, suffix)
            IN  [s EXCEPT !.sa[s.next[symbol]] = FlaggedL(text, suffix), !.next[symbol] = @ + 1]
        visit(s, slot) ==
            LET entry == s.sa[slot]
            IN  IF entry = 0 \/ entry >= InduceFlag THEN s
                ELSE LET placed == place(s, entry - 1)
                     IN  IF prune THEN [placed EXCEPT !.sa[slot] = 0] ELSE placed
        start == place([sa |-> array, next |-> Buckets(text, FALSE)], Len(text) - 1)
    IN  FoldLeft(visit, start, Upwards(Len(text))).sa

(* The S-type suffixes, from right to left at the tails.                   *)
InduceS(text, array, prune) ==
    LET visit(s, slot) ==
            IF s.sa[slot] < InduceFlag THEN s
            ELSE LET suffix == s.sa[slot] - InduceFlag - 1
                     symbol == At(text, suffix)
                     tail   == s.next[symbol] - 1
                 IN  [sa   |-> [[s.sa EXCEPT ![tail] = FlaggedS(text, suffix)]
                                  EXCEPT ![slot] = IF prune THEN 0 ELSE suffix + 1],
                      next |-> [s.next EXCEPT ![symbol] = tail]]
    IN  FoldLeft(visit, [sa |-> array, next |-> Buckets(text, TRUE)], Downwards(Len(text))).sa

(* Equal symbols over an equal length imply equal types.                   *)
EqualSymbols(text, p, q, length) == \A i \in 1..length : text[p + i] = text[q + i]

(* Names of the sorted substrings from one LMS position to the next, equal *)
(* for equal substrings.  Half its position is the slot of a substring,    *)
(* which holds first the length and then the name.                         *)
Names(text, lms, sorted) ==
    LET count == Len(lms)
        slot(p) == count + p \div 2
        following(i) == IF i = 1 THEN Len(text) ELSE lms[i - 1]
        lengths == FoldLeft(LAMBDA slots, i : [slots EXCEPT ![slot(lms[i])] = following(i) - lms[i] + 1],
                            [i \in count..(Len(text) - 1) |-> 0], [i \in 1..count |-> i])
        name(s, p) ==
            LET length == s.slots[slot(p)]
                same   == /\ s.names > 0 /\ length = s.length
                          /\ lms[1] \notin {p, s.previous}
                          /\ EqualSymbols(text, p, s.previous, length)
                names  == IF same THEN s.names ELSE s.names + 1
            IN  [slots |-> [s.slots EXCEPT ![slot(p)] = names],
                 names |-> names, previous |-> p, length |-> length]
        named == FoldLeft(name, [slots |-> lengths, names |-> 0, previous |-> 0, length |-> 0], sorted)
    IN  [count  |-> named.names,
         inText |-> SelectSeq([i \in 1..(Len(text) - count) |-> named.slots[count + i - 1] - 1],
                              LAMBDA x : x >= 0)]

-----------------------------------------------------------------------------

Level == Last(levels)

Text == IF Len(levels) = 1 THEN block
        ELSE [i \in 1..Level.size |-> sa[Level.from + i - 1]]

SortStarts ==
    /\ sa = [slot \in Positions(block) |-> 0]
    /\ levels = <<[size |-> Len(block), from |-> 0, count |-> 0,
                   stage |-> IF Len(block) = 1 THEN "sorted" ELSE "substrings"]>>

ToStage(stage, count) ==
    levels' = [levels EXCEPT ![Len(levels)] = [@ EXCEPT !.stage = stage, !.count = count]]

(* A position goes to the tail of its bucket.                              *)
ToTail(text, s, position) ==
    LET symbol == At(text, position)
        tail   == s.next[symbol] - 1
    IN  [sa |-> [s.sa EXCEPT ![tail] = position], next |-> [s.next EXCEPT ![symbol] = tail]]

ClearedFaulty(from) == sa

Cleared(from) == [slot \in DOMAIN sa |-> IF slot \in from..(Level.size - 1) THEN 0 ELSE sa[slot]]

(* One round of induced sorting from the LMS positions sorts the LMS       *)
(* substrings, which are gathered at the bottom.                           *)
SortSubstrings ==
    /\ Level.stage = "substrings"
    /\ LET text   == Text
           lms    == LmsPositions(text)
           placed == FoldLeft(LAMBDA s, p : ToTail(text, s, p),
                              [sa |-> Cleared(0), next |-> Buckets(text, TRUE)], lms)
           pruned == InduceS(text, InduceL(text, placed.sa, TRUE), TRUE)
           sorted == SelectSeq([i \in 1..Level.size |-> pruned[i - 1]], LAMBDA entry : entry # 0)
       IN  /\ sa' = [slot \in DOMAIN sa |->
                        IF slot < Len(lms) THEN sorted[slot + 1] ELSE pruned[slot]]
           /\ ToStage("names", Len(lms))
    /\ UNCHANGED block

(* The names of the substrings, in the order of the text, are the text of  *)
(* the next level, unless they are all different and so are the ranks.     *)
NameSubstrings ==
    /\ Level.stage = "names"
    /\ LET names   == Names(Text, LmsPositions(Text),
                            [i \in 1..Level.count |-> sa[i - 1]])
           count   == Level.count
           reduced == Level.size - count
           named   == [slot \in DOMAIN sa |->
                          IF slot \in reduced..(Level.size - 1)
                            THEN names.inText[slot - reduced + 1] ELSE sa[slot]]
       IN  IF names.count < count
             THEN /\ sa' = named
                  /\ levels' = Append([levels EXCEPT ![Len(levels)].stage = "induce"],
                                      [size |-> count, from |-> reduced, count |-> 0,
                                       stage |-> "substrings"])
             ELSE /\ sa' = [slot \in DOMAIN sa |->
                               IF slot < count
                                 THEN CHOOSE i \in 0..(count - 1) : named[reduced + i] = slot
                                 ELSE named[slot]]
                  /\ ToStage("induce", count)
    /\ UNCHANGED block

(* Ranks become positions, the LMS suffixes go to the tails of their       *)
(* buckets, and all others are induced.                                    *)
InduceOrder ==
    /\ Level.stage = "induce"
    /\ LET text == Text
           lms  == LmsPositions(text)
           bottom == [slot \in DOMAIN sa |->
                         IF slot < Level.count THEN lms[Level.count - sa[slot]] ELSE Cleared(Level.count)[slot]]
           move(s, slot) == ToTail(text, [s EXCEPT !.sa[slot] = 0], s.sa[slot])
           placed == FoldLeft(move, [sa |-> bottom, next |-> Buckets(text, TRUE)],
                              Downwards(Level.count))
       IN  sa' = InduceS(text, InduceL(text, placed.sa, FALSE), FALSE)
    /\ IF Len(levels) = 1 THEN ToStage("sorted", Level.count) ELSE levels' = Front(levels)
    /\ UNCHANGED block

SortStep == SortSubstrings \/ NameSubstrings \/ InduceOrder

Sorted == Level.stage = "sorted"

=============================================================================
