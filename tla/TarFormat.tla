------------------------------ MODULE TarFormat ------------------------------
(***************************************************************************)
(* The tar layout that archive.cpp writes and reads: blocks of TarBlock    *)
(* units, entry headers, names that need a long-name entry, and sizes.  A  *)
(* unit is one of a header's TarBlock parts, a zero, or a datum; a name is *)
(* a sequence of characters, kept as numbers so that it can be sorted.     *)
(***************************************************************************)
EXTENDS Integers, Sequences, SequencesExt

CONSTANTS
    TarBlock,       \* tar_block: 512
    NameField,      \* tar_name_field: 100
    PrefixField,    \* tar_prefix_field: 155
    OctalDigits,    \* octal digits of the size field: 11
    SizeLimit,      \* what a size must stay below: 2^64
    LongNameLimit   \* the longest long name the extractor takes: 65536

ASSUME TarAssumption ==
    /\ {TarBlock, NameField, PrefixField, OctalDigits, SizeLimit, LongNameLimit} \subseteq Nat \ {0}

Slash == 47
Dot   == 46

Zero          == [kind |-> "zero"]
Datum(c)      == [kind |-> "datum", value |-> c]
HeaderPart(h, i) == [kind |-> "header", header |-> h, part |-> i]

Zeros(n)      == [i \in 1..n |-> Zero]
Data(name)    == [i \in DOMAIN name |-> Datum(name[i])]
Block(h)      == [i \in 1..TarBlock |-> HeaderPart(h, i)]

(* How many zeros bring a size to a whole number of blocks.                *)
Padded(size) == (TarBlock - (size % TarBlock)) % TarBlock

Power(base, n) ==
    LET power[i \in 0..n] == IF i = 0 THEN 1 ELSE base * power[i - 1]
    IN  power[n]

(* The sizes of long names are sizes, and sizes fit the size field.        *)
ASSUME SizeAssumption ==
    LongNameLimit < SizeLimit /\ SizeLimit <= Power(256, OctalDigits)

(* The last digits of a size, the most significant first.                  *)
Digits(size, base) ==
    [i \in 1..OctalDigits |-> (size \div Power(base, OctalDigits - i)) % base]

(* write_size: octal digits and a NUL, or base 256 where they run out.     *)
SizeField(size) ==
    LET base == IF size < Power(8, OctalDigits) THEN 8 ELSE 256
    IN  [base |-> base, digits |-> Digits(size, base)]

(* parse_size: what the digits make, ...                                   *)
ParseSize(field) ==
    LET value[i \in 0..Len(field.digits)] ==
          IF i = 0 THEN 0 ELSE value[i - 1] * field.base + field.digits[i]
    IN  value[Len(field.digits)]

(* ... unless one of them is no octal digit, or they make too large a size. *)
SizeValid(field) ==
    IF field.base = 8 THEN \A i \in DOMAIN field.digits : field.digits[i] < 8
    ELSE ParseSize(field) < SizeLimit

(* Sequences of units in whose headers the size field holds digits.        *)
Readable(units) ==
    /\ units \in Seq(Range(units))
    /\ \A i \in DOMAIN units : units[i].kind = "header" =>
         LET field == units[i].header.size
         IN  field.base \in Nat /\ field.digits \in Seq(Nat)

FirstOf(name, width) == SubSeq(name, 1, IF Len(name) < width THEN Len(name) ELSE width)

(* rfind('/', PrefixField): where the name would be split, 0 for nowhere.  *)
SplitAt(name) == SelectLastInSeq(FirstOf(name, PrefixField + 1), LAMBDA c : c = Slash)

Splits(name) == SplitAt(name) # 0 /\ Len(name) - SplitAt(name) <= NameField

(* A name ending in "Faulty" is a variant with a bug in it of the          *)
(* definition after it, for the properties to notice; nothing uses it.     *)
NeedsLongNameFaulty(name) == Len(name) > NameField + PrefixField

(* needs_long_name                                                         *)
NeedsLongName(name) == Len(name) > NameField /\ ~Splits(name)

(* make_header: a name that neither fits nor splits is cut short.          *)
Header(name, size, type) ==
    LET split == IF Len(name) > NameField /\ Splits(name) THEN SplitAt(name) ELSE 0
    IN  [type   |-> type,
         size   |-> SizeField(size),
         prefix |-> SubSeq(name, 1, split - 1),
         name   |-> FirstOf(SubSeq(name, split + 1, Len(name)), NameField)]

(* The name handle_header puts together again.                             *)
NameOf(h) == IF h.prefix = <<>> THEN h.name ELSE h.prefix \o <<Slash>> \o h.name

(* entry_stream_size                                                       *)
EntryStreamSize(name, size) ==
    TarBlock + size + Padded(size)
    + IF NeedsLongName(name) THEN TarBlock + Len(name) + 1 + Padded(Len(name) + 1) ELSE 0

(* The components of a stored path, without the empty ones and the "."     *)
(* that resolve_stored_path skips: read[i] are those before the i-th       *)
(* character and the part of the one it is in.                             *)
Kept(parts, part) == IF part \in {<<>>, <<Dot>>} THEN parts ELSE Append(parts, part)

Components(stored) ==
    LET read[i \in 0..Len(stored)] ==
          IF i = 0 THEN [parts |-> <<>>, part |-> <<>>]
          ELSE LET parts == read[i - 1].parts
                   part  == read[i - 1].part
               IN  IF stored[i] = Slash THEN [parts |-> Kept(parts, part), part |-> <<>>]
                   ELSE [parts |-> parts, part |-> Append(part, stored[i])]
        last == read[Len(stored)]
    IN  Kept(last.parts, last.part)

(* Stored paths resolve_stored_path refuses.                               *)
Unsafe(stored) ==
    \/ stored = <<>>
    \/ Head(stored) = Slash
    \/ Contains(Components(stored), <<Dot, Dot>>)

=============================================================================
