----------------------------- MODULE MCTarArchive -----------------------------
(* Trees and streams for TarArchive: blocks of two units, name fields of   *)
(* three and prefix fields of four characters, so that short names reach   *)
(* every way of storing a name; one octal digit, so that a file of eight   *)
(* units needs the other size format.                                      *)
EXTENDS TarArchive

a == 97
b == 98

Folder(path) == [path |-> path, directory |-> TRUE, content |-> <<>>]
Plain(path, content) == [path |-> path, directory |-> FALSE, content |-> content]

x == Datum(120)
y == Datum(121)

(* An empty directory; names that fit, that split and that are too long,   *)
(* a file of zeros only and one whose size is a multiple of the block; a   *)
(* directory whose name splits at its last slash; a large file.            *)
MCTrees ==
    {{Folder(<<a, Slash>>)},
     {Folder(<<a, Slash>>), Plain(<<a, Slash, b>>, <<x, Zero>>),
      Plain(<<a, Slash, a, b, a>>, <<y>>)},
     {Folder(<<a, Slash>>), Plain(<<a, Slash, a, b, a, b>>, <<Zero, Zero, x>>),
      Plain(<<a, Slash, a, b>>, <<>>)},
     {Folder(<<a, b, a, Slash>>), Folder(<<a, b, a, Slash, b, a, b, a, Slash>>)},
     {Folder(<<a, Slash>>), Plain(<<a, Slash, b>>, <<x, x, x, x, x, x, x, y>>)}}

Name(path)  == Block(Header(path, 0, "5"))
End         == Zeros(2 * TarBlock)
Long(path)  == Block(Header(<<>>, Len(path), "L")) \o Data(path) \o Zeros(Padded(Len(path)))

Sized(base, digits) ==
    Block([Header(<<a>>, 0, "0") EXCEPT !.size = [base |-> base, digits |-> digits]])

(* Cut short, continued, resumed, or with entries no encoder writes.       *)
MCForeignStreams ==
    {Name(<<a>>) \o End,
     Name(<<a>>) \o End \o <<Zero>>,
     Name(<<a>>) \o Zeros(TarBlock),
     Name(<<a>>) \o Zeros(TarBlock + 1),
     Name(<<a>>) \o Zeros(TarBlock) \o Name(<<b>>) \o End,
     Name(<<a>>) \o <<x>> \o End,
     Long(<<a, b>>) \o End,
     Long(<<a, b>>) \o Long(<<a>>) \o Name(<<a>>) \o End,
     Long(<<a, Slash, b>>) \o Name(<<b>>) \o End,
     Long(<<>>) \o Name(<<a>>) \o End,
     Block(Header(<<>>, 1, "L")) \o Zeros(2) \o Name(<<a>>) \o End,
     Block(Header(<<>>, 3, "L")) \o <<x, Zero, y, Zero>> \o Name(<<a>>) \o End,
     Name(<<a, Slash, Dot, Dot>>) \o End,
     Name(<<Slash, a>>) \o End,
     Block(Header(<<a>>, 1, "5")) \o <<x, Zero>> \o End,
     Block(Header(<<a>>, 1, "2")) \o <<x, Zero>> \o End,
     Sized(8, <<9>>) \o <<x, y>> \o End,
     Sized(256, <<SizeLimit>>) \o <<x, y>> \o End,
     Block(Header(<<a>>, 3, "0")) \o <<x, y>>,
     Block(Header(<<a>>, 3, "0")) \o <<x, y, x>>,
     Block(Header(<<a>>, 2, "0")) \o <<x, y>> \o Block(Header(<<a>>, 1, "nul")) \o <<y, Zero>> \o End}

=============================================================================
