--------------------------- MODULE MCConstLiteral ---------------------------
(***************************************************************************)
(* Literals of up to three digits and integers around the limits of int.   *)
(***************************************************************************)
EXTENDS ConstLiteral

MCIntBits == 4
MCLongBits == 7
MCSizes == {Unsized, 1, 3, 6}

\* Some digits of every base; 9 and 15 are too large for some of them.
MCDigits(b) == CASE b = 2  -> {0, 1, X, Z}
                 [] b = 8  -> {0, 5, 9, X, Z}
                 [] b = 10 -> {0, 1, 4, 7, 9, X}
                 [] b = 16 -> {0, 6, 15, X, Z}

MCStrings(b) == UNION {[1 .. len -> MCDigits(b)] : len \in 1 .. 3}

MCLiterals ==
    UNION {[format : {"string"}, base : {b}, digits : MCStrings(b), size : MCSizes,
            signed : {b = 16}, unbased : {FALSE},
            case : IF b = 10 THEN {"exact"} ELSE {"exact", "casex", "casez"}] :
           b \in {2, 8, 10, 16}}
    \cup [format : {"string"}, base : {2}, digits : {<<d>> : d \in MCDigits(2)}, size : {Unsized},
          signed : {FALSE}, unbased : {TRUE}, case : {"exact", "casex"}]

MCNumbers ==
    [format : {"int"}, value : -20 .. 63, size : {Unsized, 3, 6, MCLongBits}, signed : BOOLEAN]
    \cup [format : {"uint"}, value : 0 .. 127, size : {Unsized, MCLongBits}, signed : {FALSE}]
=============================================================================
