----------------------------- MODULE MCDocSync -----------------------------
(* Constants for model checking DocSync: a letter, a character of two code  *)
(* units and four bytes, the line end CR LF, and the BOM.                   *)
EXTENDS DocSync, TLC

WidthOf == [a |-> 1, emoji |-> 4, lf |-> 1, cr |-> 1, bom |-> 3]
UnitsOf == [a |-> 1, emoji |-> 2, lf |-> 1, cr |-> 1, bom |-> 1]

Opened == {<<>>, <<"a", "cr", "lf">>, <<"emoji", "a", "a">>}
Inserted == {<<>>, <<"emoji">>, <<"cr", "lf">>}

OpenedWithBom == {<<"bom", "a">>}
Letter == {<<>>, <<"a">>}

UriSymmetry == Permutations(Uris)
=============================================================================
