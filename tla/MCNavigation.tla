---------------------------- MODULE MCNavigation ----------------------------
(***************************************************************************)
(* Instance of Navigation for TLC.                                         *)
(***************************************************************************)
EXTENDS Navigation

WidthOf == [c \in Chars |-> CASE c = "local" -> 6 [] c = "wide" -> 4 [] c = "bom" -> 3
                              [] OTHER -> 1]
UnitsOf == [c \in Chars |-> CASE c = "local" -> 6 [] c = "wide" -> 2 [] OTHER -> 1]

MCTyped ==
  {<<"local", " ", "x">>, <<";", " ", "local", " ", "y">>, <<"$", "x">>, <<"y">>, <<"dq">>,
   <<"sq">>, <<"bs", "lf">>, <<"cr", "lf">>, <<"bs">>, <<"#">>, <<"{">>, <<"}">>,
   <<"{", "{", "{">>, <<"}", "}", "}">>, <<" ", "wide">>, <<"-">>, <<"bs", "#", "y", "cr", "lf">>}
MCNewNames == {<<"z">>, <<"$", "y", "z">>, <<"-">>}
=============================================================================
