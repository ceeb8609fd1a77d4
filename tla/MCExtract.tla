----------------------------- MODULE MCExtract -----------------------------
(* Extract with two directories, one file in each, a link to the second     *)
(* one by its path from the root, and a link to the first from wherever it  *)
(* is, so that the links may also lead in circles.                          *)
EXTENDS Extract

MCPaths == {<<"a">>, <<"b">>, <<"a", "x">>, <<"b", "x">>}
MCTarget == [tob |-> [abs |-> TRUE, parts |-> <<"b">>],
             toa |-> [abs |-> FALSE, parts |-> <<"..", "a">>]]
MCFiles == <<"one", "two", "three">>
=============================================================================
