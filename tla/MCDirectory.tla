----------------------------- MODULE MCDirectory -----------------------------
(***************************************************************************)
(* A small instance of Directory: paths that go down, up, up and down,     *)
(* down and up, and nowhere, with and without a "/" at either end.         *)
(***************************************************************************)
EXTENDS Directory

MCName == {"a", "b"}

MCArg == {<<"a">>, <<"b">>, <<"..">>, <<".">>, <<"a", "">>, <<"..", "a">>,
          <<"a", "..">>, <<"", "a">>}

SessionSymmetry == Permutations(Session)
===============================================================================
