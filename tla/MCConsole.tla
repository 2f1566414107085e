----------------------------- MODULE MCConsole -----------------------------
(* A small instance of Console for TLC: two commands that start alike, one *)
(* that does not, and their abbreviations.                                  *)
EXTENDS Console

MCNames == {<<"1", "a">>, <<"a", "a">>, <<"a", "1">>}
MCQuitLine == <<"1", "1">>
MCNumber(text) ==
    CASE text = <<>> \/ Head(text) # "1" -> 0
      [] Len(text) > 1 /\ text[2] = "1" -> 11
      [] OTHER -> 1
=============================================================================
