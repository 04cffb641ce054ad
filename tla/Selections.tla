----------------------------- MODULE Selections -----------------------------
(***************************************************************************)
(* What a loop over a list makes that appends the elements it wants: the   *)
(* list comprehensions with a condition and the for statements with an     *)
(* append of the source.  T holds the places that are wanted.              *)
(***************************************************************************)
EXTENDS Integers, Sequences, FiniteSets

Selected(s, T) ==
  LET upTo[n \in 0 .. Len(s)] ==
        IF n = 0 THEN << >>
        ELSE IF n \in T THEN Append(upTo[n - 1], s[n]) ELSE upTo[n - 1]
  IN  upTo[Len(s)]
=============================================================================
