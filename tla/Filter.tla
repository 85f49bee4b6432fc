------------------------------- MODULE Filter -------------------------------
(***************************************************************************)
(* The elements of a sequence that are in a set, in their order: what the  *)
(* loops of the code that copy a list without some of its elements return. *)
(* It is Sequences' SelectSeq for a set, as a recursive function on the    *)
(* prefixes, which is the form a proof can unfold.                         *)
(***************************************************************************)
EXTENDS Integers, Sequences

Filtered(s, T) ==
  LET f[n \in 0..Len(s)] ==
        IF n = 0 THEN <<>>
        ELSE IF s[n] \in T THEN Append(f[n - 1], s[n]) ELSE f[n - 1]
  IN  f

Kept(s, T) == Filtered(s, T)[Len(s)]
=============================================================================
