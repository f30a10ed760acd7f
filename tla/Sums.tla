--------------------------------- MODULE Sums ---------------------------------
(* Sums of whole numbers over a finite set, and over places of a sequence. *)
EXTENDS Integers, Functions

SumOver(S, f) == FoldFunctionOnSet(LAMBDA x, y : x + y, 0, f, S)

\* Of those elements of s that are at the places I.
AddUp(s, I, Of(_)) == SumOver(I, [i \in DOMAIN s |-> Of(s[i])])
===============================================================================
