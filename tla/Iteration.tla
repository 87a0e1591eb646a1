----------------------------- MODULE Iteration ------------------------------
(***************************************************************************)
(* Two loops the program is full of.  One follows links, bounded by the    *)
(* number of nodes: from a node to its parent, to the parent of that one,  *)
(* and so on.  The other goes through a list and appends what passes a     *)
(* test to another one; it is SelectSeq, with a set for the test, and as a *)
(* function of the position, of which facts can be proved.                 *)
(***************************************************************************)
EXTENDS Integers, Sequences

(* Where m links lead from x, one link of y leading to link[y].            *)
Iterate(link, x, m) ==
  LET at[k \in 0 .. m] == IF k = 0 THEN x ELSE link[at[k - 1]]
  IN  at[m]

(* What s has of S, in the order of s.                                     *)
Filter(s, S) ==
  LET upTo[n \in 0 .. Len(s)] ==
        IF n = 0 THEN <<>>
        ELSE IF s[n] \in S THEN Append(upTo[n - 1], s[n]) ELSE upTo[n - 1]
  IN  upTo[Len(s)]
=============================================================================
