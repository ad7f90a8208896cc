----------------------------- MODULE MCPromptClaim -----------------------------
(* A small instance of PromptClaim for TLC: two tabs, one reconnects.       *)
EXTENDS PromptClaim, TLC

CONSTANTS left, right, l1, l2, r1
TwoTabs == {left, right}
Sockets == {l1, l2, r1}
Owners == l1 :> left @@ l2 :> left @@ r1 :> right

\* The sockets of the left tab are interchangeable.
SameOwner == Permutations({l1, l2})
=============================================================================
