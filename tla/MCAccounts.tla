----------------------------- MODULE MCAccounts -----------------------------
(***************************************************************************)
(* An instance of Accounts for TLC: two clients register and log in.       *)
(***************************************************************************)
EXTENDS Accounts, TLC

CONSTANTS ann, Ann, tagAnn, long, long1, e1, E1, e2, p1, h1, h2, i1

MCStrip == [n \in Nick |-> IF n = tagAnn THEN ann ELSE n]

MCCut == [n \in Nick |-> IF n = long1 THEN long ELSE n]

MCFold == [n \in Nick |-> IF n = Ann THEN ann ELSE n]

MCFiled == [e \in Email |-> IF e = E1 THEN e1 ELSE e]

MCHash == (p1 :> h1) @@ (h1 :> h2)

asks(n, e, p) == [nick |-> n, email |-> e, password |-> p]

\* One nick in three spellings and one that is too long; some know the digest.
MCNewUserRequest ==
  {asks(ann, e1, p1), asks(tagAnn, e2, p1), asks(Ann, e2, h1), asks(long1, E1, h1)}

MCLoginRequest ==
  {[nick |-> tagAnn, password |-> p1, ip |-> i1], [nick |-> Ann, password |-> h1, ip |-> i1]}

Symmetry == Permutations(Thread)

\* Bounds: the players, the answers, and what is spoiled in a behaviour.
Few ==
  /\ Len(players) <= 2
  /\ Cardinality(told) + Cardinality(noted) <= 4

=============================================================================
