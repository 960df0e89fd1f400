----------------------------- MODULE MCAvlTree -----------------------------
(* A small tree: three keys, the empty value and one more, and the scripts   *)
(* that tell the outcomes of a foreach apart.                              *)
EXTENDS AvlTree

CONSTANTS k1, k2, k3, empty, v1, broken, toggle, failing, fatal, dying

MCKeys == {k1, k2, k3}
MCValues == {empty, v1}
MCLoadable == {toggle, failing, fatal}
MCFatal == {dying}
MCScripts == MCLoadable \cup {broken, dying}

\* toggle turns each value into the other one; failing does so for k1 and k3 and
\* throws for k2; fatal returns something with no string form for v1.
MCJsResult(s, k, v) ==
    LET other == IF v = v1 THEN empty ELSE v1
    IN  CASE s = toggle  -> {other}
          [] s = failing -> IF k = k2 THEN {Throw} ELSE {other}
          [] s = fatal   -> IF v = v1 THEN {Crash} ELSE {v}
          [] OTHER       -> {}

InjectiveHash == k1 :> 1 @@ k2 :> 2 @@ k3 :> 3
CollidingHash == k1 :> 1 @@ k2 :> 1 @@ k3 :> 3

Symmetry == Permutations(Threads) \cup Permutations(NodeIds)
============================================================================
