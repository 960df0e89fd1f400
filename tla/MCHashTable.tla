---------------------------- MODULE MCHashTable ----------------------------
(* A small table: two keys, the empty value and one more, and the scripts  *)
(* that tell the outcomes of a foreach apart.                              *)
EXTENDS HashTable, TLC

CONSTANTS k1, k2, empty, v1, broken, toggle, failing, fatal, dying

MCKeys == {k1, k2}
MCValues == {empty, v1}
MCLoadable == {toggle, failing, fatal}
OneKey == {k1}
OneValue == {empty}
MCFatal == {dying}
MCScripts == MCLoadable \cup {broken, dying}

\* toggle turns each value into the other one; failing does so for k1 and
\* throws for k2; fatal returns something with no string form for v1.
MCJsResult(s, k, v) ==
    LET other == IF v = v1 THEN empty ELSE v1
    IN  CASE s = toggle  -> {other}
          [] s = failing -> IF k = k2 THEN {Throw} ELSE {other}
          [] s = fatal   -> IF v = v1 THEN {Crash} ELSE {v}
          [] OTHER       -> {}
============================================================================
