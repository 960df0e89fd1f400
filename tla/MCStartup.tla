----------------------------- MODULE MCStartup -----------------------------
(* Servers of two users: each may remove the files of its own.             *)
EXTENDS Startup, TLC

CONSTANTS s1, s2, s3, s4

\* One port; s1 on a host of its own, the others on all.
SamePort == [s \in Servers |-> "9876"]
SomeHosts == [s \in Servers |-> IF s = s1 THEN "127.0.0.1" ELSE AnyHost]
OwnFiles == [s \in Servers |-> IF s \in {s1, s2} THEN {s1, s2} ELSE {s3, s4}]

ASSUME MCStartupAssumption == OneEndpoint

Symmetry == Permutations({s3, s4})

============================================================================
