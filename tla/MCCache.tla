------------------------------ MODULE MCCache ------------------------------
(* Two arguments: "a" is also a script that compiles, "b" one that does    *)
(* not.  The script turns the value "a" into "b", and on "b" it throws or  *)
(* its result has no string form.                                          *)
EXTENDS Cache

Replaces(script, key, value) == IF value = "a" THEN {"b"} ELSE {Throw, Crash}

\* All that can be asked of both maps, and a request with too few arguments.
DbRequests ==
    {<<"HGET", "a">>, <<"HSET", "a", "a">>, <<"HDEL", "a">>, <<"HFOR", "a">>,
     <<"ATGET", "a">>, <<"ATSET", "a", "a">>, <<"ATDEL", "a">>, <<"ATFOR", "a">>, <<"ATSET", "a">>}

\* The generic commands, a malformed one, and one that does not exist (the
\* example of documentation/protocol.md).
GenericRequests ==
    {<<"COMMANDS">>, <<"PING">>, <<"VERSION", "VERBOSE">>, <<"HGET", "a">>, <<"HSET", "a">>,
     <<"SET", "a", "a">>}

Symmetry == Permutations(Threads) \cup Permutations(Connections)

============================================================================
