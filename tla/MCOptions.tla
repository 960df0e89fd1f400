----------------------------- MODULE MCOptions -----------------------------
(* Command lines and config files of up to two options, in both orders and *)
(* with repetitions; ports at the edges of a short.                        *)
EXTENDS Options

Vs == [verbose |-> 1, vv |-> 2, vvv |-> 3, vvvvvvv |-> 7]

Flag(n) == [name |-> n, value |-> ""]
Option(n, v) == [name |-> n, value |-> v]

Given == {Option("port", 8080), Option("port", 32767), Option("port", 32768),
          Option("port", 65537), Option("port", NotANumber), Option("workers", 4),
          Option("workers", 0), Option("workers", -1), Option("config", "/my"),
          Option("config", ""), Option("logFile", "log"), Flag("help"), Flag("fork"), Flag("verbose"), Flag("vvv"),
          Flag("vvvvvvv"), Flag("unknown")}
Lines == {[name |-> o.name, value |-> o.value, long |-> FALSE] :
             o \in {Option("port", 7070), Option("port", NotANumber), Option("workers", 3),
                    Option("config", "/other"), Flag("vv"), Flag("verbose"), Flag("version"),
                    Flag("unknown")}}
      \cup {[name |-> Comment, value |-> "", long |-> TRUE],
            [name |-> "logFile", value |-> "the head of a long path", long |-> TRUE]}

UpTo(S, n) == UNION {[1..k -> S] : k \in 0..n}

SomeCommandLines == UpTo(Given, 2)
SomeConfigFiles == {Unreadable} \cup UpTo(Lines, 2)

============================================================================
