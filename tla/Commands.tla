------------------------------ MODULE Commands ------------------------------
(***************************************************************************)
(* Commands: the table of all commands, built by the first worker that     *)
(* executes one (Singleton::instance, a function-local static), and what   *)
(* find() makes of a request: a callback on one of the two databases, a    *)
(* generic one, or an error.  A worker's pc while it executes a command:   *)
(*                                                                         *)
(*   idle -> instance -> [addGeneric -> addDb ->] find -> [call ->] idle   *)
(***************************************************************************)
EXTENDS DbTypes, Integers, Sequences, TLC

CONSTANTS Threads,
          NoThread,
          Strings   \* arguments: each of them may be a key, a value or a script

ASSUME CommandsAssumption ==
    /\ NoThread \notin Threads
    /\ Keys = Strings /\ Values = Strings /\ Scripts = Strings

VARIABLES pc,         \* where each worker is in executeCommand
          arguments,  \* m_commandArguments of the session it serves
          m_commands,
          builder,    \* the worker that runs the constructor, or has run it
          built       \* the guard of the static: the constructor has returned

commandsVars == <<m_commands, builder, built>>

\* CallbackInfo: the object and method bound, and the number of arguments
ADD_COMMAND(object, method, argsNum) ==
    [object |-> object, method |-> method, numberOfArguments |-> argsNum]

GenericCommands ==
    [COMMANDS |-> ADD_COMMAND("commands", "commandsList", 0),
     PING     |-> ADD_COMMAND("commands", "pingPong", 0),
     VERSION  |-> ADD_COMMAND("commands", "version", -1)]

\* Mutant: a line copied from the hash table's and not changed.
DbCommandsMutantCopied ==
    [HGET  |-> ADD_COMMAND("hash", "get", 1),
     HSET  |-> ADD_COMMAND("hash", "set", 2),
     HDEL  |-> ADD_COMMAND("hash", "del", 1),
     HFOR  |-> ADD_COMMAND("hash", "foreach", 1),
     ATGET |-> ADD_COMMAND("tree", "get", 1),
     ATSET |-> ADD_COMMAND("tree", "set", 2),
     ATDEL |-> ADD_COMMAND("hash", "del", 1),
     ATFOR |-> ADD_COMMAND("tree", "foreach", 1)]

DbCommands ==
    [HGET  |-> ADD_COMMAND("hash", "get", 1),
     HSET  |-> ADD_COMMAND("hash", "set", 2),
     HDEL  |-> ADD_COMMAND("hash", "del", 1),
     HFOR  |-> ADD_COMMAND("hash", "foreach", 1),
     ATGET |-> ADD_COMMAND("tree", "get", 1),
     ATSET |-> ADD_COMMAND("tree", "set", 2),
     ATDEL |-> ADD_COMMAND("tree", "del", 1),
     ATFOR |-> ADD_COMMAND("tree", "foreach", 1)]

\* m_commands[name] = ... for each of the commands
Add(commands, table) ==
    [name \in DOMAIN table \cup DOMAIN commands |->
        IF name \in DOMAIN commands THEN commands[name] ELSE table[name]]

CommandsInit ==
    /\ pc = [t \in Threads |-> "idle"]
    /\ arguments = [t \in Threads |-> <<>>]
    /\ m_commands = <<>>
    /\ builder = NoThread
    /\ built = FALSE

Step(t, from, to) == pc[t] = from /\ pc' = [pc EXCEPT ![t] = to]

----------------------------------------------------------------------------
(* TheCommands::instance().                                                *)

\* Mutant: the static without its guard, as before C++11: whoever comes while
\* the constructor runs uses the object as it is.
instanceMutantUnguarded(t) ==
    /\ \/ /\ builder = NoThread
          /\ builder' = t
          /\ Step(t, "instance", "addGeneric")
       \/ /\ builder # NoThread
          /\ Step(t, "instance", "find")
          /\ UNCHANGED builder
    /\ UNCHANGED <<arguments, m_commands, built>>

\* The first worker to come runs the constructor; the others wait for it.
instance(t) ==
    /\ \/ /\ builder = NoThread
          /\ builder' = t
          /\ Step(t, "instance", "addGeneric")
       \/ /\ built
          /\ Step(t, "instance", "find")
          /\ UNCHANGED builder
    /\ UNCHANGED <<arguments, m_commands, built>>

addGenericCommands(t) ==
    /\ Step(t, "addGeneric", "addDb")
    /\ m_commands' = Add(GenericCommands, m_commands)
    /\ UNCHANGED <<arguments, builder, built>>

\* addDbCommands, and the constructor returns
addDbCommands(t) ==
    /\ Step(t, "addDb", "find")
    /\ m_commands' = Add(DbCommands, m_commands)
    /\ built' = TRUE
    /\ UNCHANGED <<arguments, builder>>

----------------------------------------------------------------------------
(* find(), and the callbacks that are not a database's.                    *)

NotImplementedYet == ADD_COMMAND("static", "notImplementedYetCallback", -1)
MalformedArguments == ADD_COMMAND("static", "malformedArgumentsCallback", -1)

\* Mutant: only extra arguments are refused, missing ones are not.
findMutantExtraOnly(commandName, numberOfArguments) ==
    IF commandName \notin DOMAIN m_commands THEN NotImplementedYet
    ELSE LET expectedArguments == m_commands[commandName].numberOfArguments
         IN  IF expectedArguments >= 0 /\ expectedArguments < numberOfArguments
             THEN MalformedArguments
             ELSE m_commands[commandName]

find(commandName, numberOfArguments) ==
    IF commandName \notin DOMAIN m_commands THEN NotImplementedYet
    ELSE LET expectedArguments == m_commands[commandName].numberOfArguments
         IN  IF expectedArguments >= 0 /\ expectedArguments # numberOfArguments
             THEN MalformedArguments
             ELSE m_commands[commandName]

\* What find() returns for the command that t executes.
Callback(t) == find(arguments[t][1], Len(arguments[t]) - 1)

\* arguments[i] of the callback; behind the end of the vector, anything
Argument(t, i) == IF i < Len(arguments[t]) THEN {arguments[t][i + 1]} ELSE Strings

\* The calls of a database method that the arguments may give.
DbCalls(t, method) ==
    CASE method \in {"get", "del"} -> {[op |-> method, key |-> k] : k \in Argument(t, 1)}
      [] method = "set"     -> {[op |-> "set", key |-> k, value |-> v] :
                                   k \in Argument(t, 1), v \in Argument(t, 2)}
      [] method = "foreach" -> {[op |-> "foreach", script |-> s] : s \in Argument(t, 1)}

REPLY_NOT_IMPLEMENTED == <<"not implemented">>
REPLY_MALFORMED == <<"malformed number of arguments">>
REPLY_PONG == <<"PONG">>

versionString(verbose) == <<"version", verbose>>

\* The reply of a callback that uses no database.
GenericReply(t) ==
    CASE Callback(t) = NotImplementedYet  -> REPLY_NOT_IMPLEMENTED
      [] Callback(t) = MalformedArguments -> REPLY_MALFORMED
      [] Callback(t).method = "commandsList" -> <<"list", DOMAIN m_commands>>
      [] Callback(t).method = "pingPong"  -> REPLY_PONG
      [] Callback(t).method = "version"   ->
            versionString(Len(arguments[t]) = 2 /\ arguments[t][2] = "VERBOSE")

============================================================================
