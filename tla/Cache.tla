------------------------------- MODULE Cache -------------------------------
(***************************************************************************)
(* The whole cache as its clients see it: connections, each with a session *)
(* on one worker, send requests; the worker executes the command through   *)
(* the table of Commands on one of two databases, writes the reply and     *)
(* reads again.  Connections are lost at any time, and a lost client's     *)
(* request may or may not have been executed.                              *)
(*                                                                         *)
(* The databases are what HashTable and AvlTree are shown to implement     *)
(* (KeyValueStore); a request is read whole (CommandHandler); a client     *)
(* waits for its reply before it sends again; which worker a session is    *)
(* on, and the lifetime of its reply, are CommandServer's.                 *)
(***************************************************************************)
EXTENDS Commands

CONSTANTS Connections,
          NoConnection,
          ClientRequests, \* the requests clients send: a command name, arguments
          NoRequest

ASSUME CacheAssumption ==
    /\ NoConnection \notin Connections
    /\ NoRequest \notin ClientRequests
    /\ \A r \in ClientRequests : r \in Seq(STRING) /\ r # <<>>

VARIABLES hashStore, hashCall, hashReply, hashAborted,  \* m_dbHashTable
          treeStore, treeCall, treeReply, treeAborted,  \* m_dbAvlTree
          session,  \* the session each worker is executing a command of
          service,  \* the worker each connection's session is on
          op,       \* what the session waits for
          inbox,    \* the request in the session's socket
          client,   \* what the client waits for
          request,  \* the request it sent last
          answer    \* the reply in the client's socket

hashVars == <<hashStore, hashCall, hashReply, hashAborted>>
treeVars == <<treeStore, treeCall, treeReply, treeAborted>>
workerVars == <<pc, arguments, session, commandsVars>>
connectionVars == <<service, op, inbox, client, request, answer>>
vars == <<hashVars, treeVars, workerVars, connectionVars>>

Hash == INSTANCE KeyValueStore
           WITH store <- hashStore, call <- hashCall, reply <- hashReply, aborted <- hashAborted
Tree == INSTANCE KeyValueStore
           WITH store <- treeStore, call <- treeCall, reply <- treeReply, aborted <- treeAborted

Init ==
    /\ CommandsInit
    /\ Hash!Init
    /\ Tree!Init
    /\ session = [t \in Threads |-> NoConnection]
    /\ service \in [Connections -> Threads]
    /\ op = [c \in Connections |-> "closed"]
    /\ inbox = [c \in Connections |-> NoRequest]
    /\ client = [c \in Connections |-> "gone"]
    /\ request = [c \in Connections |-> NoRequest]
    /\ answer = [c \in Connections |-> NoReply]

----------------------------------------------------------------------------
(* Clients.                                                                *)

\* The connection is accepted, its session is given a worker and reads.
connect(c) ==
    /\ client[c] = "gone" /\ op[c] = "closed"
    /\ client' = [client EXCEPT ![c] = "ready"]
    /\ op' = [op EXCEPT ![c] = "read"]
    /\ \E t \in Threads : service' = [service EXCEPT ![c] = t]
    /\ UNCHANGED <<hashVars, treeVars, workerVars, inbox, request, answer>>

send(c) ==
    /\ client[c] = "ready"
    /\ client' = [client EXCEPT ![c] = "waiting"]
    /\ \E r \in ClientRequests :
          /\ request' = [request EXCEPT ![c] = r]
          /\ inbox' = [inbox EXCEPT ![c] = r]
    /\ UNCHANGED <<hashVars, treeVars, workerVars, service, op, answer>>

receive(c) ==
    /\ answer[c] # NoReply
    /\ client' = [client EXCEPT ![c] = "ready"]
    /\ answer' = [answer EXCEPT ![c] = NoReply]
    /\ request' = [request EXCEPT ![c] = NoRequest]
    /\ UNCHANGED <<hashVars, treeVars, workerVars, service, op, inbox>>

\* The client closes the connection, or the network loses it.
disconnect(c) ==
    /\ client[c] # "gone"
    /\ client' = [client EXCEPT ![c] = "gone"]
    /\ answer' = [answer EXCEPT ![c] = NoReply]
    /\ UNCHANGED <<hashVars, treeVars, workerVars, service, op, inbox, request>>

----------------------------------------------------------------------------
(* Sessions.                                                               *)

\* delete this
Delete(c) ==
    /\ client[c] = "gone"
    /\ op' = [op EXCEPT ![c] = "closed"]
    /\ inbox' = [inbox EXCEPT ![c] = NoRequest]
    /\ request' = [request EXCEPT ![c] = NoRequest]
    /\ UNCHANGED <<pc, arguments, session>>

\* Mutant: the session goes on reading while its command is executed.
handleReadMutantReadsOn(c) ==
    /\ op[c] = "read" /\ pc[service[c]] = "idle"
    /\ \/ Delete(c)
       \/ /\ inbox[c] # NoRequest
          /\ inbox' = [inbox EXCEPT ![c] = NoRequest]
          /\ arguments' = [arguments EXCEPT ![service[c]] = inbox[c]]
          /\ session' = [session EXCEPT ![service[c]] = c]
          /\ pc' = [pc EXCEPT ![service[c]] = "instance"]
          /\ UNCHANGED <<op, request>>
    /\ UNCHANGED <<hashVars, treeVars, commandsVars, service, client, answer>>

\* An error, or a command: feedAndParseCommand, up to TheCommands::instance().
\* Data that was sent before the connection was lost may still be read.
handleRead(c) ==
    /\ op[c] = "read" /\ pc[service[c]] = "idle"
    /\ \/ Delete(c)
       \/ /\ inbox[c] # NoRequest
          /\ inbox' = [inbox EXCEPT ![c] = NoRequest]
          /\ arguments' = [arguments EXCEPT ![service[c]] = inbox[c]]
          /\ session' = [session EXCEPT ![service[c]] = c]
          /\ pc' = [pc EXCEPT ![service[c]] = "instance"]
          /\ op' = [op EXCEPT ![c] = "execute"]
          /\ UNCHANGED request
    /\ UNCHANGED <<hashVars, treeVars, commandsVars, service, client, answer>>

\* Mutant: after a reply the session waits for another write, not for a read.
handleWriteMutantNoRead(c) ==
    /\ op[c] = "write" /\ pc[service[c]] = "idle"
    /\ Delete(c) \/ UNCHANGED <<op, pc, arguments, session, inbox, request>>
    /\ UNCHANGED <<hashVars, treeVars, commandsVars, service, client, answer>>

\* An error, or the reply is in the socket, also when the client is gone.
handleWrite(c) ==
    /\ op[c] = "write" /\ pc[service[c]] = "idle"
    /\ Delete(c) \/ (op' = [op EXCEPT ![c] = "read"] /\ UNCHANGED <<pc, arguments, session, inbox, request>>)
    /\ UNCHANGED <<hashVars, treeVars, commandsVars, service, client, answer>>

\* asyncWrite of the reply to the session whose command t executes; reset()
finishCallback(t, reply) ==
    LET c == session[t]
    IN  /\ answer' = IF client[c] = "gone" THEN answer ELSE [answer EXCEPT ![c] = reply]
        /\ op' = [op EXCEPT ![c] = "write"]
        /\ pc' = [pc EXCEPT ![t] = "idle"]
        /\ arguments' = [arguments EXCEPT ![t] = <<>>]
        /\ session' = [session EXCEPT ![t] = NoConnection]
        /\ UNCHANGED <<commandsVars, service, inbox, client, request>>

----------------------------------------------------------------------------
(* executeCommand on worker t.                                             *)

TheCommands(t) ==
    /\ instance(t) \/ addGenericCommands(t) \/ addDbCommands(t)
    /\ UNCHANGED <<hashVars, treeVars, session, connectionVars>>

\* A callback that uses no database.
genericCallback(t) ==
    /\ pc[t] = "find"
    /\ Callback(t).object \notin {"hash", "tree"}
    /\ finishCallback(t, GenericReply(t))
    /\ UNCHANGED <<hashVars, treeVars>>

\* The callback found is a method of the hash table: it is called, takes
\* effect (or kills the process), and returns.
hashCallback(t) ==
    \/ /\ Step(t, "find", "call")
       /\ Callback(t).object = "hash"
       /\ \E r \in DbCalls(t, Callback(t).method) : Hash!Invoke(t) /\ hashCall'[t] = r
       /\ UNCHANGED <<treeVars, arguments, session, commandsVars, connectionVars>>
    \/ /\ Hash!Get(t) \/ Hash!Set(t) \/ Hash!Del(t) \/ Hash!Foreach(t) \/ Hash!Abort(t)
       /\ UNCHANGED <<treeVars, workerVars, connectionVars>>
    \/ /\ Hash!Respond(t)
       /\ finishCallback(t, hashReply[t])
       /\ UNCHANGED treeVars

\* The same for a method of the AVL tree.
treeCallback(t) ==
    \/ /\ Step(t, "find", "call")
       /\ Callback(t).object = "tree"
       /\ \E r \in DbCalls(t, Callback(t).method) : Tree!Invoke(t) /\ treeCall'[t] = r
       /\ UNCHANGED <<hashVars, arguments, session, commandsVars, connectionVars>>
    \/ /\ Tree!Get(t) \/ Tree!Set(t) \/ Tree!Del(t) \/ Tree!Foreach(t) \/ Tree!Abort(t)
       /\ UNCHANGED <<hashVars, workerVars, connectionVars>>
    \/ /\ Tree!Respond(t)
       /\ finishCallback(t, treeReply[t])
       /\ UNCHANGED hashVars

executeCommand(t) ==
    TheCommands(t) \/ genericCallback(t) \/ hashCallback(t) \/ treeCallback(t)

----------------------------------------------------------------------------
Aborted == hashAborted \/ treeAborted

Next ==
    \/ /\ ~Aborted
       /\ \/ \E t \in Threads : executeCommand(t)
          \/ \E c \in Connections : handleRead(c) \/ handleWrite(c)
          \/ \E c \in Connections : connect(c) \/ send(c) \/ receive(c) \/ disconnect(c)
    \/ Aborted /\ UNCHANGED vars

Spec == Init /\ [][Next]_vars

\* Workers run, and an io_service takes its ready handlers in turn.  Nothing is
\* asked of the clients: they need not send, receive or stay.
Fairness ==
    /\ \A t \in Threads : WF_vars(~Aborted /\ executeCommand(t))
    /\ \A c \in Connections : SF_vars(~Aborted /\ handleRead(c)) /\ SF_vars(~Aborted /\ handleWrite(c))

FairSpec == Spec /\ Fairness

----------------------------------------------------------------------------
\* A worker that executes a command serves a session that is its own and waits
\* for nothing else, with the request the client of that session sent; no two
\* workers serve one session (session.cpp:50-61, commandhandler.cpp:177-196).
ServingInv ==
    /\ \A t \in Threads :
          IF pc[t] = "idle" THEN session[t] = NoConnection
          ELSE /\ session[t] \in Connections
               /\ service[session[t]] = t
               /\ op[session[t]] = "execute"
               /\ arguments[t] = request[session[t]]
    /\ \A c \in Connections : op[c] = "execute" => session[service[c]] = c

\* What a request asks of a database, as its documentation and the tests use it:
\* a name and exactly the arguments of that operation.
Meaning(r, get, set, del, foreach) ==
    CASE Len(r) = 2 /\ r[1] = get     -> [op |-> "get", key |-> r[2]]
      [] Len(r) = 3 /\ r[1] = set     -> [op |-> "set", key |-> r[2], value |-> r[3]]
      [] Len(r) = 2 /\ r[1] = del     -> [op |-> "del", key |-> r[2]]
      [] Len(r) = 2 /\ r[1] = foreach -> [op |-> "foreach", script |-> r[2]]
      [] OTHER -> NoCall
HashMeaning(r) == Meaning(r, "HGET", "HSET", "HDEL", "HFOR")
TreeMeaning(r) == Meaning(r, "ATGET", "ATSET", "ATDEL", "ATFOR")

\* The request of c is being executed by a callback, or its reply is on the way.
Calling(c) == op[c] = "execute" /\ pc[service[c]] = "call"
Underway(c) == Calling(c) \/ answer[c] # NoReply

HashCallOf(c) == IF Underway(c) THEN HashMeaning(request[c]) ELSE NoCall
TreeCallOf(c) == IF Underway(c) THEN TreeMeaning(request[c]) ELSE NoCall
ReplyOf(c, call, reply) ==
    IF call = NoCall THEN NoReply ELSE IF Calling(c) THEN reply[service[c]] ELSE answer[c]

HashCalls == [c \in Connections |-> HashCallOf(c)]
TreeCalls == [c \in Connections |-> TreeCallOf(c)]
HashReplies == [c \in Connections |-> ReplyOf(c, HashCallOf(c), hashReply)]
TreeReplies == [c \in Connections |-> ReplyOf(c, TreeCallOf(c), treeReply)]

HashClients == INSTANCE KeyValueStore
    WITH Threads <- Connections, store <- hashStore, aborted <- hashAborted,
         call <- HashCalls, reply <- HashReplies
TreeClients == INSTANCE KeyValueStore
    WITH Threads <- Connections, store <- treeStore, aborted <- treeAborted,
         call <- TreeCalls, reply <- TreeReplies

\* To its clients the server is a linearizable map under HGET, HSET, HDEL and
\* HFOR, and nothing else they send touches that map: every reply is the one of
\* the request its own connection sent, and a request takes effect at most once,
\* before its reply, also when the connection is lost (commands.cpp:63-70,
\* commandhandler.cpp:188-195).
HashService == HashClients!Spec

\* The same of ATGET, ATSET, ATDEL and ATFOR, independent of the other map.  The
\* tree is here the KeyValueStore that AvlTree implements while no two keys have
\* the same hash, so this too is said of distinct hashes only.
TreeService == TreeClients!Spec

\* The replies that use no database, from the first request on: the table is
\* found complete by every worker, whoever builds it ("TODO: thread-safity",
\* singleton.h:13), so no implemented command is ever answered "not implemented".
Names == {"COMMANDS", "PING", "VERSION", "HGET", "HSET", "HDEL", "HFOR",
          "ATGET", "ATSET", "ATDEL", "ATFOR"}
GenericAnswers ==
    \A c \in Connections : answer[c] # NoReply =>
       LET r == request[c]
       IN  /\ answer[c] = REPLY_NOT_IMPLEMENTED <=> r[1] \notin Names
           /\ answer[c] = REPLY_PONG <=> r = <<"PING">>
           /\ r[1] = "VERSION" => answer[c] = versionString(r = <<"VERSION", "VERBOSE">>)
           /\ r = <<"COMMANDS">> => answer[c] = <<"list", Names>>

\* A request is answered unless its connection is lost or the process dies: no
\* worker waits for ever for the table, and a session that has written a reply
\* reads the next request (session.cpp:63-72).
EveryRequestAnswered ==
    \A c \in Connections :
       client[c] = "waiting" ~> (answer[c] # NoReply \/ client[c] = "gone" \/ Aborted)

----------------------------------------------------------------------------
(* The inductive invariant.                                                *)

TypeOK ==
    /\ pc \in [Threads -> {"idle", "instance", "addGeneric", "addDb", "find", "call"}]
    /\ arguments \in [Threads -> ClientRequests \cup {<<>>}]
    /\ session \in [Threads -> Connections \cup {NoConnection}]
    /\ service \in [Connections -> Threads]
    /\ op \in [Connections -> {"closed", "read", "execute", "write"}]
    /\ inbox \in [Connections -> ClientRequests \cup {NoRequest}]
    /\ client \in [Connections -> {"gone", "ready", "waiting"}]
    /\ request \in [Connections -> ClientRequests \cup {NoRequest}]
    /\ answer = [c \in Connections |-> answer[c]]
    /\ hashCall \in [Threads -> Requests \cup {NoCall}]
    /\ treeCall \in [Threads -> Requests \cup {NoCall}]
    /\ hashReply \in [Threads -> Replies \cup {NoReply}]
    /\ treeReply \in [Threads -> Replies \cup {NoReply}]
    /\ hashStore \in [Keys -> Values \cup {NotFound}]
    /\ treeStore \in [Keys -> Values \cup {NotFound}]

\* One worker builds the table, the others find it whole or wait.
TableInv ==
    /\ \A t \in Threads : pc[t] \in {"addGeneric", "addDb"} <=> builder = t /\ ~built
    /\ builder = NoThread => ~built /\ m_commands = <<>>
    /\ \A t \in Threads : /\ pc[t] = "addGeneric" => m_commands = <<>>
                          /\ pc[t] = "addDb" => m_commands = Add(GenericCommands, <<>>)
                          /\ pc[t] \in {"find", "call"} => built
    /\ built => m_commands = Add(DbCommands, Add(GenericCommands, <<>>))

\* A worker is in the call its session's request means, on the database it means.
CallsInv ==
    \A t \in Threads :
       /\ hashCall[t] = IF pc[t] = "call" THEN HashMeaning(arguments[t]) ELSE NoCall
       /\ treeCall[t] = IF pc[t] = "call" THEN TreeMeaning(arguments[t]) ELSE NoCall
       /\ hashCall[t] = NoCall => hashReply[t] = NoReply
       /\ treeCall[t] = NoCall => treeReply[t] = NoReply

\* A request is in the session's socket, or with a worker, or answered.
ConnectionInv ==
    \A c \in Connections :
       /\ op[c] = "closed" => client[c] = "gone" /\ inbox[c] = NoRequest
       /\ client[c] = "ready" => inbox[c] = NoRequest /\ op[c] # "execute"
       /\ answer[c] # NoReply =>
             client[c] = "waiting" /\ op[c] # "execute" /\ inbox[c] = NoRequest /\ request[c] # NoRequest
       /\ inbox[c] # NoRequest => inbox[c] = request[c] /\ op[c] # "execute"
       /\ op[c] = "execute" => request[c] # NoRequest

\* What a request that is not for a database is answered.
GenericAnswer(r) ==
    CASE r[1] \notin Names    -> REPLY_NOT_IMPLEMENTED
      [] r[1] = "VERSION"     -> versionString(r = <<"VERSION", "VERBOSE">>)
      [] r = <<"PING">>       -> REPLY_PONG
      [] r = <<"COMMANDS">>   -> <<"list", Names>>
      [] OTHER                -> REPLY_MALFORMED
AnswerInv ==
    \A c \in Connections : answer[c] # NoReply =>
       IF HashMeaning(request[c]) # NoCall \/ TreeMeaning(request[c]) # NoCall
       THEN answer[c] \in Replies
       ELSE answer[c] = GenericAnswer(request[c])

IInv == TypeOK /\ TableInv /\ CallsInv /\ ServingInv /\ ConnectionInv /\ AnswerInv

============================================================================
