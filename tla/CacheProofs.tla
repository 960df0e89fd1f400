---------------------------- MODULE CacheProofs ----------------------------
(***************************************************************************)
(* For any workers, connections, requests, keys, values and scripts: a     *)
(* worker serves one session and executes what its client sent; and to its *)
(* clients the server is two linearizable maps, and answers every other    *)
(* request as documented.                                                  *)
(***************************************************************************)
EXTENDS Cache, TLAPS

(* What a request means: the table of commands and find().                 *)

\* The callback of a command in the table, and the number of its arguments.
Binds(name, object, method, argsNum) ==
    /\ m_commands[name].object = object
    /\ m_commands[name].method = method
    /\ m_commands[name].numberOfArguments = argsNum

\* The table the constructor of Commands leaves (commands.cpp:43-71).
LEMMA FullTable ==
    ASSUME m_commands = Add(DbCommands, Add(GenericCommands, <<>>))
    PROVE  /\ DOMAIN m_commands = Names
           /\ Binds("COMMANDS", "commands", "commandsList", 0)
           /\ Binds("PING", "commands", "pingPong", 0)
           /\ Binds("VERSION", "commands", "version", -1)
           /\ Binds("HGET", "hash", "get", 1)
           /\ Binds("HSET", "hash", "set", 2)
           /\ Binds("HDEL", "hash", "del", 1)
           /\ Binds("HFOR", "hash", "foreach", 1)
           /\ Binds("ATGET", "tree", "get", 1)
           /\ Binds("ATSET", "tree", "set", 2)
           /\ Binds("ATDEL", "tree", "del", 1)
           /\ Binds("ATFOR", "tree", "foreach", 1)
  <1> DEFINE generic == Add(GenericCommands, <<>>)
  <1>1. DOMAIN DbCommands = {"HGET", "HSET", "HDEL", "HFOR", "ATGET", "ATSET", "ATDEL", "ATFOR"}
    BY DEF DbCommands
  <1>2. DOMAIN GenericCommands = {"COMMANDS", "PING", "VERSION"}
    BY DEF GenericCommands
  <1>3. /\ DOMAIN generic = {"COMMANDS", "PING", "VERSION"}
        /\ \A name \in DOMAIN GenericCommands : generic[name] = GenericCommands[name]
    BY <1>2 DEF Add
  <1> HIDE DEF generic
  <1>4. DOMAIN m_commands = Names
    BY <1>1, <1>3 DEF Add, generic, Names
  <1>5. \A name \in DOMAIN DbCommands : m_commands[name] = DbCommands[name]
    BY <1>1 DEF Add
  <1>6. \A name \in DOMAIN GenericCommands : m_commands[name] = GenericCommands[name]
    <2>1. ASSUME NEW name \in DOMAIN GenericCommands PROVE m_commands[name] = generic[name]
      BY <1>1, <1>2, <1>3, <2>1 DEF Add, generic
    <2> QED
      BY <1>3, <2>1
  <1>7. /\ Binds("COMMANDS", "commands", "commandsList", 0)
        /\ Binds("PING", "commands", "pingPong", 0)
        /\ Binds("VERSION", "commands", "version", -1)
    BY <1>2, <1>6 DEF GenericCommands, ADD_COMMAND, Binds
  <1>8. /\ Binds("HGET", "hash", "get", 1)
        /\ Binds("HSET", "hash", "set", 2)
        /\ Binds("HDEL", "hash", "del", 1)
        /\ Binds("HFOR", "hash", "foreach", 1)
    BY <1>1, <1>5 DEF DbCommands, ADD_COMMAND, Binds
  <1>9. /\ Binds("ATGET", "tree", "get", 1)
        /\ Binds("ATSET", "tree", "set", 2)
        /\ Binds("ATDEL", "tree", "del", 1)
        /\ Binds("ATFOR", "tree", "foreach", 1)
    BY <1>1, <1>5 DEF DbCommands, ADD_COMMAND, Binds
  <1> QED
    BY <1>4, <1>7, <1>8, <1>9

\* A request is for at most one of the databases.
LEMMA OneMeaning ==
    ASSUME NEW r \in ClientRequests
    PROVE  /\ r \in Seq(STRING) /\ Len(r) \in Nat \ {0} /\ r[1] \in STRING
           /\ HashMeaning(r) = NoCall \/ TreeMeaning(r) = NoCall
           /\ HashMeaning(r) # NoCall =>
                 r[1] \in {"HGET", "HSET", "HDEL", "HFOR"} /\ HashMeaning(r).op \in {"get", "set", "del", "foreach"}
           /\ TreeMeaning(r) # NoCall =>
                 r[1] \in {"ATGET", "ATSET", "ATDEL", "ATFOR"} /\ TreeMeaning(r).op \in {"get", "set", "del", "foreach"}
  <1>1. r \in Seq(STRING) /\ Len(r) \in Nat \ {0} /\ r[1] \in STRING
    BY CacheAssumption
  <1>2. HashMeaning(r) # NoCall =>
           r[1] \in {"HGET", "HSET", "HDEL", "HFOR"} /\ HashMeaning(r).op \in {"get", "set", "del", "foreach"}
    BY <1>1 DEF HashMeaning, Meaning
  <1>3. TreeMeaning(r) # NoCall =>
           r[1] \in {"ATGET", "ATSET", "ATDEL", "ATFOR"} /\ TreeMeaning(r).op \in {"get", "set", "del", "foreach"}
    BY <1>1 DEF TreeMeaning, Meaning
  <1> QED
    BY <1>1, <1>2, <1>3

\* find() gives a request the callback it means, once the table is whole.
LEMMA Finds ==
    ASSUME NEW t \in Threads, arguments[t] \in ClientRequests,
           m_commands = Add(DbCommands, Add(GenericCommands, <<>>))
    PROVE  LET r == arguments[t]
           IN  /\ Callback(t).object = "hash" =>
                     DbCalls(t, Callback(t).method) = {HashMeaning(r)} /\ HashMeaning(r) # NoCall
               /\ Callback(t).object = "tree" =>
                     DbCalls(t, Callback(t).method) = {TreeMeaning(r)} /\ TreeMeaning(r) # NoCall
               /\ Callback(t).object \notin {"hash", "tree"} =>
                     /\ HashMeaning(r) = NoCall /\ TreeMeaning(r) = NoCall
                     /\ GenericReply(t) = GenericAnswer(r)
  <1> DEFINE r == arguments[t]
             n == Len(r) - 1
             cb == Callback(t)
  <1>0. /\ r \in Seq(STRING) /\ Len(r) \in Nat \ {0} /\ n \in Nat /\ Len(r) = n + 1
        /\ cb = find(r[1], n) /\ r = arguments[t] /\ cb = Callback(t)
    BY OneMeaning DEF Callback
  <1> HIDE DEF r, n, cb
  <1>a. /\ NotImplementedYet.object = "static" /\ NotImplementedYet.method = "notImplementedYetCallback"
        /\ MalformedArguments.object = "static" /\ MalformedArguments.method = "malformedArgumentsCallback"
    BY DEF NotImplementedYet, MalformedArguments, ADD_COMMAND
  <1>b. ASSUME cb.object \notin {"hash", "tree"}, HashMeaning(r) = NoCall, TreeMeaning(r) = NoCall,
               GenericReply(t) = GenericAnswer(r)
        PROVE  /\ cb.object = "hash" => DbCalls(t, cb.method) = {HashMeaning(r)} /\ HashMeaning(r) # NoCall
               /\ cb.object = "tree" => DbCalls(t, cb.method) = {TreeMeaning(r)} /\ TreeMeaning(r) # NoCall
               /\ cb.object \notin {"hash", "tree"} =>
                     /\ HashMeaning(r) = NoCall /\ TreeMeaning(r) = NoCall
                     /\ GenericReply(t) = GenericAnswer(r)
    BY <1>b
  <1> SUFFICES /\ cb.object = "hash" => DbCalls(t, cb.method) = {HashMeaning(r)} /\ HashMeaning(r) # NoCall
               /\ cb.object = "tree" => DbCalls(t, cb.method) = {TreeMeaning(r)} /\ TreeMeaning(r) # NoCall
               /\ cb.object \notin {"hash", "tree"} =>
                     /\ HashMeaning(r) = NoCall /\ TreeMeaning(r) = NoCall
                     /\ GenericReply(t) = GenericAnswer(r)
    BY <1>0
  <1>1. CASE r[1] \notin Names
    <2>1. cb = NotImplementedYet
      BY <1>0, <1>1, FullTable DEF find
    <2>2. HashMeaning(r) = NoCall /\ TreeMeaning(r) = NoCall
      BY <1>1 DEF HashMeaning, TreeMeaning, Meaning, Names
    <2>3. GenericReply(t) = REPLY_NOT_IMPLEMENTED
      BY <1>0, <1>a, <2>1 DEF GenericReply
    <2>4. GenericAnswer(r) = REPLY_NOT_IMPLEMENTED
      BY <1>1 DEF GenericAnswer, Names
    <2> QED
      BY <1>a, <1>b, <2>1, <2>2, <2>3, <2>4
  <1>2. CASE r[1] \in Names \ {"VERSION"} /\ m_commands[r[1]].numberOfArguments # n
    <2>1. m_commands[r[1]].numberOfArguments \in Nat
      BY <1>2, FullTable DEF Names, Binds
    <2>2. cb = MalformedArguments
      BY <1>0, <1>2, <2>1, FullTable DEF find
    <2>3. HashMeaning(r) = NoCall
      BY <1>0, <1>2, FullTable DEF HashMeaning, Meaning, Binds
    <2>4. TreeMeaning(r) = NoCall
      BY <1>0, <1>2, FullTable DEF TreeMeaning, Meaning, Binds
    <2>5. GenericReply(t) = REPLY_MALFORMED
      BY <1>0, <1>a, <2>2 DEF GenericReply
    <2>6. r # <<"PING">> /\ r # <<"COMMANDS">>
      <3>1. m_commands["PING"].numberOfArguments = 0 /\ m_commands["COMMANDS"].numberOfArguments = 0
        BY FullTable DEF Binds
      <3>2. r = <<"PING">> => r[1] = "PING" /\ Len(r) = 1
        OBVIOUS
      <3>3. r = <<"COMMANDS">> => r[1] = "COMMANDS" /\ Len(r) = 1
        OBVIOUS
      <3> QED
        BY <1>0, <1>2, <3>1, <3>2, <3>3
    <2>7. GenericAnswer(r) = REPLY_MALFORMED
      BY <1>2, <2>6 DEF GenericAnswer
    <2> QED
      BY <1>a, <1>b, <2>2, <2>3, <2>4, <2>5, <2>7
  <1>3. ASSUME r[1] \in Names, r[1] = "VERSION" \/ m_commands[r[1]].numberOfArguments = n
        PROVE  cb = m_commands[r[1]]
    <2>1. m_commands["VERSION"].numberOfArguments = -1
      BY FullTable DEF Binds
    <2> QED
      BY <1>0, <1>3, <2>1, FullTable DEF find
  <1>4. CASE r[1] = "VERSION"
    <2>1. cb.object = "commands" /\ cb.method = "version"
      BY <1>3, <1>4, FullTable DEF Names, Binds
    <2>2. HashMeaning(r) = NoCall /\ TreeMeaning(r) = NoCall
      BY <1>4 DEF HashMeaning, TreeMeaning, Meaning
    <2>3. GenericReply(t) = versionString(Len(r) = 2 /\ r[2] = "VERBOSE")
      BY <1>0, <1>a, <2>1 DEF GenericReply
    <2>4. (Len(r) = 2 /\ r[2] = "VERBOSE") <=> r = <<"VERSION", "VERBOSE">>
      <3>1. r = <<"VERSION", "VERBOSE">> => Len(r) = 2 /\ r[2] = "VERBOSE"
        OBVIOUS
      <3>2. ASSUME Len(r) = 2, r[2] = "VERBOSE" PROVE r = <<"VERSION", "VERBOSE">>
        BY <1>0, <1>4, <3>2
      <3> QED
        BY <3>1, <3>2
    <2>5. GenericAnswer(r) = versionString(r = <<"VERSION", "VERBOSE">>)
      BY <1>4 DEF GenericAnswer, Names
    <2>6. GenericReply(t) = GenericAnswer(r)
      BY <2>3, <2>4, <2>5 DEF versionString
    <2> QED
      BY <1>b, <2>1, <2>2, <2>6
  <1>5. CASE r[1] = "PING" /\ n = 0
    <2>1. cb.object = "commands" /\ cb.method = "pingPong"
      BY <1>3, <1>5, FullTable DEF Names, Binds
    <2>2. HashMeaning(r) = NoCall /\ TreeMeaning(r) = NoCall
      BY <1>5 DEF HashMeaning, TreeMeaning, Meaning
    <2>3. GenericReply(t) = REPLY_PONG
      BY <1>0, <1>a, <2>1 DEF GenericReply
    <2>4. r = <<"PING">>
      BY <1>0, <1>5
    <2>5. GenericAnswer(r) = REPLY_PONG
      BY <1>5, <2>4 DEF GenericAnswer, Names
    <2> QED
      BY <1>b, <2>1, <2>2, <2>3, <2>5
  <1>6. CASE r[1] = "COMMANDS" /\ n = 0
    <2>1. cb.object = "commands" /\ cb.method = "commandsList"
      BY <1>3, <1>6, FullTable DEF Names, Binds
    <2>2. HashMeaning(r) = NoCall /\ TreeMeaning(r) = NoCall
      BY <1>6 DEF HashMeaning, TreeMeaning, Meaning
    <2>3. GenericReply(t) = <<"list", DOMAIN m_commands>>
      BY <1>0, <1>a, <2>1 DEF GenericReply
    <2>4. r = <<"COMMANDS">>
      BY <1>0, <1>6
    <2>5. GenericAnswer(r) = <<"list", Names>>
      BY <1>6, <2>4 DEF GenericAnswer, Names
    <2> QED
      BY <1>b, <2>1, <2>2, <2>3, <2>5, FullTable
  <1>7. CASE r[1] \in {"HGET", "HDEL", "HFOR", "ATGET", "ATDEL", "ATFOR"} /\ n = 1
    <2>1. Argument(t, 1) = {r[2]} /\ Len(r) = 2
      BY <1>0, <1>7 DEF Argument
    <2>2. cb = m_commands[r[1]]
      BY <1>3, <1>7, FullTable DEF Names, Binds
    <2>3. CASE r[1] \in {"HGET", "ATGET", "HDEL", "ATDEL"}
      BY <1>7, <2>1, <2>2, <2>3, FullTable DEF DbCalls, HashMeaning, TreeMeaning, Meaning, Binds, NoCall
    <2>4. CASE r[1] \in {"HFOR", "ATFOR"}
      BY <1>7, <2>1, <2>2, <2>4, FullTable DEF DbCalls, HashMeaning, TreeMeaning, Meaning, Binds, NoCall
    <2> QED
      BY <1>7, <2>3, <2>4
  <1>8. CASE r[1] \in {"HSET", "ATSET"} /\ n = 2
    <2>1. Argument(t, 1) = {r[2]} /\ Argument(t, 2) = {r[3]} /\ Len(r) = 3
      BY <1>0, <1>8 DEF Argument
    <2>2. cb = m_commands[r[1]]
      BY <1>3, <1>8, FullTable DEF Names, Binds
    <2> QED
      BY <1>8, <2>1, <2>2, FullTable DEF DbCalls, HashMeaning, TreeMeaning, Meaning, Binds, NoCall
  <1> QED
    BY <1>1, <1>2, <1>4, <1>5, <1>6, <1>7, <1>8, FullTable DEF Names, Binds

----------------------------------------------------------------------------
(* The inductive invariant.                                                *)

\* Calls and replies are the same words on all levels.
LEMMA SameWords ==
    /\ Hash!NoCall = NoCall /\ Hash!NoReply = NoReply /\ Hash!Requests = Requests
    /\ Tree!NoCall = NoCall /\ Tree!NoReply = NoReply /\ Tree!Requests = Requests
    /\ HashClients!NoCall = NoCall /\ HashClients!NoReply = NoReply /\ HashClients!Requests = Requests
    /\ TreeClients!NoCall = NoCall /\ TreeClients!NoReply = NoReply /\ TreeClients!Requests = Requests
  BY DEF Hash!NoCall, Tree!NoCall, HashClients!NoCall, TreeClients!NoCall, NoCall,
         Hash!NoReply, Tree!NoReply, HashClients!NoReply, TreeClients!NoReply, NoReply,
         Hash!Requests, Tree!Requests, HashClients!Requests, TreeClients!Requests, Requests

\* No session, no client and no command at the start (main).
LEMMA InitIInv == Init => IInv
  <1> SUFFICES ASSUME Init PROVE IInv
    OBVIOUS
  <1> USE SameWords DEF Init, CommandsInit, Hash!Init, Tree!Init
  <1>1. TypeOK
    BY DEF TypeOK
  <1>2. TableInv
    BY CommandsAssumption DEF TableInv
  <1>3. CallsInv /\ ConnectionInv /\ AnswerInv
    BY DEF CallsInv, ConnectionInv, AnswerInv
  <1>4. ServingInv
    BY DEF ServingInv
  <1> QED
    BY <1>1, <1>2, <1>3, <1>4 DEF IInv

\* What a client does changes its connection only, and none that a worker serves.
LEMMA ClientStep ==
    ASSUME IInv, NEW c \in Connections, connect(c) \/ send(c) \/ receive(c) \/ disconnect(c)
    PROVE  IInv'
  <1>0. /\ TypeOK /\ TableInv /\ CallsInv /\ ServingInv /\ ConnectionInv /\ AnswerInv
        /\ UNCHANGED <<hashVars, treeVars, workerVars>>
    BY DEF IInv, connect, send, receive, disconnect
  <1>1. TypeOK'
    BY <1>0 DEF TypeOK, hashVars, treeVars, workerVars, connect, send, receive, disconnect
  <1>2. TableInv' /\ CallsInv'
    BY <1>0 DEF TableInv, CallsInv, hashVars, treeVars, workerVars, commandsVars
  <1>3. \A d \in Connections \ {c} : /\ op'[d] = op[d] /\ inbox'[d] = inbox[d] /\ client'[d] = client[d]
                                     /\ request'[d] = request[d] /\ answer'[d] = answer[d]
                                     /\ service'[d] = service[d]
    BY <1>0 DEF TypeOK, connect, send, receive, disconnect
  <1>4. /\ op[c] = "execute" <=> op'[c] = "execute"
        /\ op[c] = "execute" => request'[c] = request[c] /\ service'[c] = service[c]
    BY <1>0 DEF TypeOK, ConnectionInv, connect, send, receive, disconnect
  <1>5. ServingInv'
    BY <1>0, <1>3, <1>4 DEF ServingInv, workerVars, TypeOK
  <1>6. ConnectionInv'
    <2>1. CASE connect(c)
      BY <1>0, <1>3, <2>1 DEF TypeOK, ConnectionInv, connect
    <2>2. CASE send(c)
      BY <1>0, <1>3, <2>2, CacheAssumption DEF TypeOK, ConnectionInv, send
    <2>3. CASE receive(c)
      BY <1>0, <1>3, <2>3 DEF TypeOK, ConnectionInv, receive
    <2>4. CASE disconnect(c)
      BY <1>0, <1>3, <2>4 DEF TypeOK, ConnectionInv, disconnect
    <2> QED
      BY <2>1, <2>2, <2>3, <2>4
  <1>7. AnswerInv'
    <2>1. answer'[c] # NoReply => answer'[c] = answer[c] /\ request'[c] = request[c]
      BY <1>0 DEF TypeOK, ConnectionInv, connect, send, receive, disconnect
    <2> QED
      BY <1>0, <1>3, <2>1 DEF AnswerInv
  <1> QED
    BY <1>1, <1>2, <1>5, <1>6, <1>7 DEF IInv

\* A session reads only when its worker is free, and gives it the request its
\* client sent; a session that is deleted is not being served.
LEMMA SessionStep ==
    ASSUME IInv, NEW c \in Connections, handleRead(c) \/ handleWrite(c)
    PROVE  IInv'
  <1>0. /\ TypeOK /\ TableInv /\ CallsInv /\ ServingInv /\ ConnectionInv /\ AnswerInv
        /\ UNCHANGED <<hashVars, treeVars, commandsVars, service, client, answer>>
        /\ service[c] \in Threads /\ pc[service[c]] = "idle"
    BY DEF IInv, handleRead, handleWrite, TypeOK
  <1> DEFINE t == service[c]
  <1>1. CASE Delete(c) /\ op[c] # "execute"
    <2>1. /\ \A d \in Connections \ {c} : op'[d] = op[d] /\ inbox'[d] = inbox[d] /\ request'[d] = request[d]
          /\ op'[c] = "closed" /\ inbox'[c] = NoRequest /\ client[c] = "gone" /\ answer[c] = NoReply
          /\ UNCHANGED <<pc, arguments, session>>
      BY <1>0, <1>1 DEF TypeOK, Delete, ConnectionInv
    <2>2. TypeOK'
      BY <1>0, <1>1 DEF TypeOK, Delete, hashVars, treeVars
    <2>3. TableInv' /\ CallsInv'
      BY <1>0, <2>1 DEF TableInv, CallsInv, hashVars, treeVars, commandsVars
    <2>4. ServingInv' /\ ConnectionInv' /\ AnswerInv'
      BY <1>0, <1>1, <2>1 DEF ServingInv, ConnectionInv, AnswerInv
    <2> QED
      BY <2>2, <2>3, <2>4 DEF IInv
  <1>2. CASE op[c] = "write" /\ op' = [op EXCEPT ![c] = "read"] /\ UNCHANGED <<pc, arguments, session, inbox, request>>
    <2>1. TypeOK' /\ TableInv' /\ CallsInv'
      BY <1>0, <1>2 DEF TypeOK, TableInv, CallsInv, hashVars, treeVars, commandsVars
    <2>2. \A d \in Connections : op'[d] = op[d] \/ (d = c /\ op'[d] = "read")
      BY <1>0, <1>2 DEF TypeOK
    <2>3. ServingInv' /\ ConnectionInv' /\ AnswerInv'
      BY <1>0, <1>2, <2>2 DEF ServingInv, ConnectionInv, AnswerInv
    <2> QED
      BY <2>1, <2>3 DEF IInv
  <1>3. CASE /\ op[c] = "read" /\ inbox[c] # NoRequest
             /\ inbox' = [inbox EXCEPT ![c] = NoRequest]
             /\ arguments' = [arguments EXCEPT ![t] = inbox[c]]
             /\ session' = [session EXCEPT ![t] = c]
             /\ pc' = [pc EXCEPT ![t] = "instance"]
             /\ op' = [op EXCEPT ![c] = "execute"]
             /\ UNCHANGED request
    <2>1. /\ inbox[c] = request[c] /\ request[c] \in ClientRequests /\ client[c] # "ready"
          /\ answer[c] = NoReply /\ session[t] = NoConnection
      BY <1>0, <1>3 DEF TypeOK, ConnectionInv, ServingInv
    <2>2. /\ \A d \in Connections \ {c} : op'[d] = op[d] /\ inbox'[d] = inbox[d]
          /\ op'[c] = "execute" /\ inbox'[c] = NoRequest
          /\ \A u \in Threads \ {t} : pc'[u] = pc[u] /\ arguments'[u] = arguments[u] /\ session'[u] = session[u]
          /\ pc'[t] = "instance" /\ arguments'[t] = request[c] /\ session'[t] = c
      BY <1>0, <1>3, <2>1 DEF TypeOK
    <2>3. TypeOK'
      BY <1>0, <1>3, <2>1 DEF TypeOK, hashVars, treeVars
    <2>4. TableInv'
      BY <1>0, <2>2 DEF TableInv, commandsVars
    <2>5. CallsInv'
      BY <1>0, <2>2 DEF CallsInv, hashVars, treeVars
    <2>6. ConnectionInv' /\ AnswerInv'
      BY <1>0, <1>3, <2>1, <2>2, CacheAssumption DEF ConnectionInv, AnswerInv
    <2>7. ServingInv'
      <3>1. ASSUME NEW u \in Threads \ {t} PROVE session[u] # c
        BY <1>0, CacheAssumption DEF ServingInv
      <3>2. ASSUME NEW u \in Threads PROVE ServingInv!1!(u)'
        <4>1. CASE u = t
          BY <1>0, <1>3, <2>2, <4>1
        <4>2. CASE u # t
          BY <1>0, <1>3, <2>2, <3>1, <4>2 DEF ServingInv, TypeOK
        <4> QED
          BY <4>1, <4>2
      <3>3. ASSUME NEW d \in Connections PROVE ServingInv!2!(d)'
        <4>1. CASE d = c
          BY <1>0, <2>2, <4>1
        <4>2. CASE d # c
          <5>1. op[d] = "execute" => service[d] # t
            BY <1>0, <2>1, <4>2, CacheAssumption DEF ServingInv
          <5> QED
            BY <1>0, <2>2, <4>2, <5>1 DEF ServingInv, TypeOK
        <4> QED
          BY <4>1, <4>2
      <3> QED
        BY <3>2, <3>3 DEF ServingInv
    <2> QED
      BY <2>3, <2>4, <2>5, <2>6, <2>7 DEF IInv
  <1> QED
    BY <1>1, <1>2, <1>3 DEF handleRead, handleWrite

\* The constructor of Commands is run by one worker, the others wait for it.
LEMMA TableStep ==
    ASSUME IInv, NEW t \in Threads, TheCommands(t)
    PROVE  IInv'
  <1>0. /\ TypeOK /\ TableInv /\ CallsInv /\ ServingInv /\ ConnectionInv /\ AnswerInv
        /\ UNCHANGED <<hashVars, treeVars, session, connectionVars, arguments>>
    BY DEF IInv, TheCommands, instance, addGenericCommands, addDbCommands
  <1>1. /\ pc[t] \in {"instance", "addGeneric", "addDb"} /\ pc'[t] \in {"addGeneric", "addDb", "find"}
        /\ \A u \in Threads \ {t} : pc'[u] = pc[u]
        /\ pc' \in [Threads -> {"idle", "instance", "addGeneric", "addDb", "find", "call"}]
    BY <1>0 DEF TypeOK, TheCommands, instance, addGenericCommands, addDbCommands, Step
  <1>2. TypeOK' /\ ConnectionInv' /\ AnswerInv'
    BY <1>0, <1>1 DEF TypeOK, ConnectionInv, AnswerInv, hashVars, treeVars, connectionVars
  <1>3. CallsInv'
    BY <1>0, <1>1 DEF CallsInv, hashVars, treeVars
  <1>4. ServingInv'
    BY <1>0, <1>1 DEF ServingInv, connectionVars
  <1>5. TableInv'
    <2>1. CASE instance(t) /\ builder = NoThread
      <3>1. pc[t] = "instance" /\ pc'[t] = "addGeneric" /\ builder' = t /\ UNCHANGED <<m_commands, built>>
        BY <1>0, <2>1 DEF TypeOK, TableInv, instance, Step
      <3> QED
        BY <1>0, <1>1, <2>1, <3>1, CommandsAssumption DEF TableInv
    <2>2. CASE instance(t) /\ built
      <3>1. pc[t] = "instance" /\ pc'[t] = "find" /\ UNCHANGED <<builder, m_commands, built>>
        BY <1>0, <2>2 DEF TypeOK, TableInv, instance, Step
      <3> QED
        BY <1>0, <1>1, <2>2, <3>1 DEF TableInv
    <2>3. CASE addGenericCommands(t)
      <3>1. /\ pc[t] = "addGeneric" /\ pc'[t] = "addDb" /\ UNCHANGED <<builder, built>>
            /\ builder = t /\ ~built /\ m_commands = <<>> /\ m_commands' = Add(GenericCommands, m_commands)
        BY <1>0, <2>3 DEF TypeOK, TableInv, addGenericCommands, Step
      <3> QED
        BY <1>0, <1>1, <3>1, CommandsAssumption DEF TableInv
    <2>4. CASE addDbCommands(t)
      <3>1. /\ pc[t] = "addDb" /\ pc'[t] = "find" /\ UNCHANGED builder /\ built'
            /\ builder = t /\ ~built /\ m_commands = Add(GenericCommands, <<>>)
            /\ m_commands' = Add(DbCommands, m_commands)
        BY <1>0, <2>4 DEF TypeOK, TableInv, addDbCommands, Step
      <3> QED
        BY <1>0, <1>1, <3>1, CommandsAssumption DEF TableInv
    <2> QED
      BY <2>1, <2>2, <2>3, <2>4 DEF TheCommands, instance
  <1> QED
    BY <1>2, <1>3, <1>4, <1>5 DEF IInv

\* The state of the databases and of the calls on them has its type.
DbTypeOK ==
    /\ hashCall \in [Threads -> Requests \cup {NoCall}]
    /\ treeCall \in [Threads -> Requests \cup {NoCall}]
    /\ hashReply \in [Threads -> Replies \cup {NoReply}]
    /\ treeReply \in [Threads -> Replies \cup {NoReply}]
    /\ hashStore \in [Keys -> Values \cup {NotFound}]
    /\ treeStore \in [Keys -> Values \cup {NotFound}]

\* What is true of a worker that executes a command, and of its session.
LEMMA Serving ==
    ASSUME IInv, NEW t \in Threads, pc[t] # "idle"
    PROVE  /\ session[t] \in Connections
           /\ service[session[t]] = t
           /\ op[session[t]] = "execute"
           /\ arguments[t] = request[session[t]]
           /\ arguments[t] \in ClientRequests
           /\ answer[session[t]] = NoReply
           /\ client[session[t]] # "ready"
           /\ inbox[session[t]] = NoRequest
           /\ \A u \in Threads \ {t} : session[u] # session[t]
           /\ \A d \in Connections \ {session[t]} : op[d] = "execute" => service[d] # t
  <1>0. TypeOK /\ ServingInv /\ ConnectionInv
    BY DEF IInv
  <1>1. /\ session[t] \in Connections /\ service[session[t]] = t
        /\ op[session[t]] = "execute" /\ arguments[t] = request[session[t]]
    BY <1>0 DEF ServingInv
  <1>2. /\ request[session[t]] # NoRequest /\ answer[session[t]] = NoReply
        /\ client[session[t]] # "ready" /\ inbox[session[t]] = NoRequest
    BY <1>0, <1>1 DEF ConnectionInv
  <1>3. arguments[t] \in ClientRequests
    BY <1>0, <1>1, <1>2 DEF TypeOK
  <1>4. \A u \in Threads \ {t} : session[u] # session[t]
    BY <1>0, <1>1, CacheAssumption DEF ServingInv
  <1>5. \A d \in Connections \ {session[t]} : op[d] = "execute" => service[d] # t
    BY <1>0 DEF ServingInv
  <1> QED
    BY <1>1, <1>2, <1>3, <1>4, <1>5

\* A callback that returns a right reply gives it to the client that asked, if
\* that client is still there, and leaves its worker free.
LEMMA FinishStep ==
    ASSUME IInv, DbTypeOK', NEW t \in Threads, pc[t] \in {"find", "call"},
           NEW r, r # NoReply, finishCallback(t, r),
           IF HashMeaning(arguments[t]) # NoCall \/ TreeMeaning(arguments[t]) # NoCall
           THEN r \in Replies ELSE r = GenericAnswer(arguments[t])
    PROVE  TypeOK' /\ TableInv' /\ ServingInv' /\ ConnectionInv' /\ AnswerInv'
  <1> DEFINE c == session[t]
  <1>0. TypeOK /\ TableInv /\ ServingInv /\ ConnectionInv /\ AnswerInv
    BY DEF IInv
  <1>1. /\ c \in Connections /\ service[c] = t /\ op[c] = "execute"
        /\ arguments[t] = request[c] /\ arguments[t] \in ClientRequests /\ request[c] # NoRequest
        /\ answer[c] = NoReply /\ client[c] \in {"gone", "waiting"} /\ inbox[c] = NoRequest
        /\ \A u \in Threads \ {t} : session[u] # c
        /\ \A d \in Connections \ {c} : op[d] = "execute" => service[d] # t
    <2>1. pc[t] # "idle"
      OBVIOUS
    <2>2. c \in Connections => client[c] \in {"gone", "ready", "waiting"}
      BY <1>0 DEF TypeOK
    <2> QED
      BY <2>1, <2>2, Serving, CacheAssumption
  <1> HIDE DEF c
  <1>2. /\ answer' = IF client[c] = "gone" THEN answer ELSE [answer EXCEPT ![c] = r]
        /\ op' = [op EXCEPT ![c] = "write"]
        /\ pc' = [pc EXCEPT ![t] = "idle"]
        /\ arguments' = [arguments EXCEPT ![t] = <<>>]
        /\ session' = [session EXCEPT ![t] = NoConnection]
        /\ UNCHANGED <<commandsVars, service, inbox, client, request>>
    BY DEF finishCallback, c
  <1>3. /\ \A d \in Connections \ {c} : op'[d] = op[d] /\ answer'[d] = answer[d]
        /\ op'[c] = "write" /\ answer'[c] = IF client[c] = "gone" THEN NoReply ELSE r
        /\ \A u \in Threads \ {t} : pc'[u] = pc[u] /\ arguments'[u] = arguments[u] /\ session'[u] = session[u]
        /\ pc'[t] = "idle" /\ session'[t] = NoConnection
    <2>1. answer = [d \in Connections |-> answer[d]]
      BY <1>0 DEF TypeOK
    <2> QED
      BY <1>0, <1>1, <1>2, <2>1 DEF TypeOK
  <1>4. TypeOK'
    <2>1. answer' = [d \in Connections |-> answer'[d]]
      <3>1. answer = [d \in Connections |-> answer[d]]
        BY <1>0 DEF TypeOK
      <3> QED
        BY <1>2, <3>1
    <2> QED
      BY <1>0, <1>2, <2>1 DEF TypeOK, DbTypeOK
  <1>5. TableInv'
    BY <1>0, <1>2, <1>3 DEF TableInv, commandsVars
  <1>6. ServingInv'
    <2>1. ASSUME NEW u \in Threads PROVE ServingInv!1!(u)'
      BY <1>0, <1>1, <1>2, <1>3 DEF ServingInv
    <2>2. ASSUME NEW d \in Connections PROVE ServingInv!2!(d)'
      <3>1. CASE d = c
        BY <1>3, <3>1
      <3>2. CASE d # c
        BY <1>0, <1>1, <1>2, <1>3, <3>2 DEF ServingInv, TypeOK
      <3> QED
        BY <3>1, <3>2
    <2> QED
      BY <2>1, <2>2 DEF ServingInv
  <1>7. ConnectionInv'
    BY <1>0, <1>1, <1>2, <1>3 DEF ConnectionInv
  <1>8. AnswerInv'
    BY <1>0, <1>1, <1>2, <1>3 DEF AnswerInv
  <1> QED
    BY <1>4, <1>5, <1>6, <1>7, <1>8

\* No reply is the absence of one, and no reply of a database is one of these.
LEMMA DistinctReplies ==
    /\ NoReply \notin Replies /\ REPLY_NOT_IMPLEMENTED \notin Replies /\ REPLY_PONG \notin Replies
    /\ \A r \in ClientRequests : GenericAnswer(r) # NoReply
  <1>1. NoReply \notin Replies /\ REPLY_NOT_IMPLEMENTED \notin Replies /\ REPLY_PONG \notin Replies
    <2>1. \A x \in Replies : x[1] \in {"false", "true", "nil", "ok", "error", "bulk"}
      BY DEF Replies, toReplyString, REPLY_FALSE, REPLY_TRUE, REPLY_NIL, REPLY_OK, REPLY_ERROR
    <2>2. NoReply[1] = "none" /\ REPLY_NOT_IMPLEMENTED[1] = "not implemented" /\ REPLY_PONG[1] = "PONG"
      BY DEF NoReply, REPLY_NOT_IMPLEMENTED, REPLY_PONG
    <2> QED
      BY <2>1, <2>2
  <1>2. \A r \in ClientRequests : GenericAnswer(r) # NoReply
    <2>1. \A r \in ClientRequests : GenericAnswer(r)[1] # "none"
      BY DEF GenericAnswer, versionString, REPLY_NOT_IMPLEMENTED, REPLY_PONG, REPLY_MALFORMED
    <2> QED
      BY <2>1 DEF NoReply
  <1> QED
    BY <1>1, <1>2

\* A callback that uses no database answers and leaves the databases alone.
LEMMA GenericStep ==
    ASSUME IInv, NEW t \in Threads, genericCallback(t)
    PROVE  IInv'
  <1>0. /\ TypeOK /\ TableInv /\ CallsInv
        /\ pc[t] = "find" /\ UNCHANGED <<hashVars, treeVars>>
        /\ finishCallback(t, GenericReply(t)) /\ Callback(t).object \notin {"hash", "tree"}
    BY DEF IInv, genericCallback
  <1>1. arguments[t] \in ClientRequests /\ m_commands = Add(DbCommands, Add(GenericCommands, <<>>))
    BY <1>0, Serving DEF TableInv
  <1>2. /\ HashMeaning(arguments[t]) = NoCall /\ TreeMeaning(arguments[t]) = NoCall
        /\ GenericReply(t) = GenericAnswer(arguments[t]) /\ GenericReply(t) # NoReply
    BY <1>0, <1>1, Finds, DistinctReplies
  <1>3. DbTypeOK'
    BY <1>0 DEF TypeOK, DbTypeOK, hashVars, treeVars
  <1>4. TypeOK' /\ TableInv' /\ ServingInv' /\ ConnectionInv' /\ AnswerInv'
    BY <1>0, <1>2, <1>3, FinishStep
  <1>5. CallsInv'
    <2>1. /\ pc'[t] = "idle"
          /\ \A u \in Threads \ {t} : pc'[u] = pc[u] /\ arguments'[u] = arguments[u]
      BY <1>0 DEF TypeOK, finishCallback
    <2> QED
      BY <1>0, <2>1 DEF CallsInv, hashVars, treeVars
  <1> QED
    BY <1>4, <1>5 DEF IInv

\* The effects of the calls on the hash table.
HashEffect(t) == Hash!Get(t) \/ Hash!Set(t) \/ Hash!Del(t) \/ Hash!Foreach(t)

\* A method of the hash table is called with what the request means.
LEMMA HashInvoke ==
    ASSUME IInv, NEW t \in Threads, Step(t, "find", "call"), Callback(t).object = "hash",
           NEW r \in DbCalls(t, Callback(t).method), Hash!Invoke(t), hashCall'[t] = r,
           UNCHANGED <<treeVars, arguments, session, commandsVars, connectionVars>>
    PROVE  /\ IInv'
           /\ UNCHANGED <<hashStore, hashReply, hashAborted>>
           /\ HashMeaning(arguments[t]) \in Requests /\ TreeMeaning(arguments[t]) = NoCall
           /\ pc[t] = "find" /\ pc'[t] = "call" /\ \A u \in Threads \ {t} : pc'[u] = pc[u]
  <1>0. TypeOK /\ TableInv /\ CallsInv /\ ServingInv /\ ConnectionInv /\ AnswerInv
    BY DEF IInv
  <1>1. /\ pc[t] = "find" /\ pc'[t] = "call" /\ \A u \in Threads \ {t} : pc'[u] = pc[u]
        /\ pc' \in [Threads -> {"idle", "instance", "addGeneric", "addDb", "find", "call"}]
    BY <1>0 DEF TypeOK, Step
  <1>2. arguments[t] \in ClientRequests /\ m_commands = Add(DbCommands, Add(GenericCommands, <<>>))
    BY <1>0, <1>1, Serving DEF TableInv
  <1>3. r = HashMeaning(arguments[t]) /\ r # NoCall /\ TreeMeaning(arguments[t]) = NoCall
    BY <1>2, Finds, OneMeaning
  <1>4. /\ UNCHANGED <<hashStore, hashReply, hashAborted>>
        /\ \A u \in Threads \ {t} : hashCall'[u] = hashCall[u]
        /\ hashCall' \in [Threads -> Requests \cup {NoCall}] /\ r \in Requests
    BY <1>0, SameWords DEF TypeOK, Hash!Invoke
  <1>5. TypeOK' /\ ConnectionInv' /\ AnswerInv'
    BY <1>0, <1>1, <1>4 DEF TypeOK, ConnectionInv, AnswerInv, treeVars, connectionVars
  <1>6. TableInv'
    BY <1>0, <1>1 DEF TableInv, commandsVars
  <1>7. ServingInv'
    BY <1>0, <1>1 DEF ServingInv, connectionVars
  <1>8. CallsInv'
    <2>1. hashCall[t] = NoCall /\ treeCall[t] = NoCall
      BY <1>0, <1>1 DEF CallsInv
    <2> QED
      BY <1>0, <1>1, <1>3, <1>4, <2>1 DEF CallsInv, treeVars
  <1> QED
    BY <1>1, <1>3, <1>4, <1>5, <1>6, <1>7, <1>8 DEF IInv

\* A call takes effect once, and in a worker that is in a callback.
LEMMA HashEffects ==
    ASSUME IInv, NEW t \in Threads, HashEffect(t)
    PROVE  /\ pc[t] = "call" /\ hashCall[t] = HashMeaning(arguments[t]) /\ hashCall[t] # NoCall
           /\ hashReply[t] = NoReply /\ hashReply'[t] \in Replies
           /\ \A u \in Threads \ {t} : hashReply'[u] = hashReply[u]
           /\ hashReply' \in [Threads -> Replies \cup {NoReply}]
           /\ hashStore' \in [Keys -> Values \cup {NotFound}]
           /\ UNCHANGED <<hashCall, hashAborted>>
  <1>0. TypeOK /\ CallsInv
    BY DEF IInv
  <1> DEFINE q == hashCall[t]
  <1>1. q.op \in {"get", "set", "del", "foreach"} /\ q \in Requests \cup {NoCall}
    BY <1>0 DEF TypeOK, HashEffect, Hash!Get, Hash!Set, Hash!Del, Hash!Foreach
  <1>2. q # NoCall
    BY <1>1 DEF NoCall
  <1>3. pc[t] = "call" /\ q = HashMeaning(arguments[t])
    BY <1>0, <1>2 DEF CallsInv
  <1>4. q.op = "set" => q.value \in Values
    BY <1>1, <1>2 DEF Requests
  <1>5. ASSUME NEW s, NEW x, Hash!Effect(t, s, x), x \in Replies
        PROVE  /\ hashReply[t] = NoReply /\ hashReply'[t] = x /\ hashStore' = s
               /\ \A u \in Threads \ {t} : hashReply'[u] = hashReply[u]
               /\ hashReply' \in [Threads -> Replies \cup {NoReply}]
               /\ UNCHANGED <<hashCall, hashAborted>>
    BY <1>0, <1>5, SameWords DEF TypeOK, Hash!Effect
  <1>6. /\ REPLY_FALSE \in Replies /\ REPLY_TRUE \in Replies /\ REPLY_NIL \in Replies
        /\ REPLY_OK \in Replies /\ REPLY_ERROR \in Replies
        /\ Hash!REPLY_FALSE = REPLY_FALSE /\ Hash!REPLY_TRUE = REPLY_TRUE /\ Hash!REPLY_NIL = REPLY_NIL
        /\ Hash!REPLY_OK = REPLY_OK /\ Hash!REPLY_ERROR = REPLY_ERROR
    BY DEF Replies, Hash!REPLY_FALSE, Hash!REPLY_TRUE, Hash!REPLY_NIL, Hash!REPLY_OK, Hash!REPLY_ERROR,
           REPLY_FALSE, REPLY_TRUE, REPLY_NIL, REPLY_OK, REPLY_ERROR
  <1> DEFINE Done == /\ hashReply[t] = NoReply /\ hashReply'[t] \in Replies
                     /\ \A u \in Threads \ {t} : hashReply'[u] = hashReply[u]
                     /\ hashReply' \in [Threads -> Replies \cup {NoReply}]
                     /\ hashStore' \in [Keys -> Values \cup {NotFound}]
                     /\ UNCHANGED <<hashCall, hashAborted>>
  <1>7. ASSUME NEW s, NEW x, Hash!Effect(t, s, x), x \in Replies, s \in [Keys -> Values \cup {NotFound}]
        PROVE  Done
    BY <1>5, <1>7
  <1> HIDE DEF Done
  <1>8. ASSUME Hash!Get(t) PROVE Done
    <2> DEFINE v == hashStore[q.key]
               x == IF v = NotFound THEN Hash!REPLY_NIL ELSE Hash!toReplyString(v)
    <2>1. Hash!Effect(t, hashStore, x) /\ q.op = "get"
      BY <1>8 DEF Hash!Get
    <2>2. q.key \in Keys
      BY <1>1, <1>2, <2>1 DEF Requests
    <2>3. hashStore \in [Keys -> Values \cup {NotFound}]
      BY <1>0 DEF TypeOK
    <2>4. x \in Replies
      BY <1>6, <2>2, <2>3 DEF Replies, Hash!toReplyString, toReplyString
    <2> HIDE DEF x
    <2> QED
      BY <1>7, <2>1, <2>3, <2>4
  <1>9. ASSUME Hash!Set(t) PROVE Done
    <2>1. q.op = "set" /\ Hash!Effect(t, [hashStore EXCEPT ![q.key] = q.value], Hash!REPLY_OK)
      BY <1>9 DEF Hash!Set
    <2>2. [hashStore EXCEPT ![q.key] = q.value] \in [Keys -> Values \cup {NotFound}]
      BY <1>0, <1>4, <2>1 DEF TypeOK
    <2> QED
      BY <1>6, <1>7, <2>1, <2>2
  <1>10. ASSUME Hash!Del(t) PROVE Done
    <2> DEFINE x == IF hashStore[q.key] = NotFound THEN Hash!REPLY_FALSE ELSE Hash!REPLY_TRUE
    <2>1. Hash!Effect(t, [hashStore EXCEPT ![q.key] = NotFound], x)
      BY <1>10 DEF Hash!Del
    <2>2. [hashStore EXCEPT ![q.key] = NotFound] \in [Keys -> Values \cup {NotFound}]
      BY <1>0 DEF TypeOK
    <2>3. x \in Replies
      BY <1>6
    <2> HIDE DEF x
    <2> QED
      BY <1>7, <2>1, <2>2, <2>3
  <1>11. ASSUME Hash!Foreach(t) PROVE Done
    <2>1. PICK s \in [Keys -> Values \cup {NotFound}], x \in {Hash!REPLY_ERROR, Hash!REPLY_TRUE} :
             Hash!Effect(t, s, x)
      <3>1. hashStore \in [Keys -> Values \cup {NotFound}]
        BY <1>0 DEF TypeOK
      <3> QED
        BY <1>11, <3>1 DEF Hash!Foreach
    <2> QED
      BY <1>6, <1>7, <2>1
  <1>12. Done
    BY <1>8, <1>9, <1>10, <1>11 DEF HashEffect
  <1> QED
    BY <1>2, <1>3, <1>12 DEF Done

\* The hash table is used by one callback after another, and never by two
\* callbacks for one request.
LEMMA HashStep ==
    ASSUME IInv, NEW t \in Threads, hashCallback(t)
    PROVE  IInv'
  <1>0. TypeOK /\ TableInv /\ CallsInv /\ ServingInv /\ ConnectionInv /\ AnswerInv
    BY DEF IInv
  <1>1. ASSUME NEW r \in DbCalls(t, Callback(t).method), Hash!Invoke(t), hashCall'[t] = r,
               Step(t, "find", "call"), Callback(t).object = "hash",
               UNCHANGED <<treeVars, arguments, session, commandsVars, connectionVars>>
        PROVE  IInv'
    BY <1>1, HashInvoke
  <1>2. CASE HashEffect(t) /\ UNCHANGED <<treeVars, workerVars, connectionVars>>
    <2>1. TypeOK'
      BY <1>0, <1>2, HashEffects DEF TypeOK, treeVars, workerVars, connectionVars
    <2>2. TableInv' /\ ServingInv' /\ ConnectionInv' /\ AnswerInv'
      BY <1>0, <1>2 DEF TableInv, ServingInv, ConnectionInv, AnswerInv, workerVars, commandsVars, connectionVars
    <2>3. CallsInv'
      BY <1>0, <1>2, HashEffects DEF CallsInv, treeVars, workerVars
    <2> QED
      BY <2>1, <2>2, <2>3 DEF IInv
  <1>3. CASE Hash!Abort(t) /\ UNCHANGED <<treeVars, workerVars, connectionVars>>
    <2>1. UNCHANGED <<hashStore, hashCall, hashReply>>
      BY <1>3 DEF Hash!Abort
    <2>2. TypeOK' /\ CallsInv'
      BY <1>0, <1>3, <2>1 DEF TypeOK, CallsInv, treeVars, workerVars, connectionVars
    <2>3. TableInv' /\ ServingInv' /\ ConnectionInv' /\ AnswerInv'
      BY <1>0, <1>3 DEF TableInv, ServingInv, ConnectionInv, AnswerInv, workerVars, commandsVars, connectionVars
    <2> QED
      BY <2>2, <2>3 DEF IInv
  <1>4. CASE Hash!Respond(t) /\ finishCallback(t, hashReply[t]) /\ UNCHANGED treeVars
    <2>1. /\ hashReply[t] # NoReply /\ hashCall'[t] = NoCall /\ hashReply'[t] = NoReply
          /\ \A u \in Threads \ {t} : hashCall'[u] = hashCall[u] /\ hashReply'[u] = hashReply[u]
          /\ hashStore' = hashStore
          /\ hashCall' \in [Threads -> Requests \cup {NoCall}]
          /\ hashReply' \in [Threads -> Replies \cup {NoReply}]
      BY <1>0, <1>4, SameWords DEF TypeOK, Hash!Respond
    <2>2. hashCall[t] # NoCall /\ pc[t] = "call" /\ hashCall[t] = HashMeaning(arguments[t])
      BY <1>0, <2>1 DEF CallsInv
    <2>3. treeCall[t] = NoCall
      BY <1>0, <2>2, Serving, OneMeaning DEF CallsInv
    <2>4. DbTypeOK'
      BY <1>0, <1>4, <2>1 DEF TypeOK, DbTypeOK, treeVars
    <2>5. hashReply[t] \in Replies
      BY <1>0, <2>1 DEF TypeOK
    <2>6. TypeOK' /\ TableInv' /\ ServingInv' /\ ConnectionInv' /\ AnswerInv'
      BY <1>4, <2>1, <2>2, <2>4, <2>5, FinishStep
    <2>7. CallsInv'
      <3>1. /\ pc'[t] = "idle"
            /\ \A u \in Threads \ {t} : pc'[u] = pc[u] /\ arguments'[u] = arguments[u]
        BY <1>0, <1>4 DEF TypeOK, finishCallback
      <3> QED
        BY <1>0, <1>4, <2>1, <2>3, <3>1 DEF CallsInv, treeVars
    <2> QED
      BY <2>6, <2>7 DEF IInv
  <1> QED
    BY <1>1, <1>2, <1>3, <1>4 DEF hashCallback, HashEffect

\* The effects of the calls on the AVL tree.
TreeEffect(t) == Tree!Get(t) \/ Tree!Set(t) \/ Tree!Del(t) \/ Tree!Foreach(t)

\* A method of the AVL tree is called with what the request means.
LEMMA TreeInvoke ==
    ASSUME IInv, NEW t \in Threads, Step(t, "find", "call"), Callback(t).object = "tree",
           NEW r \in DbCalls(t, Callback(t).method), Tree!Invoke(t), treeCall'[t] = r,
           UNCHANGED <<hashVars, arguments, session, commandsVars, connectionVars>>
    PROVE  /\ IInv'
           /\ UNCHANGED <<treeStore, treeReply, treeAborted>>
           /\ TreeMeaning(arguments[t]) \in Requests /\ HashMeaning(arguments[t]) = NoCall
           /\ pc[t] = "find" /\ pc'[t] = "call" /\ \A u \in Threads \ {t} : pc'[u] = pc[u]
  <1>0. TypeOK /\ TableInv /\ CallsInv /\ ServingInv /\ ConnectionInv /\ AnswerInv
    BY DEF IInv
  <1>1. /\ pc[t] = "find" /\ pc'[t] = "call" /\ \A u \in Threads \ {t} : pc'[u] = pc[u]
        /\ pc' \in [Threads -> {"idle", "instance", "addGeneric", "addDb", "find", "call"}]
    BY <1>0 DEF TypeOK, Step
  <1>2. arguments[t] \in ClientRequests /\ m_commands = Add(DbCommands, Add(GenericCommands, <<>>))
    BY <1>0, <1>1, Serving DEF TableInv
  <1>3. r = TreeMeaning(arguments[t]) /\ r # NoCall /\ HashMeaning(arguments[t]) = NoCall
    BY <1>2, Finds, OneMeaning
  <1>4. /\ UNCHANGED <<treeStore, treeReply, treeAborted>>
        /\ \A u \in Threads \ {t} : treeCall'[u] = treeCall[u]
        /\ treeCall' \in [Threads -> Requests \cup {NoCall}] /\ r \in Requests
    BY <1>0, SameWords DEF TypeOK, Tree!Invoke
  <1>5. TypeOK' /\ ConnectionInv' /\ AnswerInv'
    BY <1>0, <1>1, <1>4 DEF TypeOK, ConnectionInv, AnswerInv, hashVars, connectionVars
  <1>6. TableInv'
    BY <1>0, <1>1 DEF TableInv, commandsVars
  <1>7. ServingInv'
    BY <1>0, <1>1 DEF ServingInv, connectionVars
  <1>8. CallsInv'
    <2>1. treeCall[t] = NoCall /\ hashCall[t] = NoCall
      BY <1>0, <1>1 DEF CallsInv
    <2> QED
      BY <1>0, <1>1, <1>3, <1>4, <2>1 DEF CallsInv, hashVars
  <1> QED
    BY <1>1, <1>3, <1>4, <1>5, <1>6, <1>7, <1>8 DEF IInv

\* A call takes effect once, and in a worker that is in a callback.
LEMMA TreeEffects ==
    ASSUME IInv, NEW t \in Threads, TreeEffect(t)
    PROVE  /\ pc[t] = "call" /\ treeCall[t] = TreeMeaning(arguments[t]) /\ treeCall[t] # NoCall
           /\ treeReply[t] = NoReply /\ treeReply'[t] \in Replies
           /\ \A u \in Threads \ {t} : treeReply'[u] = treeReply[u]
           /\ treeReply' \in [Threads -> Replies \cup {NoReply}]
           /\ treeStore' \in [Keys -> Values \cup {NotFound}]
           /\ UNCHANGED <<treeCall, treeAborted>>
  <1>0. TypeOK /\ CallsInv
    BY DEF IInv
  <1> DEFINE q == treeCall[t]
  <1>1. q.op \in {"get", "set", "del", "foreach"} /\ q \in Requests \cup {NoCall}
    BY <1>0 DEF TypeOK, TreeEffect, Tree!Get, Tree!Set, Tree!Del, Tree!Foreach
  <1>2. q # NoCall
    BY <1>1 DEF NoCall
  <1>3. pc[t] = "call" /\ q = TreeMeaning(arguments[t])
    BY <1>0, <1>2 DEF CallsInv
  <1>4. q.op = "set" => q.value \in Values
    BY <1>1, <1>2 DEF Requests
  <1>5. ASSUME NEW s, NEW x, Tree!Effect(t, s, x), x \in Replies
        PROVE  /\ treeReply[t] = NoReply /\ treeReply'[t] = x /\ treeStore' = s
               /\ \A u \in Threads \ {t} : treeReply'[u] = treeReply[u]
               /\ treeReply' \in [Threads -> Replies \cup {NoReply}]
               /\ UNCHANGED <<treeCall, treeAborted>>
    BY <1>0, <1>5, SameWords DEF TypeOK, Tree!Effect
  <1>6. /\ REPLY_FALSE \in Replies /\ REPLY_TRUE \in Replies /\ REPLY_NIL \in Replies
        /\ REPLY_OK \in Replies /\ REPLY_ERROR \in Replies
        /\ Tree!REPLY_FALSE = REPLY_FALSE /\ Tree!REPLY_TRUE = REPLY_TRUE /\ Tree!REPLY_NIL = REPLY_NIL
        /\ Tree!REPLY_OK = REPLY_OK /\ Tree!REPLY_ERROR = REPLY_ERROR
    BY DEF Replies, Tree!REPLY_FALSE, Tree!REPLY_TRUE, Tree!REPLY_NIL, Tree!REPLY_OK, Tree!REPLY_ERROR,
           REPLY_FALSE, REPLY_TRUE, REPLY_NIL, REPLY_OK, REPLY_ERROR
  <1> DEFINE Done == /\ treeReply[t] = NoReply /\ treeReply'[t] \in Replies
                     /\ \A u \in Threads \ {t} : treeReply'[u] = treeReply[u]
                     /\ treeReply' \in [Threads -> Replies \cup {NoReply}]
                     /\ treeStore' \in [Keys -> Values \cup {NotFound}]
                     /\ UNCHANGED <<treeCall, treeAborted>>
  <1>7. ASSUME NEW s, NEW x, Tree!Effect(t, s, x), x \in Replies, s \in [Keys -> Values \cup {NotFound}]
        PROVE  Done
    BY <1>5, <1>7
  <1> HIDE DEF Done
  <1>8. ASSUME Tree!Get(t) PROVE Done
    <2> DEFINE v == treeStore[q.key]
               x == IF v = NotFound THEN Tree!REPLY_NIL ELSE Tree!toReplyString(v)
    <2>1. Tree!Effect(t, treeStore, x) /\ q.op = "get"
      BY <1>8 DEF Tree!Get
    <2>2. q.key \in Keys
      BY <1>1, <1>2, <2>1 DEF Requests
    <2>3. treeStore \in [Keys -> Values \cup {NotFound}]
      BY <1>0 DEF TypeOK
    <2>4. x \in Replies
      BY <1>6, <2>2, <2>3 DEF Replies, Tree!toReplyString, toReplyString
    <2> HIDE DEF x
    <2> QED
      BY <1>7, <2>1, <2>3, <2>4
  <1>9. ASSUME Tree!Set(t) PROVE Done
    <2>1. q.op = "set" /\ Tree!Effect(t, [treeStore EXCEPT ![q.key] = q.value], Tree!REPLY_OK)
      BY <1>9 DEF Tree!Set
    <2>2. [treeStore EXCEPT ![q.key] = q.value] \in [Keys -> Values \cup {NotFound}]
      BY <1>0, <1>4, <2>1 DEF TypeOK
    <2> QED
      BY <1>6, <1>7, <2>1, <2>2
  <1>10. ASSUME Tree!Del(t) PROVE Done
    <2> DEFINE x == IF treeStore[q.key] = NotFound THEN Tree!REPLY_FALSE ELSE Tree!REPLY_TRUE
    <2>1. Tree!Effect(t, [treeStore EXCEPT ![q.key] = NotFound], x)
      BY <1>10 DEF Tree!Del
    <2>2. [treeStore EXCEPT ![q.key] = NotFound] \in [Keys -> Values \cup {NotFound}]
      BY <1>0 DEF TypeOK
    <2>3. x \in Replies
      BY <1>6
    <2> HIDE DEF x
    <2> QED
      BY <1>7, <2>1, <2>2, <2>3
  <1>11. ASSUME Tree!Foreach(t) PROVE Done
    <2>1. PICK s \in [Keys -> Values \cup {NotFound}], x \in {Tree!REPLY_ERROR, Tree!REPLY_TRUE} :
             Tree!Effect(t, s, x)
      <3>1. treeStore \in [Keys -> Values \cup {NotFound}]
        BY <1>0 DEF TypeOK
      <3> QED
        BY <1>11, <3>1 DEF Tree!Foreach
    <2> QED
      BY <1>6, <1>7, <2>1
  <1>12. Done
    BY <1>8, <1>9, <1>10, <1>11 DEF TreeEffect
  <1> QED
    BY <1>2, <1>3, <1>12 DEF Done

\* The AVL tree is used by one callback after another, and never by two
\* callbacks for one request.
LEMMA TreeStep ==
    ASSUME IInv, NEW t \in Threads, treeCallback(t)
    PROVE  IInv'
  <1>0. TypeOK /\ TableInv /\ CallsInv /\ ServingInv /\ ConnectionInv /\ AnswerInv
    BY DEF IInv
  <1>1. ASSUME NEW r \in DbCalls(t, Callback(t).method), Tree!Invoke(t), treeCall'[t] = r,
               Step(t, "find", "call"), Callback(t).object = "tree",
               UNCHANGED <<hashVars, arguments, session, commandsVars, connectionVars>>
        PROVE  IInv'
    BY <1>1, TreeInvoke
  <1>2. CASE TreeEffect(t) /\ UNCHANGED <<hashVars, workerVars, connectionVars>>
    <2>1. TypeOK'
      BY <1>0, <1>2, TreeEffects DEF TypeOK, hashVars, workerVars, connectionVars
    <2>2. TableInv' /\ ServingInv' /\ ConnectionInv' /\ AnswerInv'
      BY <1>0, <1>2 DEF TableInv, ServingInv, ConnectionInv, AnswerInv, workerVars, commandsVars, connectionVars
    <2>3. CallsInv'
      BY <1>0, <1>2, TreeEffects DEF CallsInv, hashVars, workerVars
    <2> QED
      BY <2>1, <2>2, <2>3 DEF IInv
  <1>3. CASE Tree!Abort(t) /\ UNCHANGED <<hashVars, workerVars, connectionVars>>
    <2>1. UNCHANGED <<treeStore, treeCall, treeReply>>
      BY <1>3 DEF Tree!Abort
    <2>2. TypeOK' /\ CallsInv'
      BY <1>0, <1>3, <2>1 DEF TypeOK, CallsInv, hashVars, workerVars, connectionVars
    <2>3. TableInv' /\ ServingInv' /\ ConnectionInv' /\ AnswerInv'
      BY <1>0, <1>3 DEF TableInv, ServingInv, ConnectionInv, AnswerInv, workerVars, commandsVars, connectionVars
    <2> QED
      BY <2>2, <2>3 DEF IInv
  <1>4. CASE Tree!Respond(t) /\ finishCallback(t, treeReply[t]) /\ UNCHANGED hashVars
    <2>1. /\ treeReply[t] # NoReply /\ treeCall'[t] = NoCall /\ treeReply'[t] = NoReply
          /\ \A u \in Threads \ {t} : treeCall'[u] = treeCall[u] /\ treeReply'[u] = treeReply[u]
          /\ treeStore' = treeStore
          /\ treeCall' \in [Threads -> Requests \cup {NoCall}]
          /\ treeReply' \in [Threads -> Replies \cup {NoReply}]
      BY <1>0, <1>4, SameWords DEF TypeOK, Tree!Respond
    <2>2. treeCall[t] # NoCall /\ pc[t] = "call" /\ treeCall[t] = TreeMeaning(arguments[t])
      BY <1>0, <2>1 DEF CallsInv
    <2>3. hashCall[t] = NoCall
      BY <1>0, <2>2, Serving, OneMeaning DEF CallsInv
    <2>4. DbTypeOK'
      BY <1>0, <1>4, <2>1 DEF TypeOK, DbTypeOK, hashVars
    <2>5. treeReply[t] \in Replies
      BY <1>0, <2>1 DEF TypeOK
    <2>6. TypeOK' /\ TableInv' /\ ServingInv' /\ ConnectionInv' /\ AnswerInv'
      BY <1>4, <2>1, <2>2, <2>4, <2>5, FinishStep
    <2>7. CallsInv'
      <3>1. /\ pc'[t] = "idle"
            /\ \A u \in Threads \ {t} : pc'[u] = pc[u] /\ arguments'[u] = arguments[u]
        BY <1>0, <1>4 DEF TypeOK, finishCallback
      <3> QED
        BY <1>0, <1>4, <2>1, <2>3, <3>1 DEF CallsInv, hashVars
    <2> QED
      BY <2>6, <2>7 DEF IInv
  <1> QED
    BY <1>1, <1>2, <1>3, <1>4 DEF treeCallback, TreeEffect

\* IInv is inductive.
LEMMA Inductive == IInv /\ [Next]_vars => IInv'
  <1> SUFFICES ASSUME IInv, [Next]_vars PROVE IInv'
    OBVIOUS
  <1>1. ASSUME NEW t \in Threads, executeCommand(t) PROVE IInv'
    BY <1>1, TableStep, GenericStep, HashStep, TreeStep DEF executeCommand
  <1>2. ASSUME NEW c \in Connections, handleRead(c) \/ handleWrite(c) PROVE IInv'
    BY <1>2, SessionStep
  <1>3. ASSUME NEW c \in Connections, connect(c) \/ send(c) \/ receive(c) \/ disconnect(c) PROVE IInv'
    BY <1>3, ClientStep
  <1>4. CASE UNCHANGED vars
    <2> USE <1>4 DEF vars, hashVars, treeVars, workerVars, commandsVars, connectionVars
    <2>1. TypeOK'
      BY DEF IInv, TypeOK
    <2>2. TableInv' /\ CallsInv'
      BY DEF IInv, TableInv, CallsInv
    <2>3. ServingInv' /\ ConnectionInv' /\ AnswerInv'
      BY DEF IInv, ServingInv, ConnectionInv, AnswerInv
    <2> QED
      BY <2>1, <2>2, <2>3 DEF IInv
  <1> QED
    BY <1>1, <1>2, <1>3, <1>4 DEF Next

\* Every state of the server is one IInv describes: one worker builds the table
\* of commands and all find it whole, a worker is in the call its client's
\* request means, and a request is in one place (commandhandler.cpp:177-196).
THEOREM Invariance == Spec => []IInv
  BY InitIInv, Inductive, PTL DEF Spec

\* A worker serves a session of its own and executes what that session's client
\* sent; no two workers serve one session (session.cpp:50-61).
THEOREM OneSessionPerWorker == Spec => []ServingInv
  <1>1. IInv => ServingInv
    BY DEF IInv
  <1> QED
    BY <1>1, Invariance, PTL

\* Requests for no database are answered as documented, from the first one on
\* (commands.cpp:43-100, singleton.h:13).
THEOREM GenericRequests == Spec => []GenericAnswers
  <1>1. IInv => GenericAnswers
    <2> SUFFICES ASSUME IInv, NEW c \in Connections, answer[c] # NoReply
                 PROVE  GenericAnswers!(c)!2
      BY DEF GenericAnswers
    <2> DEFINE r == request[c]
    <2>1. r \in ClientRequests
      BY DEF IInv, TypeOK, ConnectionInv
    <2>2. r \in Seq(STRING) /\ Len(r) \in Nat \ {0}
      BY <2>1, OneMeaning
    <2>3. /\ r = <<"PING">> => r[1] = "PING"
          /\ r = <<"COMMANDS">> => r[1] = "COMMANDS"
          /\ r = <<"VERSION", "VERBOSE">> => r[1] = "VERSION"
      OBVIOUS
    <2>a. /\ REPLY_NOT_IMPLEMENTED[1] = "not implemented" /\ REPLY_PONG[1] = "PONG"
          /\ REPLY_MALFORMED[1] = "malformed number of arguments"
      BY DEF REPLY_NOT_IMPLEMENTED, REPLY_PONG, REPLY_MALFORMED
    <2> HIDE DEF r
    <2>4. CASE HashMeaning(r) # NoCall \/ TreeMeaning(r) # NoCall
      <3>1. answer[c] \in Replies
        BY <2>4 DEF IInv, AnswerInv, r
      <3>2. r[1] \in {"HGET", "HSET", "HDEL", "HFOR", "ATGET", "ATSET", "ATDEL", "ATFOR"}
        BY <2>1, <2>4, OneMeaning
      <3> QED
        BY <2>3, <3>1, <3>2, DistinctReplies DEF Names, r
    <2>5. CASE HashMeaning(r) = NoCall /\ TreeMeaning(r) = NoCall
      <3>1. answer[c] = GenericAnswer(r)
        BY <2>5 DEF IInv, AnswerInv, r
      <3>2. CASE r[1] \notin Names
        <4>1. answer[c] = REPLY_NOT_IMPLEMENTED
          BY <3>1, <3>2 DEF GenericAnswer, Names
        <4> QED
          BY <2>a, <2>3, <3>2, <4>1 DEF Names, r
      <3>3. CASE r[1] = "VERSION"
        <4>1. answer[c] = versionString(r = <<"VERSION", "VERBOSE">>)
          BY <3>1, <3>3 DEF GenericAnswer, Names
        <4>2. answer[c][1] = "version"
          BY <4>1 DEF versionString
        <4> QED
          BY <2>a, <2>3, <3>3, <4>1, <4>2 DEF Names, r
      <3>4. CASE r = <<"PING">>
        <4>1. answer[c] = REPLY_PONG
          BY <2>3, <3>1, <3>4 DEF GenericAnswer, Names
        <4> QED
          BY <2>a, <2>3, <3>4, <4>1 DEF Names, r
      <3>5. CASE r = <<"COMMANDS">>
        <4>1. answer[c] = <<"list", Names>>
          BY <2>3, <3>1, <3>5 DEF GenericAnswer, Names
        <4>2. answer[c][1] = "list"
          BY <4>1
        <4> QED
          BY <2>a, <2>3, <3>5, <4>1, <4>2 DEF Names, r
      <3>6. CASE r[1] \in Names \ {"VERSION"} /\ r # <<"PING">> /\ r # <<"COMMANDS">>
        <4>1. answer[c] = REPLY_MALFORMED
          BY <3>1, <3>6 DEF GenericAnswer, Names
        <4> QED
          BY <2>a, <3>6, <4>1 DEF Names, r
      <3> QED
        BY <3>2, <3>3, <3>4, <3>5, <3>6
    <2> QED
      BY <2>4, <2>5
  <1> QED
    BY <1>1, Invariance, PTL

----------------------------------------------------------------------------
(* What each step of the server is to its clients.                         *)

\* The step neither starts nor ends a call of d, nor moves its reply.
Undisturbed(d) ==
    /\ Calling(d)' <=> Calling(d)
    /\ answer'[d] = answer[d]
    /\ Underway(d) => request'[d] = request[d]
    /\ Calling(d) => service'[d] = service[d]

\* What a worker does disturbs the connection it serves and no other.
LEMMA OthersUndisturbed ==
    ASSUME IInv, NEW t \in Threads, executeCommand(t),
           NEW d \in Connections, d # session[t]
    PROVE  /\ Undisturbed(d)
           /\ Calling(d) => service[d] # t /\ service[d] \in Threads
  <1>0. TypeOK /\ ServingInv /\ CallsInv
    BY DEF IInv
  <1>1. pc[t] # "idle"
    BY <1>0, HashEffects, TreeEffects
       DEF CallsInv, executeCommand, TheCommands, instance, addGenericCommands, addDbCommands, Step,
           genericCallback, hashCallback, treeCallback, HashEffect, TreeEffect, Hash!Respond, Tree!Respond,
           Hash!Abort, Tree!Abort, NoCall, Hash!NoReply, Tree!NoReply, NoReply
  <1>2. op[d] = "execute" => service[d] # t
    BY <1>1, Serving
  <1>3. session[t] \in Connections
    BY <1>1, Serving
  <1>4. op'[d] = op[d] /\ answer'[d] = answer[d] /\ request'[d] = request[d] /\ service'[d] = service[d]
    <2>1. answer = [c \in Connections |-> answer[c]]
      BY <1>0 DEF TypeOK
    <2>2. CASE connectionVars' = connectionVars
      BY <2>2 DEF connectionVars
    <2>3. ASSUME NEW r, finishCallback(t, r)
          PROVE  op'[d] = op[d] /\ answer'[d] = answer[d] /\ request'[d] = request[d] /\ service'[d] = service[d]
      BY <1>0, <1>3, <2>1, <2>3 DEF finishCallback, TypeOK
    <2> QED
      BY <2>2, <2>3 DEF executeCommand, TheCommands, genericCallback, hashCallback, treeCallback
  <1>5. \A u \in Threads \ {t} : pc'[u] = pc[u]
    BY <1>0 DEF TypeOK, executeCommand, TheCommands, instance, addGenericCommands, addDbCommands, Step,
                genericCallback, hashCallback, treeCallback, finishCallback, workerVars
  <1>6. service[d] \in Threads
    BY <1>0 DEF TypeOK
  <1>7. Calling(d)' <=> Calling(d)
    BY <1>2, <1>4, <1>5, <1>6 DEF Calling
  <1> QED
    BY <1>2, <1>4, <1>6, <1>7 DEF Undisturbed, Calling

\* A session that reads or writes, and a client that connects or sends, is in no
\* call; a client that loses its connection without a reply changes nothing.
LEMMA AllUndisturbed ==
    ASSUME IInv, NEW c \in Connections,
           \/ handleRead(c) \/ handleWrite(c) \/ connect(c) \/ send(c)
           \/ disconnect(c) /\ answer[c] = NoReply,
           NEW d \in Connections
    PROVE  Undisturbed(d)
  <1>0. TypeOK /\ ServingInv /\ ConnectionInv
    BY DEF IInv
  <1>1. CASE connect(c) \/ send(c)
    <2>1. /\ ~Calling(c) /\ answer[c] = NoReply /\ op'[c] # "execute"
          /\ UNCHANGED <<pc, answer>>
      BY <1>0, <1>1 DEF TypeOK, ConnectionInv, connect, send, Calling, workerVars
    <2>2. d # c => op'[d] = op[d] /\ request'[d] = request[d] /\ service'[d] = service[d]
      BY <1>0, <1>1 DEF TypeOK, connect, send
    <2> QED
      BY <2>1, <2>2 DEF Undisturbed, Calling, Underway
  <1>2. CASE disconnect(c) /\ answer[c] = NoReply
    <2>1. UNCHANGED <<pc, service, op, request>> /\ answer'[d] = answer[d]
      <3>1. answer = [e \in Connections |-> answer[e]]
        BY <1>0 DEF TypeOK
      <3> QED
        BY <1>2, <3>1 DEF disconnect, workerVars
    <2> QED
      BY <2>1 DEF Undisturbed, Calling
  <1>3. CASE handleRead(c) \/ handleWrite(c)
    <2>1. /\ op[c] # "execute" /\ pc[service[c]] = "idle" /\ service[c] \in Threads
          /\ UNCHANGED <<service, client, answer>>
      BY <1>0, <1>3 DEF TypeOK, handleRead, handleWrite
    <2>2. /\ \A e \in Connections \ {c} : op'[e] = op[e] /\ request'[e] = request[e]
          /\ \A u \in Threads \ {service[c]} : pc'[u] = pc[u]
          /\ pc'[service[c]] \in {"idle", "instance"}
      BY <1>0, <1>3, <2>1 DEF TypeOK, handleRead, handleWrite, Delete
    <2>3. request'[c] = request[c] \/ answer[c] = NoReply
      BY <1>0, <1>3 DEF ConnectionInv, handleRead, handleWrite, Delete
    <2>4. service[d] \in Threads
      BY <1>0 DEF TypeOK
    <2>5. Calling(d)' <=> Calling(d)
      BY <2>1, <2>2, <2>4 DEF Calling
    <2>6. Underway(d) => request'[d] = request[d]
      BY <2>1, <2>2, <2>3 DEF Underway, Calling
    <2> QED
      BY <2>1, <2>5, <2>6 DEF Undisturbed
  <1> QED
    BY <1>1, <1>2, <1>3

----------------------------------------------------------------------------
(* The clients of the hash table.                                          *)

\* What the clients of the hash table see of a connection.
LEMMA HashView ==
    /\ \A c \in Connections :
          /\ HashCalls[c] = IF Underway(c) THEN HashMeaning(request[c]) ELSE NoCall
          /\ HashReplies[c] = IF HashCalls[c] = NoCall THEN NoReply
                              ELSE IF Calling(c) THEN hashReply[service[c]] ELSE answer[c]
    /\ \A c \in Connections :
          /\ HashCalls'[c] = IF Underway(c)' THEN HashMeaning(request'[c]) ELSE NoCall
          /\ HashReplies'[c] = IF HashCalls'[c] = NoCall THEN NoReply
                               ELSE IF Calling(c)' THEN hashReply'[service'[c]] ELSE answer'[c]
  <1>1. \A c \in Connections :
          /\ HashCalls[c] = IF Underway(c) THEN HashMeaning(request[c]) ELSE NoCall
          /\ HashReplies[c] = IF HashCalls[c] = NoCall THEN NoReply
                              ELSE IF Calling(c) THEN hashReply[service[c]] ELSE answer[c]
    BY DEF HashCalls, HashReplies, HashCallOf, ReplyOf
  <1>2. \A c \in Connections :
          /\ HashCalls'[c] = IF Underway(c)' THEN HashMeaning(request'[c]) ELSE NoCall
          /\ HashReplies'[c] = IF HashCalls'[c] = NoCall THEN NoReply
                               ELSE IF Calling(c)' THEN hashReply'[service'[c]] ELSE answer'[c]
    BY DEF HashCalls, HashReplies, HashCallOf, ReplyOf
  <1> QED
    BY <1>1, <1>2

\* A connection the step does not disturb looks the same to its client.
LEMMA HashUndisturbed ==
    ASSUME NEW d \in Connections, Undisturbed(d),
           Calling(d) => hashReply'[service[d]] = hashReply[service[d]]
    PROVE  HashCalls'[d] = HashCalls[d] /\ HashReplies'[d] = HashReplies[d]
  <1>1. Underway(d)' <=> Underway(d)
    BY DEF Undisturbed, Underway
  <1>2. HashCalls'[d] = HashCalls[d]
    BY <1>1, HashView DEF Undisturbed
  <1>3. CASE HashCalls[d] = NoCall
    BY <1>2, <1>3, HashView
  <1>4. CASE HashCalls[d] # NoCall /\ Calling(d)
    BY <1>2, <1>4, HashView DEF Undisturbed
  <1>5. CASE HashCalls[d] # NoCall /\ ~Calling(d)
    BY <1>2, <1>5, HashView DEF Undisturbed
  <1> QED
    BY <1>2, <1>3, <1>4, <1>5

\* Only c is seen to change.
LEMMA HashOne ==
    ASSUME NEW c \in Connections,
           \A d \in Connections \ {c} : HashCalls'[d] = HashCalls[d] /\ HashReplies'[d] = HashReplies[d]
    PROVE  /\ HashCalls' = [HashCalls EXCEPT ![c] = HashCalls'[c]]
           /\ HashReplies' = [HashReplies EXCEPT ![c] = HashReplies'[c]]
           /\ HashCalls'[c] = HashCalls[c] => HashCalls' = HashCalls
           /\ HashReplies'[c] = HashReplies[c] => HashReplies' = HashReplies
  <1>1. /\ HashCalls = [d \in Connections |-> HashCalls[d]]
        /\ HashReplies = [d \in Connections |-> HashReplies[d]]
    BY DEF HashCalls, HashReplies
  <1>2. /\ HashCalls' = [d \in Connections |-> HashCalls'[d]]
        /\ HashReplies' = [d \in Connections |-> HashReplies'[d]]
    BY DEF HashCalls, HashReplies
  <1> QED
    BY <1>1, <1>2

\* A step that nobody sees.
LEMMA HashUnseen ==
    ASSUME \A d \in Connections : HashCalls'[d] = HashCalls[d] /\ HashReplies'[d] = HashReplies[d],
           UNCHANGED <<hashStore, hashAborted>>
    PROVE  UNCHANGED HashClients!vars
  <1>1. /\ HashCalls = [d \in Connections |-> HashCalls[d]]
        /\ HashReplies = [d \in Connections |-> HashReplies[d]]
    BY DEF HashCalls, HashReplies
  <1>2. /\ HashCalls' = [d \in Connections |-> HashCalls'[d]]
        /\ HashReplies' = [d \in Connections |-> HashReplies'[d]]
    BY DEF HashCalls, HashReplies
  <1> QED
    BY <1>1, <1>2 DEF HashClients!vars

\* A client is done with its request: with the reply, or because the connection
\* is lost.
LEMMA HashReceive ==
    ASSUME IInv, ~hashAborted, NEW c \in Connections, answer[c] # NoReply, receive(c) \/ disconnect(c)
    PROVE  [HashClients!Next]_(HashClients!vars)
  <1>0. TypeOK /\ ConnectionInv
    BY DEF IInv
  <1>1. /\ op[c] # "execute" /\ answer'[c] = NoReply /\ UNCHANGED <<op, pc, service>>
        /\ UNCHANGED <<hashStore, hashReply, hashAborted>>
        /\ \A d \in Connections \ {c} : answer'[d] = answer[d] /\ request'[d] = request[d]
    <2>1. answer = [e \in Connections |-> answer[e]]
      BY <1>0 DEF TypeOK
    <2> QED
      BY <1>0, <2>1 DEF TypeOK, ConnectionInv, receive, disconnect, hashVars, workerVars
  <1>2. ~Calling(c) /\ ~Calling(c)' /\ Underway(c) /\ ~Underway(c)'
    BY <1>1 DEF Calling, Underway
  <1>3. \A d \in Connections \ {c} : HashCalls'[d] = HashCalls[d] /\ HashReplies'[d] = HashReplies[d]
    <2>1. ASSUME NEW d \in Connections \ {c} PROVE Undisturbed(d)
      BY <1>1 DEF Undisturbed, Calling
    <2> QED
      BY <1>1, <2>1, HashUndisturbed
  <1>4. /\ HashCalls'[c] = NoCall /\ HashReplies'[c] = NoReply
        /\ HashReplies[c] = IF HashCalls[c] = NoCall THEN NoReply ELSE answer[c]
    BY <1>2, HashView
  <1>5. CASE HashCalls[c] = NoCall
    BY <1>1, <1>3, <1>4, <1>5, HashUnseen
  <1>6. CASE HashCalls[c] # NoCall
    <2>1. HashClients!Respond(c)
      BY <1>1, <1>3, <1>4, <1>6, HashOne, SameWords DEF HashClients!Respond
    <2> QED
      BY <2>1 DEF HashClients!Next
  <1> QED
    BY <1>5, <1>6

\* A command that is not one of the hash table's leaves that table alone.
LEMMA HashElsewhere ==
    ASSUME IInv, NEW t \in Threads, TheCommands(t) \/ genericCallback(t) \/ treeCallback(t)
    PROVE  UNCHANGED HashClients!vars
  <1>c. PICK c : c = session[t]
    OBVIOUS
  <1>0. TypeOK /\ CallsInv /\ TableInv /\ UNCHANGED <<hashStore, hashReply, hashAborted>>
    BY DEF IInv, TheCommands, genericCallback, treeCallback, hashVars
  <1>1. executeCommand(t)
    BY DEF executeCommand
  <1>2. \A d \in Connections \ {c} : HashCalls'[d] = HashCalls[d] /\ HashReplies'[d] = HashReplies[d]
    BY <1>0, <1>1, <1>c, OthersUndisturbed, HashUndisturbed
  <1>3. ASSUME c \in Connections PROVE HashCalls'[c] = HashCalls[c] /\ HashReplies'[c] = HashReplies[c]
    <2>1. CASE TheCommands(t)
      <3>1. pc[t] # "call" /\ pc'[t] # "call" /\ service[c] = t /\ UNCHANGED <<op, service, answer, request>>
        <4>1. pc[t] \notin {"idle", "call"} /\ pc'[t] # "call" /\ UNCHANGED <<op, service, answer, request>>
          BY <1>0, <2>1 DEF TypeOK, connectionVars, TheCommands, instance, addGenericCommands, addDbCommands, Step
        <4> QED
          BY <1>c, <4>1, Serving
      <3>2. Undisturbed(c) /\ ~Calling(c)
        BY <3>1 DEF Undisturbed, Calling
      <3> QED
        BY <1>3, <3>2, HashUndisturbed
    <2>2. ASSUME HashMeaning(request[c]) = NoCall, request'[c] = request[c]
          PROVE  HashCalls'[c] = HashCalls[c] /\ HashReplies'[c] = HashReplies[c]
      <3>1. HashCalls'[c] = NoCall /\ HashCalls[c] = NoCall
        BY <1>3, <2>2, HashView
      <3> QED
        BY <1>3, <3>1, HashView
    <2>3. CASE genericCallback(t)
      <3>1. pc[t] = "find" /\ Callback(t).object \notin {"hash", "tree"} /\ request' = request
        BY <2>3 DEF genericCallback, finishCallback
      <3>2. arguments[t] = request[c] /\ arguments[t] \in ClientRequests
        BY <1>c, <3>1, Serving
      <3>3. m_commands = Add(DbCommands, Add(GenericCommands, <<>>))
        BY <1>0, <3>1 DEF TableInv
      <3> QED
        BY <2>2, <3>1, <3>2, <3>3, Finds
    <2>4. CASE treeCallback(t)
      <3>1. CASE UNCHANGED <<workerVars, connectionVars>>
        <4>1. Undisturbed(c)
          BY <3>1 DEF Undisturbed, Calling, workerVars, connectionVars
        <4> QED
          BY <1>0, <1>3, <4>1, HashUndisturbed
      <3>2. ASSUME Step(t, "find", "call"), Callback(t).object = "tree", UNCHANGED connectionVars
            PROVE  HashCalls'[c] = HashCalls[c] /\ HashReplies'[c] = HashReplies[c]
        <4>1. arguments[t] = request[c] /\ arguments[t] \in ClientRequests
          BY <1>c, <3>2, Serving DEF Step
        <4>2. m_commands = Add(DbCommands, Add(GenericCommands, <<>>))
          BY <1>0, <3>2 DEF TableInv, Step
        <4>3. TreeMeaning(arguments[t]) # NoCall
          BY <3>2, <4>1, <4>2, Finds
        <4>4. request'[c] = request[c]
          BY <3>2 DEF connectionVars
        <4> QED
          BY <2>2, <4>1, <4>3, <4>4, OneMeaning
      <3>3. CASE Tree!Respond(t) /\ finishCallback(t, treeReply[t])
        <4>1. treeCall[t] # NoCall
          BY <1>0, <3>3, SameWords DEF CallsInv, Tree!Respond
        <4>2. pc[t] = "call" /\ TreeMeaning(arguments[t]) # NoCall
          BY <1>0, <4>1 DEF CallsInv
        <4>3. arguments[t] = request[c] /\ arguments[t] \in ClientRequests /\ request'[c] = request[c]
          BY <1>c, <3>3, <4>2, Serving DEF finishCallback
        <4> QED
          BY <2>2, <4>2, <4>3, OneMeaning
      <3> QED
        BY <2>4, <3>1, <3>2, <3>3 DEF treeCallback
    <2> QED
      BY <2>1, <2>3, <2>4
  <1> QED
    BY <1>0, <1>2, <1>3, HashUnseen

\* A call takes effect for the client whose request it is, in its own call.
LEMMA HashEffectRefines ==
    ASSUME IInv, ~hashAborted, NEW t \in Threads, HashEffect(t) \/ Hash!Abort(t),
           UNCHANGED <<treeVars, workerVars, connectionVars>>
    PROVE  HashClients!Next
  <1>c. PICK c : c = session[t]
    OBVIOUS
  <1>0. TypeOK /\ CallsInv
    BY DEF IInv
  <1>1. hashCall[t] # NoCall /\ hashReply[t] = NoReply /\ hashCall' = hashCall
    <2>1. CASE HashEffect(t)
      BY <2>1, HashEffects
    <2>2. CASE Hash!Abort(t)
      BY <2>2, SameWords DEF Hash!Abort, NoCall
    <2> QED
      BY <2>1, <2>2
  <1>2. pc[t] = "call" /\ hashCall[t] = HashMeaning(arguments[t])
    BY <1>0, <1>1 DEF CallsInv
  <1>3. c \in Connections /\ service[c] = t /\ op[c] = "execute" /\ arguments[t] = request[c]
    BY <1>c, <1>2, Serving
  <1>4. Calling(c) /\ Calling(c)' /\ Underway(c) /\ Underway(c)' /\ service'[c] = t /\ request'[c] = request[c]
    BY <1>2, <1>3 DEF Calling, Underway, workerVars, connectionVars
  <1>5. /\ HashCalls[c] = hashCall[t] /\ HashCalls'[c] = HashCalls[c]
        /\ HashReplies[c] = NoReply /\ HashReplies'[c] = hashReply'[t]
    <2>1. HashCalls[c] = hashCall[t] /\ HashCalls'[c] = HashCalls[c]
      BY <1>2, <1>3, <1>4, HashView
    <2> QED
      BY <1>1, <1>3, <1>4, <2>1, HashView
  <1>6. \A d \in Connections \ {c} : HashCalls'[d] = HashCalls[d] /\ HashReplies'[d] = HashReplies[d]
    <2>1. executeCommand(t)
      BY DEF executeCommand, hashCallback, HashEffect
    <2>2. \A u \in Threads \ {t} : hashReply'[u] = hashReply[u]
      BY HashEffects DEF Hash!Abort
    <2> QED
      BY <2>1, <2>2, <1>c, OthersUndisturbed, HashUndisturbed
  <1>7. HashCalls' = HashCalls /\ HashReplies' = [HashReplies EXCEPT ![c] = hashReply'[t]]
    BY <1>3, <1>5, <1>6, HashOne
  <1>8. ASSUME NEW s, NEW x, Hash!Effect(t, s, x) PROVE HashClients!Effect(c, s, x)
    <2>1. hashStore' = s /\ hashReply'[t] = x /\ hashAborted' = hashAborted
      BY <1>0, <1>8 DEF Hash!Effect, TypeOK
    <2> QED
      BY <1>5, <1>7, <2>1, SameWords DEF HashClients!Effect
  <1>9. /\ HashClients!REPLY_FALSE = Hash!REPLY_FALSE /\ HashClients!REPLY_TRUE = Hash!REPLY_TRUE
        /\ HashClients!REPLY_NIL = Hash!REPLY_NIL /\ HashClients!REPLY_OK = Hash!REPLY_OK
        /\ HashClients!REPLY_ERROR = Hash!REPLY_ERROR
        /\ \A v : HashClients!toReplyString(v) = Hash!toReplyString(v)
    BY DEF HashClients!REPLY_FALSE, Hash!REPLY_FALSE, HashClients!REPLY_TRUE, Hash!REPLY_TRUE,
           HashClients!REPLY_NIL, Hash!REPLY_NIL, HashClients!REPLY_OK, Hash!REPLY_OK,
           HashClients!REPLY_ERROR, Hash!REPLY_ERROR, HashClients!toReplyString, Hash!toReplyString
  <1>10. CASE Hash!Get(t)
    <2>1. HashClients!Get(c)
      BY <1>5, <1>8, <1>9, <1>10 DEF Hash!Get, HashClients!Get
    <2> QED
      BY <1>3, <2>1 DEF HashClients!Next
  <1>11. CASE Hash!Set(t)
    <2>1. HashClients!Set(c)
      BY <1>5, <1>8, <1>9, <1>11 DEF Hash!Set, HashClients!Set
    <2> QED
      BY <1>3, <2>1 DEF HashClients!Next
  <1>12. CASE Hash!Del(t)
    <2>1. HashClients!Del(c)
      BY <1>5, <1>8, <1>9, <1>12 DEF Hash!Del, HashClients!Del
    <2> QED
      BY <1>3, <2>1 DEF HashClients!Next
  <1>13. CASE Hash!Foreach(t)
    <2>1. \A script, done, s : Hash!Applied(script, done, s) <=> HashClients!Applied(script, done, s)
      BY DEF Hash!Applied, HashClients!Applied
    <2>2. HashClients!Foreach(c)
      BY <1>5, <1>8, <1>9, <1>13, <2>1 DEF Hash!Foreach, HashClients!Foreach
    <2> QED
      BY <1>3, <2>2 DEF HashClients!Next
  <1>14. CASE Hash!Abort(t)
    <2>1. HashReplies' = HashReplies
      <3>1. HashReplies'[c] = HashReplies[c]
        BY <1>1, <1>5, <1>14 DEF Hash!Abort
      <3> QED
        BY <1>3, <1>6, <3>1, HashOne
    <2>2. HashClients!Abort(c)
      BY <1>1, <1>5, <1>7, <1>14, <2>1, SameWords DEF Hash!Abort, HashClients!Abort
    <2> QED
      BY <1>3, <2>2 DEF HashClients!Next
  <1> QED
    BY <1>10, <1>11, <1>12, <1>13, <1>14 DEF HashEffect

\* A client enters a call when the callback is called, and is in it until it has
\* the reply or is gone.
LEMMA HashRefines ==
    ASSUME IInv, ~hashAborted, NEW t \in Threads, hashCallback(t)
    PROVE  [HashClients!Next]_(HashClients!vars)
  <1>c. PICK c : c = session[t]
    OBVIOUS
  <1>0. TypeOK /\ CallsInv
    BY DEF IInv
  <1>a. executeCommand(t)
    BY DEF executeCommand
  <1>1. ASSUME NEW r \in DbCalls(t, Callback(t).method), Hash!Invoke(t), hashCall'[t] = r,
               Step(t, "find", "call"), Callback(t).object = "hash",
               UNCHANGED <<treeVars, arguments, session, commandsVars, connectionVars>>
        PROVE  HashClients!Next
    <2>1. /\ UNCHANGED <<hashStore, hashReply, hashAborted>> /\ HashMeaning(arguments[t]) \in Requests
          /\ pc[t] = "find" /\ pc'[t] = "call"
      BY <1>1, HashInvoke
    <2>2. /\ c \in Connections /\ service[c] = t /\ op[c] = "execute" /\ arguments[t] = request[c]
          /\ answer[c] = NoReply
      BY <1>c, <2>1, Serving
    <2>3. ~Underway(c) /\ Calling(c)' /\ Underway(c)' /\ service'[c] = t /\ request'[c] = request[c]
      BY <1>1, <2>1, <2>2 DEF Underway, Calling, connectionVars
    <2>4. hashReply'[t] = NoReply
      BY <1>0, <2>1 DEF CallsInv
    <2>5. /\ HashCalls[c] = NoCall /\ HashReplies[c] = NoReply
          /\ HashCalls'[c] \in Requests /\ HashReplies'[c] = NoReply
      <3>1. HashCalls[c] = NoCall /\ HashCalls'[c] = HashMeaning(arguments[t])
        BY <2>2, <2>3, HashView
      <3> QED
        BY <2>1, <2>2, <2>3, <2>4, <3>1, HashView
    <2>6. \A d \in Connections \ {c} : HashCalls'[d] = HashCalls[d] /\ HashReplies'[d] = HashReplies[d]
      BY <1>a, <2>1, <1>c, OthersUndisturbed, HashUndisturbed
    <2>7. HashClients!Invoke(c)
      BY <2>1, <2>2, <2>5, <2>6, HashOne, SameWords DEF HashClients!Invoke
    <2> QED
      BY <2>2, <2>7 DEF HashClients!Next
  <1>2. CASE (HashEffect(t) \/ Hash!Abort(t)) /\ UNCHANGED <<treeVars, workerVars, connectionVars>>
    BY <1>2, HashEffectRefines
  <1>3. CASE Hash!Respond(t) /\ finishCallback(t, hashReply[t]) /\ UNCHANGED treeVars
    <2>1. /\ hashReply[t] # NoReply /\ UNCHANGED <<hashStore, hashAborted>>
          /\ \A u \in Threads \ {t} : hashReply'[u] = hashReply[u]
      BY <1>0, <1>3, SameWords DEF TypeOK, Hash!Respond
    <2>2. pc[t] = "call" /\ HashMeaning(arguments[t]) # NoCall
      BY <1>0, <2>1 DEF CallsInv
    <2>3. /\ c \in Connections /\ service[c] = t /\ op[c] = "execute" /\ arguments[t] = request[c]
          /\ answer[c] = NoReply
      BY <1>c, <2>2, Serving
    <2>4. /\ op'[c] = "write" /\ request'[c] = request[c]
          /\ answer'[c] = IF client[c] = "gone" THEN NoReply ELSE hashReply[t]
      <3>1. answer = [d \in Connections |-> answer[d]]
        BY <1>0 DEF TypeOK
      <3> QED
        BY <1>0, <1>3, <1>c, <2>3, <3>1 DEF TypeOK, finishCallback
    <2>5. Calling(c) /\ Underway(c) /\ ~Calling(c)' /\ (Underway(c)' <=> client[c] # "gone")
      BY <2>1, <2>2, <2>3, <2>4 DEF Calling, Underway
    <2>6. HashCalls[c] # NoCall /\ HashReplies[c] = hashReply[t]
      BY <2>2, <2>3, <2>5, HashView
    <2>7. \A d \in Connections \ {c} : HashCalls'[d] = HashCalls[d] /\ HashReplies'[d] = HashReplies[d]
      BY <1>a, <2>1, <1>c, OthersUndisturbed, HashUndisturbed
    <2>8. CASE client[c] = "gone"
      <3>1. HashCalls'[c] = NoCall
        BY <2>3, <2>5, <2>8, HashView
      <3>2. HashReplies'[c] = NoReply
        BY <2>3, <3>1, HashView
      <3>3. HashClients!Respond(c)
        BY <2>1, <2>3, <2>6, <2>7, <3>1, <3>2, HashOne, SameWords DEF HashClients!Respond
      <3> QED
        BY <2>3, <3>3 DEF HashClients!Next
    <2>9. CASE client[c] # "gone"
      <3>1. HashCalls'[c] = HashCalls[c]
        BY <2>3, <2>4, <2>5, <2>9, HashView
      <3>2. HashReplies'[c] = HashReplies[c]
        BY <2>3, <2>4, <2>5, <2>6, <2>9, <3>1, HashView
      <3> QED
        BY <2>1, <2>7, <3>1, <3>2, HashUnseen
    <2> QED
      BY <2>8, <2>9
  <1> QED
    BY <1>1, <1>2, <1>3 DEF hashCallback, HashEffect

\* To its clients the server is a linearizable map under HGET, HSET, HDEL and
\* HFOR, whatever else they send, whichever workers serve them and whenever their
\* connections are lost (commands.cpp:63-70, commandhandler.cpp:188-195).
THEOREM ServesHash == Spec => HashService
  <1>1. Init => HashClients!Init
    <2> SUFFICES ASSUME Init PROVE HashClients!Init
      OBVIOUS
    <2>1. \A c \in Connections : HashCallOf(c) = NoCall
      BY DEF Init, HashCallOf, Underway, Calling
    <2>2. \A c \in Connections : ReplyOf(c, HashCallOf(c), hashReply) = NoReply
      BY <2>1 DEF ReplyOf
    <2>3. HashCalls = [c \in Connections |-> NoCall] /\ HashReplies = [c \in Connections |-> NoReply]
      BY <2>1, <2>2 DEF HashCalls, HashReplies
    <2> QED
      BY <2>3, SameWords DEF Init, Hash!Init, HashClients!Init
  <1>2. IInv /\ [Next]_vars => [HashClients!Next]_(HashClients!vars)
    <2> SUFFICES ASSUME IInv, [Next]_vars PROVE [HashClients!Next]_(HashClients!vars)
      OBVIOUS
    <2>1. ASSUME ~Aborted, NEW t \in Threads, executeCommand(t)
          PROVE  [HashClients!Next]_(HashClients!vars)
      BY <2>1, HashElsewhere, HashRefines DEF executeCommand, Aborted
    <2>2. ASSUME ~Aborted, NEW c \in Connections,
                 handleRead(c) \/ handleWrite(c) \/ connect(c) \/ send(c) \/ receive(c) \/ disconnect(c)
          PROVE  [HashClients!Next]_(HashClients!vars)
      <3>1. CASE answer[c] # NoReply /\ (receive(c) \/ disconnect(c))
        BY <2>2, <3>1, HashReceive DEF Aborted
      <3>2. ASSUME handleRead(c) \/ handleWrite(c) \/ connect(c) \/ send(c) \/ (disconnect(c) /\ answer[c] = NoReply)
            PROVE  UNCHANGED HashClients!vars
        <4>1. UNCHANGED <<hashStore, hashReply, hashAborted>>
          BY <3>2 DEF handleRead, handleWrite, connect, send, disconnect, hashVars
        <4>2. \A d \in Connections : HashCalls'[d] = HashCalls[d] /\ HashReplies'[d] = HashReplies[d]
          BY <3>2, <4>1, AllUndisturbed, HashUndisturbed
        <4> QED
          BY <4>1, <4>2, HashUnseen
      <3> QED
        BY <2>2, <3>1, <3>2 DEF receive
    <2>3. CASE UNCHANGED vars
      <3>1. UNCHANGED <<hashStore, hashReply, hashAborted, pc, service, op, request, answer>>
        BY <2>3 DEF vars, hashVars, workerVars, connectionVars
      <3>2. \A d \in Connections : Undisturbed(d)
        BY <3>1 DEF Undisturbed, Calling
      <3>3. \A d \in Connections : HashCalls'[d] = HashCalls[d] /\ HashReplies'[d] = HashReplies[d]
        BY <3>1, <3>2, HashUndisturbed
      <3> QED
        BY <3>1, <3>3, HashUnseen
    <2> QED
      BY <2>1, <2>2, <2>3 DEF Next
  <1> QED
    BY <1>1, <1>2, Invariance, PTL DEF Spec, HashClients!Spec, HashService

----------------------------------------------------------------------------
(* The clients of the AVL tree.                                            *)

\* What the clients of the AVL tree see of a connection.
LEMMA TreeView ==
    /\ \A c \in Connections :
          /\ TreeCalls[c] = IF Underway(c) THEN TreeMeaning(request[c]) ELSE NoCall
          /\ TreeReplies[c] = IF TreeCalls[c] = NoCall THEN NoReply
                              ELSE IF Calling(c) THEN treeReply[service[c]] ELSE answer[c]
    /\ \A c \in Connections :
          /\ TreeCalls'[c] = IF Underway(c)' THEN TreeMeaning(request'[c]) ELSE NoCall
          /\ TreeReplies'[c] = IF TreeCalls'[c] = NoCall THEN NoReply
                               ELSE IF Calling(c)' THEN treeReply'[service'[c]] ELSE answer'[c]
  <1>1. \A c \in Connections :
          /\ TreeCalls[c] = IF Underway(c) THEN TreeMeaning(request[c]) ELSE NoCall
          /\ TreeReplies[c] = IF TreeCalls[c] = NoCall THEN NoReply
                              ELSE IF Calling(c) THEN treeReply[service[c]] ELSE answer[c]
    BY DEF TreeCalls, TreeReplies, TreeCallOf, ReplyOf
  <1>2. \A c \in Connections :
          /\ TreeCalls'[c] = IF Underway(c)' THEN TreeMeaning(request'[c]) ELSE NoCall
          /\ TreeReplies'[c] = IF TreeCalls'[c] = NoCall THEN NoReply
                               ELSE IF Calling(c)' THEN treeReply'[service'[c]] ELSE answer'[c]
    BY DEF TreeCalls, TreeReplies, TreeCallOf, ReplyOf
  <1> QED
    BY <1>1, <1>2

\* A connection the step does not disturb looks the same to its client.
LEMMA TreeUndisturbed ==
    ASSUME NEW d \in Connections, Undisturbed(d),
           Calling(d) => treeReply'[service[d]] = treeReply[service[d]]
    PROVE  TreeCalls'[d] = TreeCalls[d] /\ TreeReplies'[d] = TreeReplies[d]
  <1>1. Underway(d)' <=> Underway(d)
    BY DEF Undisturbed, Underway
  <1>2. TreeCalls'[d] = TreeCalls[d]
    BY <1>1, TreeView DEF Undisturbed
  <1>3. CASE TreeCalls[d] = NoCall
    BY <1>2, <1>3, TreeView
  <1>4. CASE TreeCalls[d] # NoCall /\ Calling(d)
    BY <1>2, <1>4, TreeView DEF Undisturbed
  <1>5. CASE TreeCalls[d] # NoCall /\ ~Calling(d)
    BY <1>2, <1>5, TreeView DEF Undisturbed
  <1> QED
    BY <1>2, <1>3, <1>4, <1>5

\* Only c is seen to change.
LEMMA TreeOne ==
    ASSUME NEW c \in Connections,
           \A d \in Connections \ {c} : TreeCalls'[d] = TreeCalls[d] /\ TreeReplies'[d] = TreeReplies[d]
    PROVE  /\ TreeCalls' = [TreeCalls EXCEPT ![c] = TreeCalls'[c]]
           /\ TreeReplies' = [TreeReplies EXCEPT ![c] = TreeReplies'[c]]
           /\ TreeCalls'[c] = TreeCalls[c] => TreeCalls' = TreeCalls
           /\ TreeReplies'[c] = TreeReplies[c] => TreeReplies' = TreeReplies
  <1>1. /\ TreeCalls = [d \in Connections |-> TreeCalls[d]]
        /\ TreeReplies = [d \in Connections |-> TreeReplies[d]]
    BY DEF TreeCalls, TreeReplies
  <1>2. /\ TreeCalls' = [d \in Connections |-> TreeCalls'[d]]
        /\ TreeReplies' = [d \in Connections |-> TreeReplies'[d]]
    BY DEF TreeCalls, TreeReplies
  <1> QED
    BY <1>1, <1>2

\* A step that nobody sees.
LEMMA TreeUnseen ==
    ASSUME \A d \in Connections : TreeCalls'[d] = TreeCalls[d] /\ TreeReplies'[d] = TreeReplies[d],
           UNCHANGED <<treeStore, treeAborted>>
    PROVE  UNCHANGED TreeClients!vars
  <1>1. /\ TreeCalls = [d \in Connections |-> TreeCalls[d]]
        /\ TreeReplies = [d \in Connections |-> TreeReplies[d]]
    BY DEF TreeCalls, TreeReplies
  <1>2. /\ TreeCalls' = [d \in Connections |-> TreeCalls'[d]]
        /\ TreeReplies' = [d \in Connections |-> TreeReplies'[d]]
    BY DEF TreeCalls, TreeReplies
  <1> QED
    BY <1>1, <1>2 DEF TreeClients!vars

\* A client is done with its request: with the reply, or because the connection
\* is lost.
LEMMA TreeReceive ==
    ASSUME IInv, ~treeAborted, NEW c \in Connections, answer[c] # NoReply, receive(c) \/ disconnect(c)
    PROVE  [TreeClients!Next]_(TreeClients!vars)
  <1>0. TypeOK /\ ConnectionInv
    BY DEF IInv
  <1>1. /\ op[c] # "execute" /\ answer'[c] = NoReply /\ UNCHANGED <<op, pc, service>>
        /\ UNCHANGED <<treeStore, treeReply, treeAborted>>
        /\ \A d \in Connections \ {c} : answer'[d] = answer[d] /\ request'[d] = request[d]
    <2>1. answer = [e \in Connections |-> answer[e]]
      BY <1>0 DEF TypeOK
    <2> QED
      BY <1>0, <2>1 DEF TypeOK, ConnectionInv, receive, disconnect, treeVars, workerVars
  <1>2. ~Calling(c) /\ ~Calling(c)' /\ Underway(c) /\ ~Underway(c)'
    BY <1>1 DEF Calling, Underway
  <1>3. \A d \in Connections \ {c} : TreeCalls'[d] = TreeCalls[d] /\ TreeReplies'[d] = TreeReplies[d]
    <2>1. ASSUME NEW d \in Connections \ {c} PROVE Undisturbed(d)
      BY <1>1 DEF Undisturbed, Calling
    <2> QED
      BY <1>1, <2>1, TreeUndisturbed
  <1>4. /\ TreeCalls'[c] = NoCall /\ TreeReplies'[c] = NoReply
        /\ TreeReplies[c] = IF TreeCalls[c] = NoCall THEN NoReply ELSE answer[c]
    BY <1>2, TreeView
  <1>5. CASE TreeCalls[c] = NoCall
    BY <1>1, <1>3, <1>4, <1>5, TreeUnseen
  <1>6. CASE TreeCalls[c] # NoCall
    <2>1. TreeClients!Respond(c)
      BY <1>1, <1>3, <1>4, <1>6, TreeOne, SameWords DEF TreeClients!Respond
    <2> QED
      BY <2>1 DEF TreeClients!Next
  <1> QED
    BY <1>5, <1>6

\* A command that is not one of the AVL tree's leaves that table alone.
LEMMA TreeElsewhere ==
    ASSUME IInv, NEW t \in Threads, TheCommands(t) \/ genericCallback(t) \/ hashCallback(t)
    PROVE  UNCHANGED TreeClients!vars
  <1>c. PICK c : c = session[t]
    OBVIOUS
  <1>0. TypeOK /\ CallsInv /\ TableInv /\ UNCHANGED <<treeStore, treeReply, treeAborted>>
    BY DEF IInv, TheCommands, genericCallback, hashCallback, treeVars
  <1>1. executeCommand(t)
    BY DEF executeCommand
  <1>2. \A d \in Connections \ {c} : TreeCalls'[d] = TreeCalls[d] /\ TreeReplies'[d] = TreeReplies[d]
    BY <1>0, <1>1, <1>c, OthersUndisturbed, TreeUndisturbed
  <1>3. ASSUME c \in Connections PROVE TreeCalls'[c] = TreeCalls[c] /\ TreeReplies'[c] = TreeReplies[c]
    <2>1. CASE TheCommands(t)
      <3>1. pc[t] # "call" /\ pc'[t] # "call" /\ service[c] = t /\ UNCHANGED <<op, service, answer, request>>
        <4>1. pc[t] \notin {"idle", "call"} /\ pc'[t] # "call" /\ UNCHANGED <<op, service, answer, request>>
          BY <1>0, <2>1 DEF TypeOK, connectionVars, TheCommands, instance, addGenericCommands, addDbCommands, Step
        <4> QED
          BY <1>c, <4>1, Serving
      <3>2. Undisturbed(c) /\ ~Calling(c)
        BY <3>1 DEF Undisturbed, Calling
      <3> QED
        BY <1>3, <3>2, TreeUndisturbed
    <2>2. ASSUME TreeMeaning(request[c]) = NoCall, request'[c] = request[c]
          PROVE  TreeCalls'[c] = TreeCalls[c] /\ TreeReplies'[c] = TreeReplies[c]
      <3>1. TreeCalls'[c] = NoCall /\ TreeCalls[c] = NoCall
        BY <1>3, <2>2, TreeView
      <3> QED
        BY <1>3, <3>1, TreeView
    <2>3. CASE genericCallback(t)
      <3>1. pc[t] = "find" /\ Callback(t).object \notin {"tree", "hash"} /\ request' = request
        BY <2>3 DEF genericCallback, finishCallback
      <3>2. arguments[t] = request[c] /\ arguments[t] \in ClientRequests
        BY <1>c, <3>1, Serving
      <3>3. m_commands = Add(DbCommands, Add(GenericCommands, <<>>))
        BY <1>0, <3>1 DEF TableInv
      <3> QED
        BY <2>2, <3>1, <3>2, <3>3, Finds
    <2>4. CASE hashCallback(t)
      <3>1. CASE UNCHANGED <<workerVars, connectionVars>>
        <4>1. Undisturbed(c)
          BY <3>1 DEF Undisturbed, Calling, workerVars, connectionVars
        <4> QED
          BY <1>0, <1>3, <4>1, TreeUndisturbed
      <3>2. ASSUME Step(t, "find", "call"), Callback(t).object = "hash", UNCHANGED connectionVars
            PROVE  TreeCalls'[c] = TreeCalls[c] /\ TreeReplies'[c] = TreeReplies[c]
        <4>1. arguments[t] = request[c] /\ arguments[t] \in ClientRequests
          BY <1>c, <3>2, Serving DEF Step
        <4>2. m_commands = Add(DbCommands, Add(GenericCommands, <<>>))
          BY <1>0, <3>2 DEF TableInv, Step
        <4>3. HashMeaning(arguments[t]) # NoCall
          BY <3>2, <4>1, <4>2, Finds
        <4>4. request'[c] = request[c]
          BY <3>2 DEF connectionVars
        <4> QED
          BY <2>2, <4>1, <4>3, <4>4, OneMeaning
      <3>3. CASE Hash!Respond(t) /\ finishCallback(t, hashReply[t])
        <4>1. hashCall[t] # NoCall
          BY <1>0, <3>3, SameWords DEF CallsInv, Hash!Respond
        <4>2. pc[t] = "call" /\ HashMeaning(arguments[t]) # NoCall
          BY <1>0, <4>1 DEF CallsInv
        <4>3. arguments[t] = request[c] /\ arguments[t] \in ClientRequests /\ request'[c] = request[c]
          BY <1>c, <3>3, <4>2, Serving DEF finishCallback
        <4> QED
          BY <2>2, <4>2, <4>3, OneMeaning
      <3> QED
        BY <2>4, <3>1, <3>2, <3>3 DEF hashCallback
    <2> QED
      BY <2>1, <2>3, <2>4
  <1> QED
    BY <1>0, <1>2, <1>3, TreeUnseen

\* A call takes effect for the client whose request it is, in its own call.
LEMMA TreeEffectRefines ==
    ASSUME IInv, ~treeAborted, NEW t \in Threads, TreeEffect(t) \/ Tree!Abort(t),
           UNCHANGED <<hashVars, workerVars, connectionVars>>
    PROVE  TreeClients!Next
  <1>c. PICK c : c = session[t]
    OBVIOUS
  <1>0. TypeOK /\ CallsInv
    BY DEF IInv
  <1>1. treeCall[t] # NoCall /\ treeReply[t] = NoReply /\ treeCall' = treeCall
    <2>1. CASE TreeEffect(t)
      BY <2>1, TreeEffects
    <2>2. CASE Tree!Abort(t)
      BY <2>2, SameWords DEF Tree!Abort, NoCall
    <2> QED
      BY <2>1, <2>2
  <1>2. pc[t] = "call" /\ treeCall[t] = TreeMeaning(arguments[t])
    BY <1>0, <1>1 DEF CallsInv
  <1>3. c \in Connections /\ service[c] = t /\ op[c] = "execute" /\ arguments[t] = request[c]
    BY <1>c, <1>2, Serving
  <1>4. Calling(c) /\ Calling(c)' /\ Underway(c) /\ Underway(c)' /\ service'[c] = t /\ request'[c] = request[c]
    BY <1>2, <1>3 DEF Calling, Underway, workerVars, connectionVars
  <1>5. /\ TreeCalls[c] = treeCall[t] /\ TreeCalls'[c] = TreeCalls[c]
        /\ TreeReplies[c] = NoReply /\ TreeReplies'[c] = treeReply'[t]
    <2>1. TreeCalls[c] = treeCall[t] /\ TreeCalls'[c] = TreeCalls[c]
      BY <1>2, <1>3, <1>4, TreeView
    <2> QED
      BY <1>1, <1>3, <1>4, <2>1, TreeView
  <1>6. \A d \in Connections \ {c} : TreeCalls'[d] = TreeCalls[d] /\ TreeReplies'[d] = TreeReplies[d]
    <2>1. executeCommand(t)
      BY DEF executeCommand, treeCallback, TreeEffect
    <2>2. \A u \in Threads \ {t} : treeReply'[u] = treeReply[u]
      BY TreeEffects DEF Tree!Abort
    <2> QED
      BY <2>1, <2>2, <1>c, OthersUndisturbed, TreeUndisturbed
  <1>7. TreeCalls' = TreeCalls /\ TreeReplies' = [TreeReplies EXCEPT ![c] = treeReply'[t]]
    BY <1>3, <1>5, <1>6, TreeOne
  <1>8. ASSUME NEW s, NEW x, Tree!Effect(t, s, x) PROVE TreeClients!Effect(c, s, x)
    <2>1. treeStore' = s /\ treeReply'[t] = x /\ treeAborted' = treeAborted
      BY <1>0, <1>8 DEF Tree!Effect, TypeOK
    <2> QED
      BY <1>5, <1>7, <2>1, SameWords DEF TreeClients!Effect
  <1>9. /\ TreeClients!REPLY_FALSE = Tree!REPLY_FALSE /\ TreeClients!REPLY_TRUE = Tree!REPLY_TRUE
        /\ TreeClients!REPLY_NIL = Tree!REPLY_NIL /\ TreeClients!REPLY_OK = Tree!REPLY_OK
        /\ TreeClients!REPLY_ERROR = Tree!REPLY_ERROR
        /\ \A v : TreeClients!toReplyString(v) = Tree!toReplyString(v)
    BY DEF TreeClients!REPLY_FALSE, Tree!REPLY_FALSE, TreeClients!REPLY_TRUE, Tree!REPLY_TRUE,
           TreeClients!REPLY_NIL, Tree!REPLY_NIL, TreeClients!REPLY_OK, Tree!REPLY_OK,
           TreeClients!REPLY_ERROR, Tree!REPLY_ERROR, TreeClients!toReplyString, Tree!toReplyString
  <1>10. CASE Tree!Get(t)
    <2>1. TreeClients!Get(c)
      BY <1>5, <1>8, <1>9, <1>10 DEF Tree!Get, TreeClients!Get
    <2> QED
      BY <1>3, <2>1 DEF TreeClients!Next
  <1>11. CASE Tree!Set(t)
    <2>1. TreeClients!Set(c)
      BY <1>5, <1>8, <1>9, <1>11 DEF Tree!Set, TreeClients!Set
    <2> QED
      BY <1>3, <2>1 DEF TreeClients!Next
  <1>12. CASE Tree!Del(t)
    <2>1. TreeClients!Del(c)
      BY <1>5, <1>8, <1>9, <1>12 DEF Tree!Del, TreeClients!Del
    <2> QED
      BY <1>3, <2>1 DEF TreeClients!Next
  <1>13. CASE Tree!Foreach(t)
    <2>1. \A script, done, s : Tree!Applied(script, done, s) <=> TreeClients!Applied(script, done, s)
      BY DEF Tree!Applied, TreeClients!Applied
    <2>2. TreeClients!Foreach(c)
      BY <1>5, <1>8, <1>9, <1>13, <2>1 DEF Tree!Foreach, TreeClients!Foreach
    <2> QED
      BY <1>3, <2>2 DEF TreeClients!Next
  <1>14. CASE Tree!Abort(t)
    <2>1. TreeReplies' = TreeReplies
      <3>1. TreeReplies'[c] = TreeReplies[c]
        BY <1>1, <1>5, <1>14 DEF Tree!Abort
      <3> QED
        BY <1>3, <1>6, <3>1, TreeOne
    <2>2. TreeClients!Abort(c)
      BY <1>1, <1>5, <1>7, <1>14, <2>1, SameWords DEF Tree!Abort, TreeClients!Abort
    <2> QED
      BY <1>3, <2>2 DEF TreeClients!Next
  <1> QED
    BY <1>10, <1>11, <1>12, <1>13, <1>14 DEF TreeEffect

\* A client enters a call when the callback is called, and is in it until it has
\* the reply or is gone.
LEMMA TreeRefines ==
    ASSUME IInv, ~treeAborted, NEW t \in Threads, treeCallback(t)
    PROVE  [TreeClients!Next]_(TreeClients!vars)
  <1>c. PICK c : c = session[t]
    OBVIOUS
  <1>0. TypeOK /\ CallsInv
    BY DEF IInv
  <1>a. executeCommand(t)
    BY DEF executeCommand
  <1>1. ASSUME NEW r \in DbCalls(t, Callback(t).method), Tree!Invoke(t), treeCall'[t] = r,
               Step(t, "find", "call"), Callback(t).object = "tree",
               UNCHANGED <<hashVars, arguments, session, commandsVars, connectionVars>>
        PROVE  TreeClients!Next
    <2>1. /\ UNCHANGED <<treeStore, treeReply, treeAborted>> /\ TreeMeaning(arguments[t]) \in Requests
          /\ pc[t] = "find" /\ pc'[t] = "call"
      BY <1>1, TreeInvoke
    <2>2. /\ c \in Connections /\ service[c] = t /\ op[c] = "execute" /\ arguments[t] = request[c]
          /\ answer[c] = NoReply
      BY <1>c, <2>1, Serving
    <2>3. ~Underway(c) /\ Calling(c)' /\ Underway(c)' /\ service'[c] = t /\ request'[c] = request[c]
      BY <1>1, <2>1, <2>2 DEF Underway, Calling, connectionVars
    <2>4. treeReply'[t] = NoReply
      BY <1>0, <2>1 DEF CallsInv
    <2>5. /\ TreeCalls[c] = NoCall /\ TreeReplies[c] = NoReply
          /\ TreeCalls'[c] \in Requests /\ TreeReplies'[c] = NoReply
      <3>1. TreeCalls[c] = NoCall /\ TreeCalls'[c] = TreeMeaning(arguments[t])
        BY <2>2, <2>3, TreeView
      <3> QED
        BY <2>1, <2>2, <2>3, <2>4, <3>1, TreeView
    <2>6. \A d \in Connections \ {c} : TreeCalls'[d] = TreeCalls[d] /\ TreeReplies'[d] = TreeReplies[d]
      BY <1>a, <2>1, <1>c, OthersUndisturbed, TreeUndisturbed
    <2>7. TreeClients!Invoke(c)
      BY <2>1, <2>2, <2>5, <2>6, TreeOne, SameWords DEF TreeClients!Invoke
    <2> QED
      BY <2>2, <2>7 DEF TreeClients!Next
  <1>2. CASE (TreeEffect(t) \/ Tree!Abort(t)) /\ UNCHANGED <<hashVars, workerVars, connectionVars>>
    BY <1>2, TreeEffectRefines
  <1>3. CASE Tree!Respond(t) /\ finishCallback(t, treeReply[t]) /\ UNCHANGED hashVars
    <2>1. /\ treeReply[t] # NoReply /\ UNCHANGED <<treeStore, treeAborted>>
          /\ \A u \in Threads \ {t} : treeReply'[u] = treeReply[u]
      BY <1>0, <1>3, SameWords DEF TypeOK, Tree!Respond
    <2>2. pc[t] = "call" /\ TreeMeaning(arguments[t]) # NoCall
      BY <1>0, <2>1 DEF CallsInv
    <2>3. /\ c \in Connections /\ service[c] = t /\ op[c] = "execute" /\ arguments[t] = request[c]
          /\ answer[c] = NoReply
      BY <1>c, <2>2, Serving
    <2>4. /\ op'[c] = "write" /\ request'[c] = request[c]
          /\ answer'[c] = IF client[c] = "gone" THEN NoReply ELSE treeReply[t]
      <3>1. answer = [d \in Connections |-> answer[d]]
        BY <1>0 DEF TypeOK
      <3> QED
        BY <1>0, <1>3, <1>c, <2>3, <3>1 DEF TypeOK, finishCallback
    <2>5. Calling(c) /\ Underway(c) /\ ~Calling(c)' /\ (Underway(c)' <=> client[c] # "gone")
      BY <2>1, <2>2, <2>3, <2>4 DEF Calling, Underway
    <2>6. TreeCalls[c] # NoCall /\ TreeReplies[c] = treeReply[t]
      BY <2>2, <2>3, <2>5, TreeView
    <2>7. \A d \in Connections \ {c} : TreeCalls'[d] = TreeCalls[d] /\ TreeReplies'[d] = TreeReplies[d]
      BY <1>a, <2>1, <1>c, OthersUndisturbed, TreeUndisturbed
    <2>8. CASE client[c] = "gone"
      <3>1. TreeCalls'[c] = NoCall
        BY <2>3, <2>5, <2>8, TreeView
      <3>2. TreeReplies'[c] = NoReply
        BY <2>3, <3>1, TreeView
      <3>3. TreeClients!Respond(c)
        BY <2>1, <2>3, <2>6, <2>7, <3>1, <3>2, TreeOne, SameWords DEF TreeClients!Respond
      <3> QED
        BY <2>3, <3>3 DEF TreeClients!Next
    <2>9. CASE client[c] # "gone"
      <3>1. TreeCalls'[c] = TreeCalls[c]
        BY <2>3, <2>4, <2>5, <2>9, TreeView
      <3>2. TreeReplies'[c] = TreeReplies[c]
        BY <2>3, <2>4, <2>5, <2>6, <2>9, <3>1, TreeView
      <3> QED
        BY <2>1, <2>7, <3>1, <3>2, TreeUnseen
    <2> QED
      BY <2>8, <2>9
  <1> QED
    BY <1>1, <1>2, <1>3 DEF treeCallback, TreeEffect

\* The same of ATGET, ATSET, ATDEL and ATFOR, on a map of their own, where the
\* tree's calls are those of a KeyValueStore: while no two keys have the same hash
\* (TreeLinearizable of AvlTreeProofs; commands.cpp:63-70,
\* commandhandler.cpp:188-195).
THEOREM ServesTree == Spec => TreeService
  <1>1. Init => TreeClients!Init
    <2> SUFFICES ASSUME Init PROVE TreeClients!Init
      OBVIOUS
    <2>1. \A c \in Connections : TreeCallOf(c) = NoCall
      BY DEF Init, TreeCallOf, Underway, Calling
    <2>2. \A c \in Connections : ReplyOf(c, TreeCallOf(c), treeReply) = NoReply
      BY <2>1 DEF ReplyOf
    <2>3. TreeCalls = [c \in Connections |-> NoCall] /\ TreeReplies = [c \in Connections |-> NoReply]
      BY <2>1, <2>2 DEF TreeCalls, TreeReplies
    <2> QED
      BY <2>3, SameWords DEF Init, Tree!Init, TreeClients!Init
  <1>2. IInv /\ [Next]_vars => [TreeClients!Next]_(TreeClients!vars)
    <2> SUFFICES ASSUME IInv, [Next]_vars PROVE [TreeClients!Next]_(TreeClients!vars)
      OBVIOUS
    <2>1. ASSUME ~Aborted, NEW t \in Threads, executeCommand(t)
          PROVE  [TreeClients!Next]_(TreeClients!vars)
      BY <2>1, TreeElsewhere, TreeRefines DEF executeCommand, Aborted
    <2>2. ASSUME ~Aborted, NEW c \in Connections,
                 handleRead(c) \/ handleWrite(c) \/ connect(c) \/ send(c) \/ receive(c) \/ disconnect(c)
          PROVE  [TreeClients!Next]_(TreeClients!vars)
      <3>1. CASE answer[c] # NoReply /\ (receive(c) \/ disconnect(c))
        BY <2>2, <3>1, TreeReceive DEF Aborted
      <3>2. ASSUME handleRead(c) \/ handleWrite(c) \/ connect(c) \/ send(c) \/ (disconnect(c) /\ answer[c] = NoReply)
            PROVE  UNCHANGED TreeClients!vars
        <4>1. UNCHANGED <<treeStore, treeReply, treeAborted>>
          BY <3>2 DEF handleRead, handleWrite, connect, send, disconnect, treeVars
        <4>2. \A d \in Connections : TreeCalls'[d] = TreeCalls[d] /\ TreeReplies'[d] = TreeReplies[d]
          BY <3>2, <4>1, AllUndisturbed, TreeUndisturbed
        <4> QED
          BY <4>1, <4>2, TreeUnseen
      <3> QED
        BY <2>2, <3>1, <3>2 DEF receive
    <2>3. CASE UNCHANGED vars
      <3>1. UNCHANGED <<treeStore, treeReply, treeAborted, pc, service, op, request, answer>>
        BY <2>3 DEF vars, treeVars, workerVars, connectionVars
      <3>2. \A d \in Connections : Undisturbed(d)
        BY <3>1 DEF Undisturbed, Calling
      <3>3. \A d \in Connections : TreeCalls'[d] = TreeCalls[d] /\ TreeReplies'[d] = TreeReplies[d]
        BY <3>1, <3>2, TreeUndisturbed
      <3> QED
        BY <3>1, <3>3, TreeUnseen
    <2> QED
      BY <2>1, <2>2, <2>3 DEF Next
  <1> QED
    BY <1>1, <1>2, Invariance, PTL DEF Spec, TreeClients!Spec, TreeService

=============================================================================
