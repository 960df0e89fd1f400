--------------------------- MODULE CommandServer ---------------------------
(***************************************************************************)
(* CommandServer and its sessions: the main thread builds the server,      *)
(* starts the workers and waits for them; worker 0 accepts connections on  *)
(* both endpoints and takes the stop signal; each session lives on one     *)
(* worker as a chain of asynchronous operations, and deletes itself when   *)
(* one fails.  A worker runs one handler at a time; a handler during which *)
(* another worker could matter has more than one step.                     *)
(***************************************************************************)
EXTENDS IoServicePool

CONSTANTS Sessions,    \* the addresses a Session object may have
          NoSession,
          ReplyLength, \* bytes of a reply
          SendSizes    \* how many of them one write may put into the socket

Endpoints == {"tcp", "unix"}

ASSUME ServerAssumption ==
    /\ NoSession \notin Sessions
    /\ ReplyLength \in Nat \ {0}
    /\ SendSizes \subseteq 0..ReplyLength

VARIABLES main,     \* the main thread
          signal,   \* "none" | "raised" | "taken"
          handler,  \* what each worker is running
          pending,  \* the session each endpoint is accepting into
          service,  \* the service of each session
          op,       \* the operation each session has outstanding
          unsent,   \* bytes of its reply not written yet
          garbled   \* history: sessions that wrote from a reply that was gone

sessionVars == <<service, op, unsent, garbled>>
vars == <<poolVars, main, signal, handler, pending, sessionVars>>

Idle == [kind |-> "idle"]
Handlers == {Idle}
       \cup [kind : {"accepted"}, endpoint : Endpoints]
       \cup [kind : {"executing"}, session : Sessions]
       \cup [kind : {"stopping"}, next : Services]

TypeOK ==
    /\ PoolTypeOK
    /\ main \in {"tcp", "unix", "start", "failed", "returned"}
    /\ signal \in {"none", "raised", "taken"}
    /\ handler \in [Services -> Handlers]
    /\ pending \in [Endpoints -> Sessions \cup {NoSession}]
    /\ service \in [Sessions -> Services]
    /\ op \in [Sessions -> {"deleted", "accept", "read", "write"}]
    /\ unsent \in [Sessions -> 0..ReplyLength]
    /\ garbled \subseteq Sessions

Init ==
    /\ PoolInit
    /\ main = "tcp"
    /\ signal = "none"
    /\ handler = [i \in Services |-> Idle]
    /\ pending = [e \in Endpoints |-> NoSession]
    /\ service = [s \in Sessions |-> 0]
    /\ op = [s \in Sessions |-> "deleted"]
    /\ unsent = [s \in Sessions |-> 0]
    /\ garbled = {}

----------------------------------------------------------------------------
(* Accepting.                                                              *)

\* startAcceptOnTcp, startAcceptOnUnixDomain: a new session, on the next service
startAccept(e) ==
    \E s \in Sessions, i \in Services :
       /\ op[s] = "deleted"
       /\ ioService(i)
       /\ service' = [service EXCEPT ![s] = i]
       /\ op' = [op EXCEPT ![s] = "accept"]
       /\ pending' = [pending EXCEPT ![e] = s]
       /\ unsent' = [unsent EXCEPT ![s] = 0]
       /\ garbled' = garbled \ {s}

\* createTcpEndpoint, createUnixDomainEndpoint: resolve, bind or listen may throw
createEndpoint(e, next) ==
    /\ main = e
    /\ \/ /\ startAccept(e)
          /\ main' = next
       \/ /\ main' = "failed"
          /\ UNCHANGED <<m_next, served, pending, sessionVars>>
    /\ UNCHANGED <<stopped, thread, signal, handler>>

\* CommandServer::start, IoServicePool::start
start ==
    /\ main = "start"
    /\ \/ /\ \E i \in Services : Spawn(i)
          /\ UNCHANGED main
       \/ /\ Joined
          /\ main' = "returned"
          /\ UNCHANGED poolVars
    /\ UNCHANGED <<signal, handler, pending, sessionVars>>

\* A worker that may take its next handler.
Ready(i) == thread[i] = "running" /\ i \notin stopped /\ handler[i] = Idle

Run(i, h) == handler' = [handler EXCEPT ![i] = h]

\* Mutant: after a failed accept the handler returns at once.
handleAcceptMutantGivesUp(e) ==
    /\ Ready(0)
    /\ pending[e] # NoSession
    /\ \E s \in Sessions : op[s] = "deleted"
    /\ pending' = [pending EXCEPT ![e] = NoSession]
    /\ \/ /\ op' = [op EXCEPT ![pending[e]] = "read"]
          /\ Run(0, [kind |-> "accepted", endpoint |-> e])
       \/ /\ op' = [op EXCEPT ![pending[e]] = "deleted"]
          /\ UNCHANGED handler
    /\ UNCHANGED <<poolVars, main, signal, service, unsent, garbled>>

\* handleAcceptOnTcp, handleAcceptOnUnixDomain, up to the next startAccept: the
\* session starts reading, or is deleted.  (Bound: there is room for the next.)
handleAccept(e) ==
    /\ Ready(0)
    /\ pending[e] # NoSession
    /\ \E s \in Sessions : op[s] = "deleted"
    /\ \E next \in {"read", "deleted"} : op' = [op EXCEPT ![pending[e]] = next]
    /\ pending' = [pending EXCEPT ![e] = NoSession]
    /\ Run(0, [kind |-> "accepted", endpoint |-> e])
    /\ UNCHANGED <<poolVars, main, signal, service, unsent, garbled>>

\* the rest of handleAccept: accept again
acceptAgain ==
    /\ handler[0].kind = "accepted"
    /\ startAccept(handler[0].endpoint)
    /\ Run(0, Idle)
    /\ UNCHANGED <<stopped, thread, main, signal>>

----------------------------------------------------------------------------
(* Sessions.  async_write writes what it can at once; the rest is written  *)
(* when the socket has room.                                               *)

\* delete this
Delete(s) ==
    /\ op' = [op EXCEPT ![s] = "deleted"]
    /\ UNCHANGED <<handler, unsent, garbled>>

asyncRead(s) ==
    /\ op' = [op EXCEPT ![s] = "read"]
    /\ UNCHANGED <<handler, unsent, garbled>>

\* executeCommand, up to the finish callback: asyncWrite of the reply
asyncWrite(s) ==
    /\ op' = [op EXCEPT ![s] = "write"]
    /\ \E n \in SendSizes : unsent' = [unsent EXCEPT ![s] = ReplyLength - n]
    /\ Run(service[s], [kind |-> "executing", session |-> s])
    /\ UNCHANGED garbled

\* Mutant: handleRead reads on after a complete command as well.
handleReadMutantReadsOn(s) ==
    /\ op[s] = "read"
    /\ Ready(service[s])
    /\ \/ Delete(s)
       \/ /\ Run(service[s], [kind |-> "executing", session |-> s])
          /\ UNCHANGED <<op, unsent, garbled>>
    /\ UNCHANGED <<poolVars, main, signal, pending, service>>

\* handleRead: an error; part of a command; a complete command
handleRead(s) ==
    /\ op[s] = "read"
    /\ Ready(service[s])
    /\ Delete(s) \/ asyncRead(s) \/ asyncWrite(s)
    /\ UNCHANGED <<poolVars, main, signal, pending, service>>

\* the rest of executeCommand: the reply, a temporary, is destroyed; reset()
executed(i) ==
    /\ handler[i].kind = "executing"
    /\ Run(i, Idle)
    /\ UNCHANGED <<poolVars, main, signal, pending, sessionVars>>

\* The reply of s still exists.
ReplyAlive(s) == handler[service[s]] = [kind |-> "executing", session |-> s]

\* the socket has room again: async_write writes more of the reply
writeMore(s) ==
    /\ op[s] = "write"
    /\ Ready(service[s])
    /\ unsent[s] > 0
    /\ \E n \in 1..unsent[s] : unsent' = [unsent EXCEPT ![s] = @ - n]
    /\ garbled' = IF ReplyAlive(s) THEN garbled ELSE garbled \cup {s}
    /\ UNCHANGED <<poolVars, main, signal, handler, pending, service, op>>

\* handleWrite: an error, at any time; or all of the reply is written
handleWrite(s) ==
    /\ op[s] = "write"
    /\ Ready(service[s])
    /\ Delete(s) \/ (unsent[s] = 0 /\ asyncRead(s))
    /\ UNCHANGED <<poolVars, main, signal, pending, service>>

----------------------------------------------------------------------------
(* Stopping.                                                               *)

\* SIGINT, SIGTERM or SIGQUIT; async_wait waits for one of them, once
raise ==
    /\ signal = "none"
    /\ signal' = "raised"
    /\ UNCHANGED <<poolVars, main, handler, pending, sessionVars>>

\* CommandServer::stop begins, on worker 0
handleStop ==
    /\ signal = "raised"
    /\ Ready(0)
    /\ signal' = "taken"
    /\ Run(0, [kind |-> "stopping", next |-> 0])
    /\ UNCHANGED <<poolVars, main, pending, sessionVars>>

\* IoServicePool::stop: one iteration
stop ==
    /\ handler[0].kind = "stopping"
    /\ LET i == handler[0].next
       IN  /\ StopService(i)
           /\ Run(0, IF i + 1 \in Services THEN [kind |-> "stopping", next |-> i + 1] ELSE Idle)
    /\ UNCHANGED <<main, signal, pending, sessionVars>>

exit(i) ==
    /\ handler[i] = Idle
    /\ RunReturns(i)
    /\ UNCHANGED <<main, signal, handler, pending, sessionVars>>

----------------------------------------------------------------------------
Main == createEndpoint("tcp", "unix") \/ createEndpoint("unix", "start") \/ start

Finish(i) == executed(i) \/ exit(i) \/ (i = 0 /\ (acceptAgain \/ stop))

Over == main \in {"failed", "returned"}

Next ==
    \/ ~Over /\ Main
    \/ ~Over /\ \E i \in Services : Finish(i)
    \/ ~Over /\ \E e \in Endpoints : handleAccept(e)
    \/ ~Over /\ \E s \in Sessions : handleRead(s) \/ writeMore(s) \/ handleWrite(s)
    \/ ~Over /\ (raise \/ handleStop)
    \/ Over /\ UNCHANGED vars

Spec == Init /\ [][Next]_vars

\* The operating system runs every thread, handlers end, and an io_service takes
\* its ready handlers in turn, so the signal's is reached.
Fairness ==
    /\ WF_vars(~Over /\ Main)
    /\ \A i \in Services : WF_vars(~Over /\ Finish(i))
    /\ SF_vars(~Over /\ handleStop)

FairSpec == Spec /\ Fairness

----------------------------------------------------------------------------
\* An address handed to an accept belongs to that accept alone, and a session
\* that is deleted has nothing left that could call it: no endpoint accepts into
\* it, no handler of it is running (session.cpp:53-55, 66-68;
\* commandserver.cpp:134, 150).  A session whose command is being executed
\* is the one whose reply is being written.
SessionInv ==
    /\ \A e \in Endpoints : pending[e] # NoSession => op[pending[e]] = "accept"
    /\ \A s \in Sessions : op[s] = "accept" => \E e \in Endpoints : pending[e] = s
    /\ pending["tcp"] = pending["unix"] => pending["tcp"] = NoSession
    /\ \A i \in Services : handler[i].kind = "executing" =>
          op[handler[i].session] = "write" /\ service[handler[i].session] = i

\* Once the server is built, each endpoint is accepting, or worker 0 is about to
\* accept on it again, whatever happened to the connections before.
KeepsAccepting ==
    main \in {"start", "returned"} =>
       \A e \in Endpoints :
          pending[e] = NoSession => handler[0] = [kind |-> "accepted", endpoint |-> e]

\* No service is given a second session before every service has one more:
\* "Use a round-robin scheme to choose the next io_service" (ioservicepool.h:34).
RoundRobin == served = {i \in Services : i < m_next}

\* The reply a client gets is the result of the command: nothing is written from
\* a reply that has been destroyed (session.cpp:44-47, commandhandler.cpp:189-193).
RepliesIntact == garbled = {}

\* A stop signal ends the server, also one that comes while the server is still
\* being built: every worker leaves its loop, one that was told to stop before its
\* thread was created too, and start() returns (ioservicepool.cpp:45-56).
StopsWhenSignalled == signal = "raised" ~> Over

============================================================================
