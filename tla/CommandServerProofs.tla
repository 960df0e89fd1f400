------------------------ MODULE CommandServerProofs ------------------------
(***************************************************************************)
(* The safety properties of CommandServer for any number of workers and    *)
(* any set of sessions.                                                    *)
(***************************************************************************)
EXTENDS CommandServer, TLAPS

\* While the server is being built no worker runs; the endpoint a worker is about
\* to accept on again is not accepting now.
StartInv ==
    /\ main \in {"tcp", "unix"} =>
          (\A i \in Services : thread[i] = "none" /\ handler[i] = Idle)
    /\ main = "tcp" => pending["tcp"] = NoSession
    /\ main \in {"tcp", "unix"} => pending["unix"] = NoSession
    /\ main = "unix" => pending["tcp"] # NoSession
    /\ handler[0].kind = "accepted" => pending[handler[0].endpoint] = NoSession

IInv == TypeOK /\ RoundRobin /\ SessionInv /\ KeepsAccepting /\ StartInv

----------------------------------------------------------------------------
LEMMA ServiceZero == 0 \in Services
BY WorkersAssumption DEF Services

\* What the kind of a handler says of its other fields, and what it rules out.
LEMMA HandlerKinds ==
    /\ Idle \in Handlers /\ Idle.kind = "idle"
    /\ \A h \in Handlers :
          /\ h.kind = "accepted" =>
                h.endpoint \in Endpoints /\ h = [kind |-> "accepted", endpoint |-> h.endpoint]
          /\ h.kind = "executing" => h.session \in Sessions
          /\ h.kind = "stopping" => h.next \in Services
    /\ \A e \in Endpoints :
          LET h == [kind |-> "accepted", endpoint |-> e]
          IN  h \in Handlers /\ h.kind = "accepted" /\ h.endpoint = e
    /\ \A s \in Sessions :
          LET h == [kind |-> "executing", session |-> s]
          IN  h \in Handlers /\ h.kind = "executing" /\ h.session = s
    /\ \A n \in Services :
          LET h == [kind |-> "stopping", next |-> n]
          IN  h \in Handlers /\ h.kind = "stopping"
BY DEF Handlers, Idle

\* Both endpoints are accepting when worker 0 is not about to accept again.
LEMMA IdleAccepts ==
    ASSUME KeepsAccepting, main \in {"start", "returned"}, handler[0].kind # "accepted"
    PROVE  \A e \in Endpoints : pending[e] # NoSession
<1> SUFFICES ASSUME NEW e \in Endpoints, pending[e] = NoSession PROVE FALSE
  OBVIOUS
<1>1. handler[0] = [kind |-> "accepted", endpoint |-> e]
  BY DEF KeepsAccepting
<1> QED
  BY <1>1

\* ioService() keeps m_next in range and the round robin even.
LEMMA RoundRobinStep ==
    ASSUME m_next \in Services, RoundRobin, NEW i \in Services, ioService(i)
    PROVE  m_next' \in Services /\ served' \subseteq Services /\ RoundRobin'
<1>1. CASE m_next + 1 = Workers
  <2>1. served \cup {i} = Services
    BY <1>1, WorkersAssumption DEF RoundRobin, ioService, Services
  <2>2. m_next' = 0 /\ served' = {}
    BY <1>1, <2>1 DEF ioService, NextService
  <2> QED
    BY <2>2, WorkersAssumption DEF RoundRobin, Services
<1>2. CASE m_next + 1 # Workers
  <2>1. m_next' = m_next + 1 /\ m_next + 1 \in Services
    BY <1>2, WorkersAssumption DEF ioService, NextService, Services
  <2>2. m_next + 1 \notin served \cup {i}
    BY WorkersAssumption DEF RoundRobin, ioService, Services
  <2>3. served' = served \cup {i}
    BY <2>1, <2>2 DEF ioService
  <2>4. served \cup {i} = {j \in Services : j < m_next + 1}
    BY WorkersAssumption DEF RoundRobin, ioService, Services
  <2> QED
    BY <2>1, <2>3, <2>4 DEF RoundRobin
<1> QED
  BY <1>1, <1>2

\* An endpoint that is not accepting starts to: the new session is its own.
LEMMA StartAcceptStep ==
    ASSUME IInv, NEW e \in Endpoints, startAccept(e), pending[e] = NoSession
    PROVE  /\ m_next' \in Services /\ served' \subseteq Services /\ RoundRobin'
           /\ pending' \in [Endpoints -> Sessions \cup {NoSession}]
           /\ service' \in [Sessions -> Services]
           /\ op' \in [Sessions -> {"deleted", "accept", "read", "write"}]
           /\ unsent' \in [Sessions -> 0..ReplyLength]
           /\ garbled' \subseteq Sessions
           /\ pending'[e] # NoSession
           /\ \A f \in Endpoints : f # e => pending'[f] = pending[f]
           /\ \A f \in Endpoints : pending'[f] # NoSession => op'[pending'[f]] = "accept"
           /\ \A s \in Sessions : op'[s] = "accept" => \E f \in Endpoints : pending'[f] = s
           /\ pending'["tcp"] = pending'["unix"] => pending'["tcp"] = NoSession
           /\ \A s \in Sessions : op[s] = "write" => op'[s] = "write" /\ service'[s] = service[s]
<1>1. PICK s \in Sessions, i \in Services :
         /\ op[s] = "deleted"
         /\ ioService(i)
         /\ service' = [service EXCEPT ![s] = i]
         /\ op' = [op EXCEPT ![s] = "accept"]
         /\ pending' = [pending EXCEPT ![e] = s]
         /\ unsent' = [unsent EXCEPT ![s] = 0]
         /\ garbled' = garbled \ {s}
  BY DEF startAccept
<1>2. m_next' \in Services /\ served' \subseteq Services /\ RoundRobin'
  BY <1>1, RoundRobinStep DEF IInv, TypeOK, PoolTypeOK
<1>3. s # NoSession
  BY ServerAssumption
<1>4. \A f \in Endpoints : pending[f] # s
  BY <1>1, <1>3 DEF IInv, SessionInv
<1>5. /\ pending' \in [Endpoints -> Sessions \cup {NoSession}]
      /\ service' \in [Sessions -> Services]
      /\ op' \in [Sessions -> {"deleted", "accept", "read", "write"}]
      /\ unsent' \in [Sessions -> 0..ReplyLength]
      /\ garbled' \subseteq Sessions
  BY <1>1, ServerAssumption DEF IInv, TypeOK
<1>6. /\ pending'[e] = s
      /\ \A f \in Endpoints : f # e => pending'[f] = pending[f]
      /\ op'[s] = "accept"
      /\ \A t \in Sessions : t # s => op'[t] = op[t] /\ service'[t] = service[t]
  BY <1>1 DEF IInv, TypeOK
<1>7. \A f \in Endpoints : pending'[f] # NoSession => op'[pending'[f]] = "accept"
  BY <1>4, <1>6 DEF IInv, SessionInv, TypeOK
<1>8. \A t \in Sessions : op'[t] = "accept" => \E f \in Endpoints : pending'[f] = t
  BY <1>6, ServerAssumption DEF IInv, SessionInv
<1>9. pending'["tcp"] = pending'["unix"] => pending'["tcp"] = NoSession
  BY <1>4, <1>6 DEF Endpoints
<1> QED
  BY <1>1, <1>2, <1>3, <1>5, <1>6, <1>7, <1>8, <1>9

----------------------------------------------------------------------------
LEMMA InitIInv == Init => IInv
<1> SUFFICES ASSUME Init PROVE IInv
  OBVIOUS
<1>1. TypeOK
  BY WorkersAssumption, ServerAssumption, ServiceZero, HandlerKinds
     DEF Init, PoolInit, TypeOK, PoolTypeOK, Services, Endpoints
<1>2. RoundRobin
  BY WorkersAssumption DEF Init, PoolInit, RoundRobin, Services
<1>3. SessionInv
  BY HandlerKinds DEF Init, SessionInv, Endpoints
<1>4. KeepsAccepting
  BY DEF Init, KeepsAccepting
<1>5. StartInv
  BY ServiceZero, HandlerKinds DEF Init, PoolInit, StartInv, Endpoints
<1> QED
  BY <1>1, <1>2, <1>3, <1>4, <1>5 DEF IInv

\* The main thread builds the two endpoints.
LEMMA CreateStep ==
    ASSUME IInv,
           \/ createEndpoint("tcp", "unix")
           \/ createEndpoint("unix", "start")
    PROVE  IInv'
<1>1. PICK e \in Endpoints, next \in {"unix", "start"} :
         createEndpoint(e, next) /\ (e = "tcp" <=> next = "unix")
  BY DEF Endpoints
<1>2. /\ main = e /\ pending[e] = NoSession
      /\ \A i \in Services : thread[i] = "none" /\ handler[i] = Idle
  BY <1>1 DEF createEndpoint, IInv, StartInv, Endpoints
<1>3. UNCHANGED <<stopped, thread, signal, handler>>
  BY <1>1 DEF createEndpoint
<1>4. CASE startAccept(e) /\ main' = next
  <2>1. TypeOK' /\ RoundRobin'
    BY <1>2, <1>3, <1>4, StartAcceptStep DEF IInv, TypeOK, PoolTypeOK
  <2>2. SessionInv'
    BY <1>2, <1>3, <1>4, StartAcceptStep, HandlerKinds DEF SessionInv
  <2>3. KeepsAccepting' /\ StartInv'
    BY <1>1, <1>2, <1>3, <1>4, StartAcceptStep, HandlerKinds, ServiceZero
       DEF IInv, KeepsAccepting, StartInv, Endpoints
  <2> QED
    BY <2>1, <2>2, <2>3 DEF IInv
<1>5. CASE main' = "failed" /\ UNCHANGED <<m_next, served, pending, sessionVars>>
  BY <1>2, <1>3, <1>5, HandlerKinds, ServiceZero
     DEF IInv, TypeOK, PoolTypeOK, RoundRobin, SessionInv, KeepsAccepting, StartInv, sessionVars
<1> QED
  BY <1>1, <1>4, <1>5 DEF createEndpoint

\* The steps that touch neither the sessions nor the round robin.
LEMMA ThreadStep ==
    ASSUME IInv,
           \/ start
           \/ raise
           \/ \E i \in Services : exit(i)
    PROVE  IInv'
<1>1. UNCHANGED <<m_next, served, stopped, handler, pending, sessionVars>>
  BY DEF start, raise, exit, Spawn, RunReturns, poolVars
<1>2. /\ thread' \in [Services -> {"none", "running", "exited"}]
      /\ signal' \in {"none", "raised", "taken"}
  BY DEF start, raise, exit, Spawn, RunReturns, poolVars, IInv, TypeOK, PoolTypeOK
<1>3. \/ main' = main
      \/ main = "start" /\ main' = "returned"
  BY DEF start, raise, exit
<1>4. main' \in {"tcp", "unix"} => thread' = thread
  BY ServiceZero DEF start, raise, exit, Spawn, RunReturns, poolVars, IInv, StartInv
<1>5. TypeOK' /\ RoundRobin' /\ SessionInv' /\ KeepsAccepting'
  BY <1>1, <1>2, <1>3
     DEF IInv, TypeOK, PoolTypeOK, RoundRobin, SessionInv, KeepsAccepting, sessionVars
<1>6. StartInv'
  BY <1>1, <1>3, <1>4 DEF IInv, StartInv
<1> QED
  BY <1>5, <1>6 DEF IInv

\* The steps of worker 0 that belong to accepting.
LEMMA AcceptStep ==
    ASSUME IInv, acceptAgain \/ \E e \in Endpoints : handleAccept(e)
    PROVE  IInv'
<1>1. CASE acceptAgain
  <2> DEFINE e == handler[0].endpoint
  <2>1. /\ e \in Endpoints /\ pending[e] = NoSession
        /\ handler[0] = [kind |-> "accepted", endpoint |-> e]
    BY <1>1, ServiceZero, HandlerKinds DEF acceptAgain, IInv, StartInv, TypeOK
  <2>2. /\ startAccept(e)
        /\ handler' = [handler EXCEPT ![0] = Idle]
        /\ UNCHANGED <<stopped, thread, main, signal>>
    BY <1>1 DEF acceptAgain, Run
  <2>3. main \notin {"tcp", "unix"}
    BY <1>1, ServiceZero, HandlerKinds DEF acceptAgain, IInv, StartInv
  <2> HIDE DEF e
  <2>4. TypeOK' /\ RoundRobin'
    BY <2>1, <2>2, StartAcceptStep, HandlerKinds DEF IInv, TypeOK, PoolTypeOK
  <2>5. SessionInv'
    BY <2>1, <2>2, StartAcceptStep, HandlerKinds, ServiceZero DEF IInv, TypeOK, SessionInv
  <2>6. KeepsAccepting'
    <3>1. \A f \in Endpoints :
             f # e => handler[0] # [kind |-> "accepted", endpoint |-> f]
      BY <2>1, HandlerKinds
    <3>2. \A f \in Endpoints : f # e => pending'[f] = pending[f]
      BY <2>1, <2>2, StartAcceptStep
    <3>3. pending'[e] # NoSession
      BY <2>1, <2>2, StartAcceptStep
    <3>4. main \in {"start", "returned"} => \A f \in Endpoints : pending'[f] # NoSession
      BY <3>1, <3>2, <3>3 DEF IInv, KeepsAccepting
    <3> QED
      BY <2>2, <3>4 DEF KeepsAccepting
  <2>7. StartInv'
    BY <2>2, <2>3, HandlerKinds, ServiceZero DEF IInv, TypeOK, StartInv
  <2> QED
    BY <2>4, <2>5, <2>6, <2>7 DEF IInv
<1>2. ASSUME NEW e \in Endpoints, handleAccept(e)
      PROVE  IInv'
  <2>1. /\ thread[0] = "running" /\ handler[0] = Idle
        /\ pending[e] # NoSession
        /\ pending' = [pending EXCEPT ![e] = NoSession]
        /\ handler' = [handler EXCEPT ![0] = [kind |-> "accepted", endpoint |-> e]]
        /\ UNCHANGED <<poolVars, main, signal, service, unsent, garbled>>
    BY <1>2 DEF handleAccept, Ready, Run
  <2>2. PICK next \in {"read", "deleted"} : op' = [op EXCEPT ![pending[e]] = next]
    BY <1>2 DEF handleAccept
  <2>3. pending[e] \in Sessions /\ op[pending[e]] = "accept"
    BY <2>1 DEF IInv, SessionInv, TypeOK
  <2>4. main \notin {"tcp", "unix"}
    BY <2>1, ServiceZero DEF IInv, StartInv
  <2>5. TypeOK' /\ RoundRobin'
    BY <2>1, <2>2, HandlerKinds DEF IInv, TypeOK, PoolTypeOK, RoundRobin, poolVars
  <2>6. SessionInv'
    <3>1. \A f \in Endpoints : f # e => pending'[f] = pending[f]
      BY <2>1 DEF IInv, TypeOK
    <3>2. pending'[e] = NoSession
      BY <2>1 DEF IInv, TypeOK
    <3>3. \A f \in Endpoints : pending[f] = pending[e] => f = e
      BY <2>1 DEF IInv, SessionInv, Endpoints
    <3>4. \A s \in Sessions : s # pending[e] => op'[s] = op[s]
      BY <2>2 DEF IInv, TypeOK
    <3>5. op'[pending[e]] # "accept"
      BY <2>2, <2>3 DEF IInv, TypeOK
    <3>6. \A f \in Endpoints : pending'[f] # NoSession => op'[pending'[f]] = "accept"
      BY <3>1, <3>2, <3>3, <3>4 DEF IInv, SessionInv, TypeOK
    <3>7. \A s \in Sessions : op'[s] = "accept" => \E f \in Endpoints : pending'[f] = s
      BY <3>1, <3>4, <3>5 DEF IInv, SessionInv
    <3>8. pending'["tcp"] = pending'["unix"] => pending'["tcp"] = NoSession
      BY <3>2 DEF Endpoints
    <3>9. \A i \in Services : handler'[i].kind = "executing" =>
             op'[handler'[i].session] = "write" /\ service'[handler'[i].session] = i
      <4> SUFFICES ASSUME NEW i \in Services, handler'[i].kind = "executing"
                   PROVE  op'[handler'[i].session] = "write" /\ service'[handler'[i].session] = i
        OBVIOUS
      <4>1. handler'[i] = handler[i]
        BY <2>1, HandlerKinds DEF IInv, TypeOK
      <4>2. op[handler[i].session] = "write" /\ handler[i].session \in Sessions
        BY <4>1, HandlerKinds DEF IInv, TypeOK, SessionInv
      <4> QED
        BY <2>1, <2>3, <3>4, <4>1, <4>2 DEF IInv, SessionInv
    <3> QED
      BY <3>6, <3>7, <3>8, <3>9 DEF SessionInv
  <2>7. KeepsAccepting'
    BY <2>1, HandlerKinds, ServiceZero DEF IInv, TypeOK, KeepsAccepting
  <2>8. StartInv'
    BY <2>1, <2>4, HandlerKinds, ServiceZero DEF IInv, TypeOK, StartInv
  <2> QED
    BY <2>5, <2>6, <2>7, <2>8 DEF IInv
<1> QED
  BY <1>1, <1>2

\* The steps of one session: its worker is free and runs one handler of it.
LEMMA SessionStep ==
    ASSUME IInv, NEW s \in Sessions, handleRead(s) \/ writeMore(s) \/ handleWrite(s)
    PROVE  IInv'
<1> DEFINE i == service[s]
           h == [kind |-> "executing", session |-> s]
<1>1. /\ op[s] \in {"read", "write"}
      /\ thread[i] = "running" /\ handler[i] = Idle
      /\ UNCHANGED <<poolVars, main, signal, pending, service>>
  BY DEF handleRead, writeMore, handleWrite, Ready
<1>2. i \in Services
  BY DEF IInv, TypeOK
<1>3. main \notin {"tcp", "unix"}
  BY <1>1, <1>2 DEF IInv, StartInv
<1>4. /\ op' \in [Sessions -> {"deleted", "accept", "read", "write"}]
      /\ \A t \in Sessions : t # s => op'[t] = op[t]
      /\ op'[s] # "accept"
  BY <1>1 DEF handleRead, writeMore, handleWrite, Delete, asyncRead, asyncWrite, IInv, TypeOK
<1>5. /\ unsent' \in [Sessions -> 0..ReplyLength]
      /\ garbled' \subseteq Sessions
  <2>1. CASE handleRead(s)
    BY <2>1, ServerAssumption DEF handleRead, Delete, asyncRead, asyncWrite, IInv, TypeOK
  <2>2. CASE writeMore(s)
    BY <2>2, ServerAssumption DEF writeMore, IInv, TypeOK
  <2>3. CASE handleWrite(s)
    BY <2>3 DEF handleWrite, Delete, asyncRead, IInv, TypeOK
  <2> QED
    BY <2>1, <2>2, <2>3
<1>6. \/ handler' = handler
      \/ handler' = [handler EXCEPT ![i] = h] /\ op'[s] = "write"
  BY DEF handleRead, writeMore, handleWrite, Delete, asyncRead, asyncWrite, Run, IInv, TypeOK
<1>7. h \in Handlers /\ h.kind = "executing" /\ h.session = s
  BY HandlerKinds
<1> HIDE DEF i, h
<1>8. TypeOK' /\ RoundRobin'
  BY <1>1, <1>4, <1>5, <1>6, <1>7 DEF IInv, TypeOK, PoolTypeOK, RoundRobin, poolVars
<1>9. SessionInv'
  <2>1. \A e \in Endpoints : pending'[e] # NoSession => op'[pending'[e]] = "accept"
    BY <1>1, <1>4 DEF IInv, SessionInv, TypeOK
  <2>2. \A t \in Sessions : op'[t] = "accept" => \E e \in Endpoints : pending'[e] = t
    BY <1>1, <1>4 DEF IInv, SessionInv
  <2>3. ASSUME NEW j \in Services, handler'[j].kind = "executing"
        PROVE  op'[handler'[j].session] = "write" /\ service'[handler'[j].session] = j
    <3>1. CASE handler'[j] = handler[j]
      <4>1. /\ handler[j].session \in Sessions
            /\ op[handler[j].session] = "write" /\ service[handler[j].session] = j
        BY <2>3, <3>1, HandlerKinds DEF IInv, TypeOK, SessionInv
      <4>2. j # i
        BY <1>1, <2>3, <3>1, HandlerKinds
      <4>3. handler[j].session # s
        BY <4>1, <4>2 DEF i
      <4> QED
        BY <1>1, <1>4, <3>1, <4>1, <4>3
    <3>2. CASE handler'[j] # handler[j]
      <4>1. j = i /\ handler'[j] = h /\ op'[s] = "write"
        BY <1>2, <1>6, <3>2 DEF IInv, TypeOK
      <4> QED
        BY <1>1, <1>7, <4>1 DEF i
    <3> QED
      BY <3>1, <3>2
  <2> QED
    BY <1>1, <2>1, <2>2, <2>3 DEF IInv, SessionInv
<1>10. KeepsAccepting'
  <2>1. main \in {"start", "returned"} /\ handler'[0] # handler[0] =>
           \A e \in Endpoints : pending[e] # NoSession
    <3>1. handler'[0] # handler[0] => handler[0] = Idle
      BY <1>1, <1>2, <1>6, ServiceZero DEF IInv, TypeOK
    <3> QED
      BY <3>1, IdleAccepts, HandlerKinds DEF IInv
  <2> QED
    BY <1>1, <2>1 DEF IInv, KeepsAccepting
<1>11. StartInv'
  <2>1. handler'[0].kind = "accepted" => handler'[0] = handler[0]
    BY <1>6, <1>7, ServiceZero DEF IInv, TypeOK
  <2> QED
    BY <1>1, <1>3, <2>1 DEF IInv, StartInv
<1> QED
  BY <1>8, <1>9, <1>10, <1>11 DEF IInv

\* A handler ends, or worker 0 goes on with stop(): nothing else changes.
LEMMA StopStep ==
    ASSUME IInv, handleStop \/ stop \/ \E i \in Services : executed(i)
    PROVE  IInv'
<1>1. /\ UNCHANGED <<m_next, served, thread, main, pending, sessionVars>>
      /\ signal' \in {"none", "raised", "taken"}
  BY DEF handleStop, stop, executed, StopService, poolVars, IInv, TypeOK
<1>2. stopped' \subseteq Services
  <2>1. CASE stop
    BY <2>1, HandlerKinds, ServiceZero DEF stop, StopService, IInv, TypeOK, PoolTypeOK
  <2>2. CASE stopped' = stopped
    BY <2>2 DEF IInv, TypeOK, PoolTypeOK
  <2> QED
    BY <2>1, <2>2 DEF handleStop, executed, poolVars
<1>3. PICK i \in Services, g \in Handlers :
         /\ handler' = [handler EXCEPT ![i] = g]
         /\ g.kind \in {"idle", "stopping"}
         /\ handler[i].kind # "accepted"
         /\ main \notin {"tcp", "unix"}
  <2>1. CASE handleStop
    <3>1. /\ handler' = [handler EXCEPT ![0] = [kind |-> "stopping", next |-> 0]]
          /\ handler[0] = Idle /\ thread[0] = "running"
      BY <2>1 DEF handleStop, Run, Ready
    <3> QED
      BY <3>1, HandlerKinds, ServiceZero DEF IInv, StartInv
  <2>2. CASE stop
    <3>1. handler[0].kind = "stopping" /\ handler[0] \in Handlers
      BY <2>2, ServiceZero DEF stop, IInv, TypeOK
    <3>2. PICK g \in Handlers : /\ handler' = [handler EXCEPT ![0] = g]
                                /\ g.kind \in {"idle", "stopping"}
      <4>1. CASE handler[0].next + 1 \in Services
        BY <2>2, <4>1, HandlerKinds DEF stop, Run
      <4>2. CASE handler[0].next + 1 \notin Services
        BY <2>2, <4>2, HandlerKinds DEF stop, Run
      <4> QED
        BY <4>1, <4>2
    <3> QED
      BY <3>1, <3>2, HandlerKinds, ServiceZero DEF IInv, StartInv
  <2>3. CASE \E i \in Services : executed(i)
    BY <2>3, HandlerKinds DEF executed, Run, IInv, StartInv
  <2> QED
    BY <2>1, <2>2, <2>3
<1>4. TypeOK' /\ RoundRobin'
  BY <1>1, <1>2, <1>3 DEF IInv, TypeOK, PoolTypeOK, RoundRobin, sessionVars
<1>5. SessionInv'
  BY <1>1, <1>3 DEF IInv, TypeOK, SessionInv, sessionVars
<1>6. KeepsAccepting'
  <2>1. handler'[0] # handler[0] => handler[0].kind # "accepted"
    BY <1>3, ServiceZero DEF IInv, TypeOK
  <2>2. main \in {"start", "returned"} /\ handler[0].kind # "accepted" =>
           \A e \in Endpoints : pending[e] # NoSession
    BY IdleAccepts DEF IInv
  <2> QED
    BY <1>1, <2>1, <2>2 DEF IInv, KeepsAccepting
<1>7. StartInv'
  BY <1>1, <1>3, ServiceZero DEF IInv, TypeOK, StartInv
<1> QED
  BY <1>4, <1>5, <1>6, <1>7 DEF IInv

----------------------------------------------------------------------------
\* The inductive invariant: types, the round robin, who owns which session, the
\* accept loops, and the order of start-up.
THEOREM ServerInvariance == Spec => []IInv
<1>1. IInv /\ [Next]_vars => IInv'
  <2> SUFFICES ASSUME IInv, [Next]_vars PROVE IInv'
    OBVIOUS
  <2>1. CASE Main
    BY <2>1, CreateStep, ThreadStep DEF Main
  <2>2. CASE \E i \in Services : Finish(i)
    BY <2>2, AcceptStep, StopStep, ThreadStep DEF Finish
  <2>3. CASE \E e \in Endpoints : handleAccept(e)
    BY <2>3, AcceptStep
  <2>4. CASE \E s \in Sessions : handleRead(s) \/ writeMore(s) \/ handleWrite(s)
    BY <2>4, SessionStep
  <2>5. CASE raise \/ handleStop
    BY <2>5, ThreadStep, StopStep
  <2>6. CASE UNCHANGED vars
    BY <2>6
       DEF vars, poolVars, sessionVars, IInv, TypeOK, PoolTypeOK, RoundRobin, SessionInv,
           KeepsAccepting, StartInv
  <2> QED
    BY <2>1, <2>2, <2>3, <2>4, <2>5, <2>6 DEF Next
<1> QED
  BY InitIInv, <1>1, PTL DEF Spec

\* The types of the server's state (CommandServer, IoServicePool, Session).
THEOREM ServerTypes == Spec => []TypeOK
BY ServerInvariance, PTL DEF IInv

\* With any number of workers, none gets a second session in a round
\* (IoServicePool::ioService).
THEOREM Balanced == Spec => []RoundRobin
BY ServerInvariance, PTL DEF IInv

\* Sessions on any number of workers: one accept, or one chain of reads and
\* writes, for each, and nothing that outlives it (Session, CommandServer::handleAccept*).
THEOREM OneOwner == Spec => []SessionInv
BY ServerInvariance, PTL DEF IInv

\* Neither accept loop ever ends while the server runs (CommandServer::handleAccept*).
THEOREM AcceptsForEver == Spec => []KeepsAccepting
BY ServerInvariance, PTL DEF IInv

============================================================================
