--------------------------- MODULE StartupProofs ---------------------------
(***************************************************************************)
(* Any number of servers on one endpoint: the one that listens there keeps the *)
(* socket path, and nothing a dead server leaves behind makes a start      *)
(* fail.                                                                   *)
(***************************************************************************)
EXTENDS Startup, TLAPS

\* A step of one server, up to the ends of processes and of connections.
Start(s) == open(s) \/ bindTcp(s) \/ listenTcp(s) \/ unlink(s) \/ bindUnix(s) \/ listenUnix(s)

\* No server has an endpoint at first.
LEMMA InitStartup == Init => StartupInv
  BY DEF Init, StartupInv, TypeOK, Labels, Listens, Taken

\* Taking an endpoint keeps the invariant: a server that listens finds nobody
\* else listening, and one that touches the path is the one that listens.
LEMMA StartKeeps ==
    ASSUME OneEndpoint, StartupInv, NEW s \in Servers, Start(s)
    PROVE  StartupInv'
  <1> USE StartupAssumption DEF Call
  <1>1. TypeOK'
    BY DEF Start, open, bindTcp, listenTcp, unlink, bindUnix, listenUnix, StartupInv, TypeOK,
           Labels
  <1>2. \A u, w \in Servers : Listens(u)' /\ Listens(w)' => u = w
    <2>1. \A u, w \in Servers : Listens(u) /\ Listens(w) => u = w
      BY DEF StartupInv, Taken, OneEndpoint
    <2>2. Listens(s)' /\ ~Listens(s) => \A u \in Servers \ {s} : ~Listens(u)
      BY DEF Start, open, bindTcp, listenTcp, unlink, bindUnix, listenUnix, StartupInv, TypeOK,
             Listens, Taken, OneEndpoint
    <2>3. \A u \in Servers \ {s} : Listens(u)' <=> Listens(u)
      BY DEF Start, open, bindTcp, listenTcp, unlink, bindUnix, listenUnix, StartupInv, TypeOK,
             Listens
    <2> QED
      BY <2>1, <2>2, <2>3
  <1>3. \A u \in Servers : Listens(u)' => ~Taken(u)'
    BY <1>2 DEF Taken
  <1>4. ASSUME NEW u \in Servers
        PROVE  /\ pc'[u] = "unlinked" => file' = NoServer \/ Stuck(u)'
               /\ pc'[u] \in {"named", "running"} => file' = u
    BY <1>2, <1>4 DEF Start, open, bindTcp, listenTcp, unlink, bindUnix, listenUnix, StartupInv,
                      TypeOK, Listens, Stuck
  <1> QED
    BY <1>1, <1>3, <1>4 DEF StartupInv

\* The end of a process, or of its last connections, takes nothing from anyone.
LEMMA EndKeeps ==
    ASSUME StartupInv, (\E s \in Servers : end(s)) \/ (\E p \in Ports : expire(p)) \/ UNCHANGED vars
    PROVE  StartupInv'
  <1>1. CASE \E s \in Servers : end(s)
    <2>1. PICK s \in Servers : end(s)
      BY <1>1
    <2>2. TypeOK'
      BY <2>1 DEF end, StartupInv, TypeOK, Labels, Ports
    <2> QED
      BY <2>1, <2>2 DEF end, StartupInv, TypeOK, Listens, Taken, Stuck
  <1>2. CASE \E p \in Ports : expire(p)
    BY <1>2 DEF expire, StartupInv, TypeOK, Listens, Taken, Stuck
  <1>3. CASE UNCHANGED vars
    BY <1>3 DEF vars, StartupInv, TypeOK, Listens, Taken, Stuck
  <1> QED
    BY <1>1, <1>2, <1>3

LEMMA NextKeeps ==
    ASSUME OneEndpoint, StartupInv, [Next]_vars PROVE StartupInv'
  BY StartKeeps, EndKeeps DEF Next, Start

\* The inductive invariant, for any number of servers on one endpoint.
THEOREM StartupInvariance ==
    ASSUME OneEndpoint PROVE Spec => []StartupInv
  BY InitStartup, NextKeeps, PTL DEF Spec

\* A running server keeps its socket path, whatever the others do
\* (commandserver.cpp:65-102).
THEOREM SocketStays ==
    ASSUME OneEndpoint PROVE Spec => []SocketKept
  <1>1. StartupInv => SocketKept
    BY DEF StartupInv, SocketKept
  <1> QED
    BY <1>1, StartupInvariance, PTL

\* A start fails only for a live server on the endpoint, or for a file that may not
\* be removed (commandserver.cpp:79-98).
THEOREM RestartWorks ==
    ASSUME OneEndpoint PROVE Spec => FailsForLiveServerOnly
  <1>1. ASSUME StartupInv, [Next]_vars
        PROVE  [\A s \in Servers : pc[s] # "failed" /\ pc'[s] = "failed" => Taken(s) \/ Stuck(s)]_vars
    <2> SUFFICES ASSUME NEW s \in Servers, pc[s] # "failed", pc'[s] = "failed"
                 PROVE  Taken(s) \/ Stuck(s)
      OBVIOUS
    <2>1. PICK u \in Servers : Start(u) \/ end(u)
      BY <1>1 DEF Next, Start, expire, vars
    <2>2. u = s /\ (bindTcp(s) \/ listenTcp(s) \/ bindUnix(s))
      BY <1>1, <2>1 DEF Start, open, bindTcp, listenTcp, unlink, bindUnix, listenUnix, end, Call,
                        StartupInv, TypeOK
    <2>3. CASE bindUnix(s)
      BY <1>1, <2>3 DEF bindUnix, Call, StartupInv, TypeOK
    <2>4. CASE bindTcp(s) \/ listenTcp(s)
      BY <1>1, <2>4 DEF bindTcp, listenTcp, Call, StartupInv, TypeOK
    <2> QED
      BY <2>2, <2>3, <2>4
  <1> QED
    BY <1>1, StartupInvariance, PTL DEF Spec, FailsForLiveServerOnly

============================================================================
