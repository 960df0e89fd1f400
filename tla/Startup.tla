------------------------------ MODULE Startup ------------------------------
(***************************************************************************)
(* Server processes that are started, stopped, killed and started again on *)
(* one machine with one socket path (a default: boostcached.sock): the     *)
(* system calls with which CommandServer's constructor takes the port and  *)
(* then the path.  A process that ends leaves its socket's file behind,    *)
(* and connections in TIME_WAIT on its port.  The calls are those of       *)
(* Linux: two sockets with SO_REUSEADDR may be bound to one port as long   *)
(* as neither listens.  The host is taken to resolve, and the path's       *)
(* directory to be one where files can be made.                            *)
(***************************************************************************)
CONSTANTS Servers,
          NoServer,
          Host, Port,  \* what each is given
          AnyHost,     \* 0.0.0.0
          Removable    \* the servers whose files each has the permission to unlink

ASSUME StartupAssumption ==
    /\ NoServer \notin Servers
    /\ \A s \in Servers : Removable[s] \subseteq Servers

VARIABLES pc,       \* how far each process is with its endpoints
          file,     \* the process whose socket the path leads to
          timeWait  \* the ports with connections of a dead process

vars == <<pc, file, timeWait>>

Labels == {"off", "open", "bound", "listening", "unlinked", "named", "running", "failed"}
Ports == {Port[s] : s \in Servers}

TypeOK ==
    /\ pc \in [Servers -> Labels]
    /\ file \in Servers \cup {NoServer}
    /\ timeWait \subseteq Ports

\* Two endpoints of which only one can be listened at.
Clash(s, u) == Port[s] = Port[u] /\ (Host[s] = Host[u] \/ AnyHost \in {Host[s], Host[u]})

\* The endpoint of s is its own until s ends.
Listens(s) == pc[s] \in {"listening", "unlinked", "named", "running"}
Taken(s) == \E u \in Servers \ {s} : Clash(s, u) /\ Listens(u)

Init ==
    /\ pc = [s \in Servers |-> "off"]
    /\ file = NoServer
    /\ timeWait = {}

\* A call that the constructor goes on after, or that throws: EXIT_FAILURE.
Call(s, from, ok, to) ==
    /\ pc[s] = from
    /\ pc' = [pc EXCEPT ![s] = IF ok THEN to ELSE "failed"]

----------------------------------------------------------------------------
(* createTcpEndpoint.                                                      *)

\* main, up to m_tcpAcceptor.open and set_option(reuse_address(true))
open(s) ==
    /\ Call(s, "off", TRUE, "open")
    /\ UNCHANGED <<file, timeWait>>

\* Mutant: no reuse_address.
bindTcpMutantNoReuse(s) ==
    /\ Call(s, "open", ~Taken(s) /\ Port[s] \notin timeWait, "bound")
    /\ UNCHANGED <<file, timeWait>>

bindTcp(s) ==
    /\ Call(s, "open", ~Taken(s), "bound")
    /\ UNCHANGED <<file, timeWait>>

\* Mutant: as if only bind could find the port taken.
listenTcpMutantUnchecked(s) ==
    /\ Call(s, "bound", TRUE, "listening")
    /\ UNCHANGED <<file, timeWait>>

listenTcp(s) ==
    /\ Call(s, "bound", ~Taken(s), "listening")
    /\ UNCHANGED <<file, timeWait>>

----------------------------------------------------------------------------
(* createUnixDomainEndpoint.                                               *)

\* Mutant: the file is left alone.
unlinkMutantNone(s) ==
    /\ Call(s, "listening", TRUE, "unlinked")
    /\ UNCHANGED <<file, timeWait>>

\* Whosever it is, if the permissions allow it; the result is not looked at.
unlink(s) ==
    /\ Call(s, "listening", TRUE, "unlinked")
    /\ file' = IF file \in Removable[s] THEN NoServer ELSE file
    /\ UNCHANGED timeWait

bindUnix(s) ==
    /\ Call(s, "unlinked", file = NoServer, "named")
    /\ file' = IF file = NoServer THEN s ELSE file
    /\ UNCHANGED timeWait

\* listen, and start()
listenUnix(s) ==
    /\ Call(s, "named", TRUE, "running")
    /\ UNCHANGED <<file, timeWait>>

----------------------------------------------------------------------------
\* The process ends at any point: a stop signal, a crash, or after a failure.
end(s) ==
    /\ pc[s] # "off"
    /\ pc' = [pc EXCEPT ![s] = "off"]
    /\ \E left \in {{}, IF pc[s] = "running" THEN {Port[s]} ELSE {}} : timeWait' = timeWait \cup left
    /\ UNCHANGED file

expire(p) ==
    /\ p \in timeWait
    /\ timeWait' = timeWait \ {p}
    /\ UNCHANGED <<pc, file>>

Next ==
    \/ \E s \in Servers : open(s) \/ bindTcp(s) \/ listenTcp(s)
    \/ \E s \in Servers : unlink(s) \/ bindUnix(s) \/ listenUnix(s)
    \/ \E s \in Servers : end(s)
    \/ \E p \in Ports : expire(p)

Spec == Init /\ [][Next]_vars

----------------------------------------------------------------------------
\* Of all servers one at a time can listen: they are given the same port, and the
\* same host or 0.0.0.0.
OneEndpoint == \A s, u \in Servers : Clash(s, u)

\* A server that runs is reached at its socket path, "Socket listen to"
\* (server/options.cpp:22-23).  createUnixDomainEndpoint removes the file of
\* whoever has it, so this rests on createTcpEndpoint, called before it, having
\* failed for every server but one: it holds where OneEndpoint does.
SocketKept == \A s \in Servers : pc[s] = "running" => file = s

\* The path leads to a file that s may not unlink.
Stuck(s) == file # NoServer /\ file \notin Removable[s]

\* A start fails only because a server is up on the endpoint, or because of a
\* file that the process has no permission to remove: never because of the
\* connections that a dead server left behind, nor of its socket file otherwise
\* (commandserver.cpp:79-81, 91).
FailsForLiveServerOnly ==
    [][\A s \in Servers : pc[s] # "failed" /\ pc'[s] = "failed" => Taken(s) \/ Stuck(s)]_vars

\* What both rest on where OneEndpoint holds: one server listens, and while it
\* takes the path nobody else does.
StartupInv ==
    /\ TypeOK
    /\ \A s \in Servers :
          /\ Listens(s) => ~Taken(s)
          /\ pc[s] = "unlinked" => file = NoServer \/ Stuck(s)
          /\ pc[s] \in {"named", "running"} => file = s

============================================================================
