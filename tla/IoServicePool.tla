--------------------------- MODULE IoServicePool ---------------------------
(***************************************************************************)
(* IoServicePool: one boost::asio::io_service for each worker, a thread    *)
(* that runs it, and a round robin over them.                              *)
(***************************************************************************)
EXTENDS Naturals

CONSTANT Workers   \* the --workers option; with none ioService() has no answer

ASSUME WorkersAssumption == Workers \in Nat \ {0}

VARIABLES m_next,  \* the service ioService() will give next
          served,  \* history: the services given in the current round
          stopped, \* the services that have been told to stop
          thread   \* "none" | "running" | "exited", for each service

poolVars == <<m_next, served, stopped, thread>>

Services == 0..(Workers - 1)

PoolTypeOK ==
    /\ m_next \in Services
    /\ served \subseteq Services
    /\ stopped \subseteq Services
    /\ thread \in [Services -> {"none", "running", "exited"}]

\* The constructor, up to the first ioService() (for the acceptors): service 0
PoolInit ==
    /\ m_next = IF Workers = 1 THEN 0 ELSE 1
    /\ served = IF Workers = 1 THEN {} ELSE {0}
    /\ stopped = {}
    /\ thread = [i \in Services |-> "none"]

\* Mutant: m_next wraps around one service too early.
NextServiceMutantEarly == IF m_next + 2 >= Workers THEN 0 ELSE m_next + 1

\* Mutant: m_next never wraps around.
NextServiceMutantNoWrap == m_next + 1

\* ++m_next, back to the first after the last
NextService == IF m_next + 1 = Workers THEN 0 ELSE m_next + 1

\* ioService(): i is the service it gives
ioService(i) ==
    /\ i = m_next
    /\ m_next' = NextService
    /\ served' = IF served \cup {i} = Services THEN {} ELSE served \cup {i}

\* start(): the next thread is created and enters io_service::run
Spawn(i) ==
    /\ thread[i] = "none"
    /\ \A j \in Services : j < i => thread[j] # "none"
    /\ thread' = [thread EXCEPT ![i] = "running"]
    /\ UNCHANGED <<m_next, served, stopped>>

\* io_service::run returns: the service has been stopped
RunReturns(i) ==
    /\ thread[i] = "running"
    /\ i \in stopped
    /\ thread' = [thread EXCEPT ![i] = "exited"]
    /\ UNCHANGED <<m_next, served, stopped>>

\* start(): every join() returns
Joined == \A i \in Services : thread[i] = "exited"

\* Mutant: the loop of stop() leaves the last service out.
StopServiceMutantLast(i) ==
    /\ stopped' = stopped \cup ({i} \ {Workers - 1})
    /\ UNCHANGED <<m_next, served, thread>>

\* stop(): one iteration of its loop
StopService(i) ==
    /\ stopped' = stopped \cup {i}
    /\ UNCHANGED <<m_next, served, thread>>

============================================================================
