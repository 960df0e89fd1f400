----------------------------- MODULE HashTable -----------------------------
(***************************************************************************)
(* Db::HashTable: a std::unordered_map behind a boost::shared_mutex,       *)
(* called by every worker thread.  The body of each operation is split     *)
(* where another thread could get between two accesses of the map if the   *)
(* locks let it.                                                           *)
(***************************************************************************)
EXTENDS DbInterface

VARIABLES m_table,  \* [Keys -> Values or NotFound]
          visited   \* the keys each thread's foreach loop has passed

vars == <<callVars, m_table, visited, published>>

TypeOK ==
    /\ CallTypeOK
    /\ m_table \in Table
    /\ visited \in [Threads -> SUBSET Keys]
    /\ published \in Table

Init ==
    /\ CallInit
    /\ m_table = [k \in Keys |-> NotFound]
    /\ visited = [t \in Threads |-> {}]
    /\ published = m_table

----------------------------------------------------------------------------
\* get: m_table.find(key); the iterator is dereferenced in a later step
get(t) ==
    /\ call[t].op = "get"
    /\ LET k == call[t].key
       IN  \/ /\ pc[t] = "find"
              /\ m_table[k] = NotFound
              /\ Answer(t, REPLY_NIL, "unlock")
           \/ /\ pc[t] = "find"
              /\ m_table[k] # NotFound
              /\ Goto(t, "act")
              /\ UNCHANGED reply
           \/ /\ pc[t] = "act"
              /\ Answer(t, toReplyString(m_table[k]), "unlock")
    /\ UNCHANGED <<m_table, visited>>

\* Mutant: insert instead of operator[], which keeps the value of an old key.
setMutantInsert(t) ==
    /\ call[t].op = "set"
    /\ pc[t] = "find"
    /\ m_table' = [m_table EXCEPT ![call[t].key] = IF @ = NotFound THEN call[t].value ELSE @]
    /\ Answer(t, REPLY_OK, "downgrade")
    /\ UNCHANGED visited

\* set: operator[] inserts an empty value for a new key, then it is assigned
set(t) ==
    /\ call[t].op = "set"
    /\ LET k == call[t].key
       IN  \/ /\ pc[t] = "find"
              /\ m_table' = [m_table EXCEPT ![k] = IF @ = NotFound THEN EmptyValue ELSE @]
              /\ Goto(t, "act")
              /\ UNCHANGED reply
           \/ /\ pc[t] = "act"
              /\ m_table' = [m_table EXCEPT ![k] = call[t].value]
              /\ Answer(t, REPLY_OK, "downgrade")
    /\ UNCHANGED visited

\* del: find, then erase through the iterator
del(t) ==
    /\ call[t].op = "del"
    /\ LET k == call[t].key
       IN  \/ /\ pc[t] = "find"
              /\ m_table[k] = NotFound
              /\ Answer(t, REPLY_FALSE, "downgrade")
              /\ UNCHANGED m_table
           \/ /\ pc[t] = "find"
              /\ m_table[k] # NotFound
              /\ Goto(t, "act")
              /\ UNCHANGED <<m_table, reply>>
           \/ /\ pc[t] = "act"
              /\ m_table' = [m_table EXCEPT ![k] = NotFound]
              /\ Answer(t, REPLY_TRUE, "downgrade")
    /\ UNCHANGED visited

\* foreach: one iteration of the loop, in an order only the map knows
ForeachElement(t, k) ==
    \/ \E v \in Values \cap JsVmCall(t, k, m_table[k]) :
          /\ m_table' = [m_table EXCEPT ![k] = v]
          /\ visited' = [visited EXCEPT ![t] = @ \cup {k}]
          /\ UNCHANGED <<pc, reply, aborted>>
    \/ /\ Throw \in JsVmCall(t, k, m_table[k])
       /\ Answer(t, REPLY_ERROR, "downgrade")
       /\ UNCHANGED <<m_table, visited, aborted>>
    \/ /\ Crash \in JsVmCall(t, k, m_table[k])
       /\ aborted' = TRUE
       /\ UNCHANGED <<pc, reply, m_table, visited>>

\* Mutant: the loop does not advance.
LeftMutantNoAdvance(t) == {k \in Keys : m_table[k] # NotFound}

\* The elements the loop has not reached.
Left(t) == {k \in Keys \ visited[t] : m_table[k] # NotFound}

foreach(t) ==
    /\ call[t].op = "foreach"
    /\ pc[t] = "act"
    /\ \/ \E k \in Left(t) : ForeachElement(t, k)
       \/ /\ Left(t) = {}
          /\ Answer(t, REPLY_TRUE, "downgrade")
          /\ UNCHANGED <<m_table, visited, aborted>>

Body(t) ==
    /\ \/ (get(t) \/ set(t) \/ del(t)) /\ UNCHANGED aborted
       \/ foreach(t)
    /\ UNCHANGED <<call, m_access, published>>

\* The steps around the body.  A write section ends when its exclusive lock is
\* given back; the iterator of a foreach loop dies with the call.
LockStep(t) ==
    /\ LockCall(t)
    /\ published' = IF pc[t] = "downgrade" THEN m_table ELSE published
    /\ visited' = IF pc[t] = "return" THEN [visited EXCEPT ![t] = {}] ELSE visited
    /\ UNCHANGED m_table

Step(t) == LockStep(t) \/ Body(t)

Next ==
    \/ /\ ~aborted
       /\ \E t \in Threads :
             \/ Step(t)
             \/ Enter(t) /\ UNCHANGED <<m_table, visited, published>>
    \/ aborted /\ UNCHANGED vars

Spec == Init /\ [][Next]_vars

\* Worker threads are scheduled and scripts terminate.  The mutex is fair: the
\* last reader to leave hands the table to the waiting upgrader, and a thread
\* that could take the mutex again and again takes it in the end.
Fairness == \A t \in Threads : SF_vars(LockStep(t)) /\ WF_vars(Body(t))

FairSpec == Spec /\ Fairness

----------------------------------------------------------------------------
(* What the table is, seen from outside its critical sections.             *)

\* get, set, del and foreach are linearizable: every interleaving of the worker
\* threads answers as if each call had happened at one instant, on a map.
ImplementsKeyValueStore == KVS!Spec

----------------------------------------------------------------------------
(* The inductive invariant: how far the table may be from the published    *)
(* one, for each place in each operation.                                  *)

\* The loop state of foreach is fresh when its body begins; the operations of
\* the hash table use no other places than these.
LoopInv ==
    \A t \in Threads :
       /\ pc[t] \in {"idle", "init", "lock", "upgrade"} => visited[t] = {}
       /\ pc[t] \notin {"insert", "dispose"}

\* What an operation has done to the table so far.
SetInv(t) ==
    LET k == call[t].key
    IN  /\ pc[t] = "act" =>
              m_table = [published EXCEPT ![k] = IF @ = NotFound THEN EmptyValue ELSE @]
        /\ pc[t] = "downgrade" =>
              /\ m_table = [published EXCEPT ![k] = call[t].value]
              /\ reply[t] = REPLY_OK

DelInv(t) ==
    LET k == call[t].key
    IN  /\ pc[t] = "act" => m_table = published /\ k \in Present
        /\ pc[t] = "downgrade" =>
              /\ m_table = [published EXCEPT ![k] = NotFound]
              /\ reply[t] = IF k \in Present THEN REPLY_TRUE ELSE REPLY_FALSE

ForeachInv(t) ==
    pc[t] \in {"act", "downgrade"} =>
       /\ visited[t] \subseteq Present
       /\ \A k \in Keys :
             IF k \in visited[t]
             THEN m_table[k] \in Values \cap JsResult(call[t].script, k, published[k])
             ELSE m_table[k] = published[k]
       /\ pc[t] = "downgrade" =>
             \/ reply[t] = REPLY_TRUE /\ visited[t] = Present
             \/ /\ reply[t] = REPLY_ERROR
                /\ \E k \in Present \ visited[t] :
                      Throw \in JsResult(call[t].script, k, published[k])

WorkInv ==
    \A t \in Threads :
       /\ pc[t] = "find" => m_table = published
       /\ call[t].op = "get" /\ pc[t] = "act" => call[t].key \in Present
       /\ call[t].op = "set" => SetInv(t)
       /\ call[t].op = "del" => DelInv(t)
       /\ call[t].op = "foreach" => ForeachInv(t)

\* With nobody in a write section the table is the published one: a failed or
\* finished operation leaves nothing half done behind.
NothingUncommitted == m_access.exclusive = NoThread => m_table = published

IInv == TypeOK /\ CallInv /\ LockInv /\ LoopInv /\ WorkInv /\ NothingUncommitted

============================================================================
