-------------------------- MODULE HashTableProofs --------------------------
(***************************************************************************)
(* For any threads, keys, values and scripts: the inductive invariant of   *)
(* HashTable, the absence of data races, and the refinement of             *)
(* KeyValueStore.                                                          *)
(***************************************************************************)
EXTENDS HashTable, DbInterfaceProofs

\* The invariant holds of the empty table (hashtable.cpp:20-23).
LEMMA InitIInv == Init => IInv
  <1> SUFFICES ASSUME Init PROVE IInv
    OBVIOUS
  <1>1. CallTypeOK /\ CallInv /\ LockInv
    BY CallInitially DEF Init
  <1> USE DEF Init, CallInit
  <1>2. TypeOK
    BY <1>1 DEF TypeOK, Table
  <1>3. LoopInv /\ WorkInv
    BY DEF LoopInv, WorkInv, NoCall, SetInv, DelInv, ForeachInv
  <1>4. NothingUncommitted
    BY DEF NothingUncommitted
  <1> QED
    BY <1>1, <1>2, <1>3, <1>4 DEF IInv

----------------------------------------------------------------------------
\* A get that found its key still finds it: the table cannot change while the
\* shared lock is held (hashtable.cpp:28-34).
LEMMA GetFound ==
    ASSUME IInv, NEW t \in Threads, call[t].op = "get", pc[t] = "act"
    PROVE  m_table = published /\ call[t].key \in Present
  BY Reading DEF IInv, Inside, InCriticalSection, NothingUncommitted, WorkInv

\* A step of a body is one that BodyKeeps is about.
LEMMA BodyStep ==
    ASSUME IInv, NEW t \in Threads, Body(t)
    PROVE  CallTypeOK' /\ CallInv' /\ LockInv'
  <1>0. CallTypeOK /\ CallInv /\ LockInv /\ Inside(t)
    BY DEF IInv, TypeOK, Body, get, set, del, foreach, Inside, InCriticalSection
  <1>1. /\ call' = call /\ m_access' = m_access /\ aborted' \in BOOLEAN
        /\ call[t].op = "foreach" => pc[t] = "act"
    BY <1>0 DEF Body, get, set, del, foreach, ForeachElement, CallTypeOK
  <1>2. \E label :
           /\ pc' = [pc EXCEPT ![t] = label]
           /\ \/ label \in InCriticalSection \ {"find"} /\ reply' = reply
              \/ /\ label = IF call[t].op = "get" THEN "unlock" ELSE "downgrade"
                 /\ \E r \in Replies : reply' = [reply EXCEPT ![t] = r]
    <2> USE <1>0, ReplyFacts DEF Goto, Answer, InCriticalSection
    <2>1. CASE get(t)
      <3>1. call[t].key \in Keys
        BY <2>1, CallFields DEF get, CallTypeOK
      <3>2. pc[t] = "act" => m_table[call[t].key] \in Values
        BY <2>1, <3>1, GetFound DEF get, Present, IInv, TypeOK, Table
      <3> QED
        BY <2>1, <3>2 DEF get
    <2>2. CASE set(t)
      BY <2>2 DEF set
    <2>3. CASE del(t)
      BY <2>3 DEF del
    <2>4. CASE foreach(t)
      <3>1. CASE UNCHANGED <<pc, reply>>
        <4>1. pc' = [pc EXCEPT ![t] = "act"]
          BY <2>4, <3>1 DEF foreach, CallTypeOK
        <4> QED
          BY <3>1, <4>1
      <3>2. CASE Answer(t, REPLY_ERROR, "downgrade") \/ Answer(t, REPLY_TRUE, "downgrade")
        BY <2>4, <3>2 DEF foreach
      <3> QED
        BY <2>4, <3>1, <3>2 DEF foreach, ForeachElement
    <2> QED
      BY <2>1, <2>2, <2>3, <2>4 DEF Body
  <1> QED
    BY <1>0, <1>1, <1>2, BodyKeeps

\* Every step keeps calls, replies and mutex in step with where the threads are.
LEMMA CallStep == IInv /\ [Next]_vars => CallTypeOK' /\ CallInv' /\ LockInv'
  <1> SUFFICES ASSUME IInv, [Next]_vars PROVE CallTypeOK' /\ CallInv' /\ LockInv'
    OBVIOUS
  <1>0. CallTypeOK /\ CallInv /\ LockInv
    BY DEF IInv, TypeOK
  <1>1. CASE UNCHANGED vars
    BY <1>0, <1>1 DEF vars, callVars, CallTypeOK, CallInv, LockInv, Inside, Writing
  <1>2. ASSUME NEW t \in Threads, Step(t) \/ Enter(t) PROVE CallTypeOK' /\ CallInv' /\ LockInv'
    BY <1>0, <1>2, BodyStep, LockCallKeeps, EnterKeeps DEF Step, LockStep
  <1> QED
    BY <1>1, <1>2 DEF Next

\* Every step keeps the table in its type, and gives each loop a fresh start.
LEMMA TypeStep == IInv /\ [Next]_vars => TypeOK' /\ LoopInv'
  <1> SUFFICES ASSUME IInv, [Next]_vars PROVE TypeOK' /\ LoopInv'
    OBVIOUS
  <1>0. TypeOK /\ LoopInv /\ CallTypeOK' /\ CallInv
    BY CallStep DEF IInv
  <1> USE <1>0 DEF TypeOK, Table, LoopInv
  <1>1. CASE UNCHANGED vars
    BY <1>1 DEF vars, callVars
  <1>2. ASSUME NEW t \in Threads, LockStep(t) PROVE TypeOK' /\ LoopInv'
    <2>1. TypeOK'
      BY <1>2 DEF LockStep
    <2>2. LoopInv'
      BY <1>2 DEF LockStep, LockCall, JsVmInit, Lock, Upgrade, Downgrade, Unlock, Return, Goto, Answer,
                  CallTypeOK
    <2> QED
      BY <2>1, <2>2
  <1>3. ASSUME NEW t \in Threads, Body(t) PROVE TypeOK' /\ LoopInv'
    <2> USE <1>3, CallFields, DbAssumption DEF Goto, Answer, CallTypeOK
    <2>1. published' = published
      BY DEF Body
    <2>2. CASE get(t) \/ set(t) \/ del(t)
      <3>1. TypeOK'
        BY <2>1, <2>2 DEF get, set, del
      <3>2. LoopInv'
        BY <2>1, <2>2 DEF get, set, del
      <3> QED
        BY <3>1, <3>2
    <2>3. ASSUME NEW k \in Left(t), ForeachElement(t, k), pc[t] = "act" PROVE TypeOK' /\ LoopInv'
      <3>0. k \in Keys /\ visited[t] \in SUBSET Keys
        BY DEF Left
      <3>1. CASE \E v \in Values \cap JsVmCall(t, k, m_table[k]) :
                    /\ m_table' = [m_table EXCEPT ![k] = v]
                    /\ visited' = [visited EXCEPT ![t] = @ \cup {k}]
                    /\ UNCHANGED <<pc, reply, aborted>>
        <4>1. m_table' \in Table
          BY <3>0, <3>1
        <4>2. visited[t] \cup {k} \in SUBSET Keys
          BY <3>0
        <4>3. visited' \in [Threads -> SUBSET Keys]
          BY <3>1, <4>2
        <4> QED
          BY <2>1, <2>3, <3>1, <4>1, <4>3
      <3>2. CASE Answer(t, REPLY_ERROR, "downgrade") /\ UNCHANGED <<m_table, visited, aborted>>
        BY <2>1, <3>2
      <3>3. CASE aborted' = TRUE /\ UNCHANGED <<pc, reply, m_table, visited>>
        BY <2>1, <3>3
      <3> QED
        BY <2>3, <3>1, <3>2, <3>3 DEF ForeachElement
    <2>4. CASE Left(t) = {} /\ Answer(t, REPLY_TRUE, "downgrade")
                            /\ UNCHANGED <<m_table, visited, aborted>>
      BY <2>1, <2>4
    <2> QED
      BY <2>2, <2>3, <2>4 DEF Body, foreach
  <1>4. ASSUME NEW t \in Threads, Enter(t), UNCHANGED <<m_table, visited, published>>
        PROVE  TypeOK' /\ LoopInv'
    BY <1>4 DEF Enter, Goto, CallTypeOK
  <1> QED
    BY <1>1, <1>2, <1>3, <1>4 DEF Next, Step

----------------------------------------------------------------------------
\* Each step of an operation does to the table what the invariant says of the
\* place it leads to.
LEMMA WorkStep == IInv /\ [Next]_vars => WorkInv' /\ NothingUncommitted'
  <1> SUFFICES ASSUME IInv, [Next]_vars PROVE WorkInv' /\ NothingUncommitted'
    OBVIOUS
  <1>0. TypeOK /\ CallInv /\ LockInv /\ LoopInv /\ WorkInv /\ NothingUncommitted
    BY DEF IInv
  <1> USE <1>0 DEF TypeOK, CallTypeOK, MutexType, LockCall, LoopInv
  <1>1. CASE UNCHANGED vars
    BY <1>1 DEF vars, callVars, WorkInv, NothingUncommitted, SetInv, DelInv, ForeachInv, Present
  <1>2. ASSUME NEW t \in Threads, LockStep(t) PROVE WorkInv' /\ NothingUncommitted'
    <2> USE <1>2 DEF Goto
    <2>1. CASE Lock(t)
      BY <2>1, NoThreadAssumption DEF Lock, LockStep, CallInv, lock_shared, lock_upgrade, WorkInv, NothingUncommitted,
                 SetInv, DelInv, ForeachInv, Present
    <2>2. CASE JsVmInit(t) \/ Unlock(t) \/ Return(t)
      BY <2>2, NoThreadAssumption DEF JsVmInit, Answer, Unlock, Return, LockStep, CallInv, NoCall,
            unlock_shared, unlock_upgrade, WorkInv, NothingUncommitted, SetInv, DelInv, ForeachInv, Present
    <2>4. CASE Upgrade(t)
      <3>1. /\ m_table' = m_table /\ published' = published /\ visited' = visited
            /\ call' = call /\ reply' = reply /\ m_access'.exclusive = t
            /\ pc[t] = "upgrade" /\ call[t].op # "get" /\ visited[t] = {}
            /\ pc'[t] = IF call[t].op = "foreach" THEN "act" ELSE "find"
            /\ \A u \in Threads \ {t} : pc'[u] = pc[u]
        BY <2>4 DEF Upgrade, LockStep, CallInv, unlock_upgrade_and_lock
      <3>2. m_table = published
        BY <3>1, NoThreadAssumption DEF LockInv, NothingUncommitted
      <3>3. ASSUME NEW u \in Threads PROVE WorkInv!(u)'
        BY <3>1, <3>2 DEF WorkInv, SetInv, DelInv, ForeachInv, Present
      <3> QED
        BY <3>1, <3>3, NoThreadAssumption DEF WorkInv, NothingUncommitted
    <2>5. CASE Downgrade(t)
      <3>1. /\ m_table' = m_table /\ published' = m_table
            /\ pc'[t] = "unlock" /\ call' = call
        BY <2>5 DEF Downgrade, LockStep
      <3>2. \A u \in Threads \ {t} : pc'[u] = pc[u] /\ ~Inside(u) /\ pc[u] # "downgrade"
        BY <2>5, Alone DEF Downgrade
      <3>3. \A u \in Threads : pc'[u] \notin {"find", "act", "downgrade"}
        BY <3>1, <3>2 DEF Inside, InCriticalSection
      <3> QED
        BY <3>1, <3>3 DEF WorkInv, NothingUncommitted, SetInv, DelInv, ForeachInv
    <2> QED
      BY <2>1, <2>2, <2>4, <2>5 DEF LockStep
  <1>3. ASSUME NEW t \in Threads, Body(t) PROVE WorkInv' /\ NothingUncommitted'
    <2> USE <1>3 DEF Goto, Answer
    <2>0. call' = call /\ m_access' = m_access /\ published' = published
      BY DEF Body
    <2>1. CASE get(t)
      <3>1. /\ m_table' = m_table /\ visited' = visited
            /\ \A u \in Threads \ {t} : pc'[u] = pc[u] /\ reply'[u] = reply[u]
            /\ call[t].op = "get" /\ pc'[t] # "find"
        BY <2>1 DEF get
      <3>2. pc'[t] = "act" => call[t].key \in Present
        BY <2>1, CallFields DEF get, WorkInv, Present
      <3>3. ASSUME NEW u \in Threads PROVE WorkInv!(u)'
        BY <2>0, <3>1, <3>2 DEF WorkInv, SetInv, DelInv, ForeachInv, Present
      <3> QED
        BY <2>0, <3>1, <3>3 DEF WorkInv, NothingUncommitted
    <2>2. ASSUME call[t].op # "get", pc[t] \in {"find", "act"},
                 \A u \in Threads \ {t} : pc'[u] = pc[u],
                 call[t].op = "set" => SetInv(t)',
                 call[t].op = "del" => DelInv(t)',
                 call[t].op = "foreach" => ForeachInv(t)',
                 pc'[t] # "find"
          PROVE  WorkInv' /\ NothingUncommitted'
      <3>1. Writing(t)
        BY <2>2 DEF Writing, Inside, InCriticalSection
      <3>2. \A u \in Threads \ {t} : pc'[u] \notin {"find", "act", "downgrade"}
        BY <2>2, <3>1, Alone DEF Inside, InCriticalSection
      <3>3. m_access'.exclusive # NoThread
        BY <2>0, <3>1, Alone, NoThreadAssumption
      <3> QED
        BY <2>0, <2>2, <3>2, <3>3 DEF WorkInv, NothingUncommitted, SetInv, DelInv, ForeachInv
    <2>3. CASE set(t)
      <3>1. SetInv(t)'
        BY <2>0, <2>3, CallFields DEF set, WorkInv, SetInv, Table
      <3> QED
        BY <2>0, <2>2, <2>3, <3>1 DEF set
    <2>4. CASE del(t)
      <3>1. DelInv(t)'
        BY <2>0, <2>4, CallFields DEF del, WorkInv, DelInv, Table, Present
      <3> QED
        BY <2>0, <2>2, <2>4, <3>1 DEF del
    <2>5. CASE foreach(t)
      <3>1. ForeachInv(t)'
        BY <2>0, <2>5, CallFields DEF foreach, ForeachElement, Left, JsVmCall, WorkInv, ForeachInv, Table, Present
      <3> QED
        BY <2>0, <2>2, <2>5, <3>1 DEF foreach, ForeachElement
    <2> QED
      BY <2>1, <2>3, <2>4, <2>5 DEF Body
  <1>4. ASSUME NEW t \in Threads, Enter(t), UNCHANGED <<m_table, visited, published>>
        PROVE  WorkInv' /\ NothingUncommitted'
    BY <1>4 DEF Enter, Goto, CallInv, WorkInv, NothingUncommitted, SetInv, DelInv, ForeachInv, Present
  <1> QED
    BY <1>1, <1>2, <1>3, <1>4 DEF Next, Step

----------------------------------------------------------------------------
\* The inductive invariant holds in every state, for any number of threads, any
\* keys and values, and whatever the scripts do: types, the mutex in step with
\* the threads, and how far each operation has got with the table.
THEOREM Invariance == Spec => []IInv
  <1>1. Init => IInv
    BY InitIInv
  <1>2. IInv /\ [Next]_vars => IInv'
    BY CallStep, TypeStep, WorkStep DEF IInv
  <1> QED
    BY <1>1, <1>2, PTL DEF Spec

\* No two threads are ever inside the table when one of them may be changing it
\* (the locks of hashtable.cpp:28, 40-41, 51-52, 71-73).
THEOREM RaceFreedom == Spec => []NoDataRace
  <1>1. IInv => NoDataRace
    BY NoRace DEF IInv
  <1> QED
    BY <1>1, Invariance, PTL

----------------------------------------------------------------------------
(* Refinement: every step is a step of KeyValueStore or leaves it alone.   *)

\* A write section ends with the effect its operation promises.
LEMMA Commits ==
    ASSUME IInv, NEW t \in Threads, pc[t] = "downgrade"
    PROVE  Effected(t, m_table)
  <1>1. TypeOK /\ WorkInv!(t)
    BY DEF IInv, WorkInv
  <1>2. call[t].op = "foreach" => visited[t] \in SUBSET Present /\ ForeachInv(t)
    BY <1>1 DEF ForeachInv
  <1> QED
    BY <1>1, <1>2 DEF Effected, TypeOK, SetInv, DelInv, ForeachInv

\* What a step of t inside the table is to a caller: get takes effect when its
\* answer is fixed, a dying process is seen, the steps of the writers are not.
LEMMA BodyRefines ==
    ASSUME IInv, ~aborted, NEW t \in Threads, Body(t)
    PROVE  [KVS!Next]_(KVS!vars)
  <1>0. /\ CallTypeOK /\ TypeOK /\ CallInv /\ WorkInv /\ call' = call /\ published' = published
        /\ Inside(t) /\ pc[t] \notin {"unlock", "return"}
    BY DEF IInv, TypeOK, Body, get, set, del, foreach, Inside, InCriticalSection
  <1>1. \A u \in Threads \ {t} : pc'[u] = pc[u] /\ reply'[u] = reply[u]
    BY <1>0 DEF CallTypeOK, Body, get, set, del, foreach, ForeachElement, Goto, Answer
  <1>2. CASE get(t) /\ UNCHANGED aborted
    <2>1. CASE Goto(t, "act")
      BY <1>0, <1>1, <1>2, <2>1, InsideHidden DEF Goto, CallTypeOK
    <2>2. CASE pc[t] = "find" /\ m_table[call[t].key] = NotFound /\ Answer(t, REPLY_NIL, "unlock")
      <3>1. published[call[t].key] = NotFound
        BY <1>0, <2>2 DEF WorkInv
      <3> QED
        BY <1>0, <1>2, <2>2, <3>1, GetRefines DEF get
    <2>3. CASE pc[t] = "act" /\ Answer(t, toReplyString(m_table[call[t].key]), "unlock")
      <3>1. m_table = published /\ published[call[t].key] # NotFound
        BY <1>2, <2>3, GetFound DEF get, Present
      <3> QED
        BY <1>0, <1>2, <2>3, <3>1, GetRefines DEF get
    <2> QED
      BY <1>2, <2>1, <2>2, <2>3 DEF get
  <1>3. CASE (set(t) \/ del(t)) /\ UNCHANGED aborted
    <2>1. pc'[t] \in {"act", "downgrade"}
      BY <1>0, <1>3 DEF set, del, Goto, Answer, CallTypeOK
    <2> QED
      BY <1>0, <1>1, <1>3, <2>1, InsideHidden
  <1>4. CASE foreach(t)
    <2>1. CASE aborted' = aborted
      <3>1. pc'[t] \in {"act", "downgrade"}
        BY <1>0, <1>4 DEF foreach, ForeachElement, Goto, Answer, CallTypeOK
      <3> QED
        BY <1>0, <1>1, <2>1, <3>1, InsideHidden
    <2>2. CASE aborted' # aborted
      <3>1. PICK k \in Left(t) : /\ Crash \in JsVmCall(t, k, m_table[k])
                                 /\ aborted' = TRUE
                                 /\ UNCHANGED <<pc, reply, m_table, visited>>
        BY <1>4, <2>2 DEF foreach, ForeachElement
      <3>2. /\ call[t].op = "foreach" /\ call[t].script \in Loadable /\ k \in Present
            /\ Crash \in JsResult(call[t].script, k, published[k])
        BY <1>0, <1>4, <3>1 DEF foreach, CallInv, WorkInv, ForeachInv, Left, JsVmCall, Present
      <3> QED
        BY <1>0, <3>1, <3>2, AbortRefines
    <2> QED
      BY <2>1, <2>2
  <1> QED
    BY <1>2, <1>3, <1>4 DEF Body

\* The hash table is linearizable: whatever the worker threads do, their calls
\* are answered as if each had happened at one instant on a map (HashTable::get,
\* set, del and foreach).
THEOREM Linearizable == Spec => ImplementsKeyValueStore
  <1>1. Init => KVS!Init
    BY InitRefines DEF Init
  <1>2. IInv /\ [Next]_vars => [KVS!Next]_(KVS!vars)
    <2> SUFFICES ASSUME IInv, [Next]_vars PROVE [KVS!Next]_(KVS!vars)
      OBVIOUS
    <2>0. CallTypeOK /\ CallInv
      BY DEF IInv, TypeOK
    <2>1. CASE UNCHANGED vars
      BY <2>1 DEF vars, callVars, KVS!vars, AbsReply
    <2>2. ASSUME ~aborted, NEW t \in Threads, Step(t) PROVE [KVS!Next]_(KVS!vars)
      <3>1. CASE LockStep(t) /\ Downgrade(t)
        <4>1. pc[t] = "downgrade" /\ published' = m_table
          BY <3>1 DEF LockStep, Downgrade
        <4> QED
          BY <2>0, <2>2, <3>1, <4>1, Commits, DowngradeRefines
      <3>2. CASE LockStep(t) /\ ~Downgrade(t)
        <4>1. LockCall(t) /\ published' = published
          BY <3>2 DEF LockStep, LockCall, JsVmInit, Lock, Upgrade, Unlock, Return
        <4> QED
          BY <2>0, <2>2, <3>2, <4>1, AroundRefines
      <3> QED
        BY <2>2, <3>1, <3>2, BodyRefines DEF Step
    <2>3. ASSUME ~aborted, NEW t \in Threads, Enter(t), UNCHANGED published
          PROVE  [KVS!Next]_(KVS!vars)
      BY <2>0, <2>3, EnterRefines
    <2> QED
      BY <2>1, <2>2, <2>3 DEF Next
  <1> QED
    BY <1>1, <1>2, Invariance, PTL DEF Spec, KVS!Spec, ImplementsKeyValueStore

============================================================================
