---------------------------- MODULE DbInterface ----------------------------
(***************************************************************************)
(* The part of Db::HashTable and Db::AvlTree that is the same in both: how *)
(* a worker thread enters get, set, del and foreach, takes the mutex,      *)
(* leaves it and returns.  What happens between is in the modules that     *)
(* extend this one.  A thread's pc:                                        *)
(*                                                                         *)
(*   idle -> [init ->] lock -> find .. act -> unlock -> return     (get)   *)
(*   idle -> [init ->] lock -> upgrade -> find .. act                      *)
(*                          -> downgrade -> unlock -> return    (others)   *)
(***************************************************************************)
EXTENDS SharedMutex, DbTypes

VARIABLES pc,      \* where each thread is in its call
          call,    \* the call it is in
          reply,   \* the value the call will return
          aborted, \* an exception left a worker thread: the process is gone
          published \* history: the contents at the last end of a write section

callVars == <<pc, call, reply, m_access, aborted>>

InCriticalSection == {"find", "act", "insert", "dispose"}
Labels == {"idle", "init", "lock", "upgrade", "downgrade", "unlock", "return"}
             \cup InCriticalSection

Table == [Keys -> Values \cup {NotFound}]

CallTypeOK ==
    /\ pc \in [Threads -> Labels]
    /\ call \in [Threads -> Requests \cup {NoCall}]
    /\ reply \in [Threads -> Replies \cup {NoReply}]
    /\ m_access \in MutexType
    /\ aborted \in BOOLEAN

CallInit ==
    /\ pc = [t \in Threads |-> "idle"]
    /\ call = [t \in Threads |-> NoCall]
    /\ reply = [t \in Threads |-> NoReply]
    /\ m_access = FreeMutex
    /\ aborted = FALSE

Goto(t, label) == pc' = [pc EXCEPT ![t] = label]

\* The call's return value is fixed; the locks are released on the way out.
Answer(t, r, label) ==
    /\ reply' = [reply EXCEPT ![t] = r]
    /\ Goto(t, label)

\* A command callback runs on the thread.
Enter(t) ==
    /\ pc[t] = "idle"
    /\ \E r \in Requests :
          /\ call' = [call EXCEPT ![t] = r]
          /\ Goto(t, IF r.op = "foreach" THEN "init" ELSE "lock")
    /\ UNCHANGED <<reply, m_access, aborted>>

\* Mutant: the result of vm.init() is not looked at.
JsVmInitMutantUnchecked(t) ==
    /\ pc[t] = "init"
    /\ Goto(t, "lock")
    /\ UNCHANGED <<call, reply, m_access, aborted>>

\* foreach: JsVm vm(...); if (!vm.init()) return REPLY_ERROR -- before any lock.
\* console.log of something with no string form appends a null pointer.
JsVmInit(t) ==
    /\ pc[t] = "init"
    /\ \/ /\ call[t].script \in Loadable
          /\ Goto(t, "lock")
          /\ UNCHANGED <<reply, aborted>>
       \/ /\ call[t].script \notin Loadable \cup Fatal
          /\ Answer(t, REPLY_ERROR, "return")
          /\ UNCHANGED aborted
       \/ /\ call[t].script \in Fatal
          /\ aborted' = TRUE
          /\ UNCHANGED <<pc, reply>>
    /\ UNCHANGED <<call, m_access>>

\* JsVm::call on one element: a new value, an Exception, or a dead process
JsVmCall(t, k, v) == JsResult(call[t].script, k, v)

\* get takes a shared_lock, every other operation an upgrade_lock
Lock(t) ==
    /\ pc[t] = "lock"
    /\ \/ /\ call[t].op = "get"
          /\ lock_shared(t)
          /\ Goto(t, "find")
       \/ /\ call[t].op # "get"
          /\ lock_upgrade(t)
          /\ Goto(t, "upgrade")
    /\ UNCHANGED <<call, reply, aborted>>

\* Mutant: no upgrade_to_unique_lock, the readers stay.
UpgradeMutantNone(t) ==
    /\ pc[t] = "upgrade"
    /\ m_access' = [m_access EXCEPT !.upgrade = NoThread, !.exclusive = t]
    /\ Goto(t, IF call[t].op = "foreach" THEN "act" ELSE "find")
    /\ UNCHANGED <<call, reply, aborted>>

\* upgrade_to_unique_lock uniqueLock(lock)
Upgrade(t) ==
    /\ pc[t] = "upgrade"
    /\ unlock_upgrade_and_lock(t)
    /\ Goto(t, IF call[t].op = "foreach" THEN "act" ELSE "find")
    /\ UNCHANGED <<call, reply, aborted>>

\* ~upgrade_to_unique_lock
Downgrade(t) ==
    /\ pc[t] = "downgrade"
    /\ unlock_and_lock_upgrade(t)
    /\ Goto(t, "unlock")
    /\ UNCHANGED <<call, reply, aborted>>

\* ~shared_lock or ~upgrade_lock
Unlock(t) ==
    /\ pc[t] = "unlock"
    /\ IF call[t].op = "get" THEN unlock_shared(t) ELSE unlock_upgrade(t)
    /\ Goto(t, "return")
    /\ UNCHANGED <<call, reply, aborted>>

Return(t) ==
    /\ pc[t] = "return"
    /\ Goto(t, "idle")
    /\ call' = [call EXCEPT ![t] = NoCall]
    /\ reply' = [reply EXCEPT ![t] = NoReply]
    /\ UNCHANGED <<m_access, aborted>>

\* The steps of a call around its body.
LockCall(t) ==
    JsVmInit(t) \/ Lock(t) \/ Upgrade(t) \/ Downgrade(t) \/ Unlock(t) \/ Return(t)

----------------------------------------------------------------------------
\* A thread that is inside the table; one that may be changing it.
Inside(t)  == pc[t] \in InCriticalSection
Writing(t) == Inside(t) /\ call[t].op # "get"

\* No thread is inside a table while another one may be changing it: the two
\* locks that set, del and foreach take, and the one get takes, are enough
\* for the accesses in between (hashtable.cpp, avltree.cpp).
NoDataRace ==
    \A t, u \in Threads : t # u /\ Writing(t) => ~Inside(u)

\* Who holds the mutex, said of where each thread is: what NoDataRace rests on.
LockInv ==
    /\ \A t \in Threads :
          /\ t \in m_access.shared
                <=> call[t].op = "get" /\ (Inside(t) \/ pc[t] = "unlock")
          /\ m_access.upgrade = t
                <=> call[t].op # "get" /\ pc[t] \in {"upgrade", "unlock"}
          /\ m_access.exclusive = t <=> Writing(t) \/ pc[t] = "downgrade"
    /\ m_access.exclusive # NoThread =>
          m_access.shared = {} /\ m_access.upgrade = NoThread

\* A call has a reply exactly when its body is over; foreach has no key to find;
\* only a script that compiled takes the lock.
CallInv ==
    \A t \in Threads :
       /\ pc[t] = "idle" <=> call[t] = NoCall
       /\ reply[t] = NoReply <=> pc[t] \notin {"downgrade", "unlock", "return"}
       /\ pc[t] = "init" => call[t].op = "foreach"
       /\ pc[t] \in {"upgrade", "downgrade"} => call[t].op # "get"
       /\ pc[t] = "find" => call[t].op # "foreach"
       /\ call[t].op = "foreach" /\ pc[t] \in {"lock", "upgrade", "act", "downgrade"}
             => call[t].script \in Loadable

\* The keys of the published table.
Present == {k \in Keys : published[k] # NotFound}

\* A call's reply exists for the caller once the table is as the call leaves it.
AbsReply == [t \in Threads |-> IF pc[t] \in {"unlock", "return"} THEN reply[t] ELSE NoReply]

\* What the callers of a database are promised.
KVS == INSTANCE KeyValueStore WITH store <- published, reply <- AbsReply

\* Every call is answered unless a script kills the process: no thread waits
\* forever for m_access (hashtable.cpp:28, 40-41, 51-52, 71-73; avltree.cpp:30,
\* 44-45, 65-66, 87-89), and every loop under it ends.  It holds with two threads,
\* the default; with three, two of them can read in turns and never let the third
\* upgrade its lock (hashtable.cpp:41).
EveryCallAnswered ==
    \A t \in Threads : pc[t] # "idle" ~> (pc[t] = "idle" \/ aborted)

============================================================================
