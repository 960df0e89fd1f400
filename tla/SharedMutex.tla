---------------------------- MODULE SharedMutex ----------------------------
(***************************************************************************)
(* boost::shared_mutex, as Db::HashTable and Db::AvlTree use it: readers   *)
(* hold a shared_lock; writers take an upgrade_lock and turn it into an    *)
(* exclusive one with upgrade_to_unique_lock.  The library is external;    *)
(* each operator is one atomic call on the mutex, enabled when the call    *)
(* does not block.  New readers are admitted while an upgrade waits.       *)
(***************************************************************************)
CONSTANTS Threads,   \* the worker threads
          NoThread   \* "nobody"

ASSUME NoThreadAssumption == NoThread \notin Threads

VARIABLE m_access    \* who holds the mutex, and how

MutexType == [shared    : SUBSET Threads,
              upgrade   : Threads \cup {NoThread},
              exclusive : Threads \cup {NoThread}]

FreeMutex == [shared |-> {}, upgrade |-> NoThread, exclusive |-> NoThread]

\* shared_lock::shared_lock
lock_shared(t) ==
    /\ m_access.exclusive = NoThread
    /\ m_access' = [m_access EXCEPT !.shared = @ \cup {t}]

\* shared_lock::~shared_lock
unlock_shared(t) ==
    m_access' = [m_access EXCEPT !.shared = @ \ {t}]

\* upgrade_lock::upgrade_lock: one upgrader at a time, readers may stay
lock_upgrade(t) ==
    /\ m_access.exclusive = NoThread
    /\ m_access.upgrade = NoThread
    /\ m_access' = [m_access EXCEPT !.upgrade = t]

\* upgrade_to_unique_lock::upgrade_to_unique_lock: waits for the readers
unlock_upgrade_and_lock(t) ==
    /\ m_access.shared = {}
    /\ m_access' = [m_access EXCEPT !.upgrade = NoThread, !.exclusive = t]

\* upgrade_to_unique_lock::~upgrade_to_unique_lock: back to an upgrade_lock
unlock_and_lock_upgrade(t) ==
    m_access' = [m_access EXCEPT !.exclusive = NoThread, !.upgrade = t]

\* upgrade_lock::~upgrade_lock
unlock_upgrade(t) ==
    m_access' = [m_access EXCEPT !.upgrade = NoThread]

============================================================================
