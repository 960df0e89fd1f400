------------------------- MODULE DbInterfaceProofs -------------------------
(***************************************************************************)
(* What both databases owe to DbInterface, for any threads, keys, values   *)
(* and scripts: the steps around an operation keep its call, its reply and *)
(* the mutex in step with where the thread is, and so does every step of   *)
(* a body that stays between its locks.                                    *)
(***************************************************************************)
EXTENDS DbInterface, TLAPS

\* The fields a call has, by its operation (the arguments of commands.cpp:62-65).
LEMMA CallFields ==
    ASSUME NEW r \in Requests \cup {NoCall}
    PROVE  /\ r.op \in {"none", "get", "set", "del", "foreach"}
           /\ r.op = "none" <=> r = NoCall
           /\ r.op \in {"get", "set", "del"} => r.key \in Keys
           /\ r.op = "set" => r.value \in Values
           /\ r.op = "foreach" => r.script \in Scripts
  BY DEF Requests, NoCall

\* None of the replies is the mark of a call that has none.
LEMMA ReplyFacts ==
    /\ {REPLY_FALSE, REPLY_TRUE, REPLY_NIL, REPLY_OK, REPLY_ERROR} \subseteq Replies
    /\ \A v \in Values : toReplyString(v) \in Replies
    /\ NoReply \notin Replies
    /\ REPLY_TRUE # REPLY_ERROR
    /\ \A v : toReplyString(v) # REPLY_NIL
  BY DEF Replies, NoReply, REPLY_FALSE, REPLY_TRUE, REPLY_NIL, REPLY_OK, REPLY_ERROR, toReplyString

\* No thread has a call, and the mutex is free, when a database is constructed.
LEMMA CallInitially == CallInit => CallTypeOK /\ CallInv /\ LockInv
  <1> SUFFICES ASSUME CallInit PROVE CallTypeOK /\ CallInv /\ LockInv
    OBVIOUS
  <1> USE DEF CallInit
  <1>1. CallTypeOK
    BY DEF CallTypeOK, Labels, MutexType, FreeMutex
  <1>2. CallInv
    BY DEF CallInv, NoCall
  <1>3. LockInv
    BY NoThreadAssumption DEF LockInv, FreeMutex, Inside, Writing, InCriticalSection, NoCall
  <1> QED
    BY <1>1, <1>2, <1>3

\* Every step around an operation keeps its call, its reply and the mutex in step
\* with where the thread is: each thread unlocks what it locked, and nobody enters
\* a write section with somebody inside.
LEMMA LockCallKeeps ==
    ASSUME CallTypeOK, CallInv, LockInv, NEW t \in Threads, LockCall(t)
    PROVE  CallTypeOK' /\ CallInv' /\ LockInv'
  <1> USE DEF Goto
  <1>1. CallTypeOK'
    <2> USE DEF CallTypeOK, Labels
    <2>1. CASE JsVmInit(t)
      BY <2>1, ReplyFacts DEF JsVmInit, Answer
    <2>2. CASE Lock(t)
      BY <2>2 DEF Lock, lock_shared, lock_upgrade, MutexType, InCriticalSection
    <2>3. CASE Upgrade(t)
      BY <2>3 DEF Upgrade, unlock_upgrade_and_lock, MutexType, InCriticalSection
    <2>4. CASE Downgrade(t)
      BY <2>4 DEF Downgrade, unlock_and_lock_upgrade, MutexType
    <2>5. CASE Unlock(t)
      BY <2>5 DEF Unlock, unlock_shared, unlock_upgrade, MutexType
    <2>6. CASE Return(t)
      BY <2>6 DEF Return
    <2> QED
      BY <2>1, <2>2, <2>3, <2>4, <2>5, <2>6 DEF LockCall
  <1>2. CallInv'
    <2> USE DEF CallTypeOK, CallInv
    <2>1. CASE JsVmInit(t)
      BY <2>1, ReplyFacts DEF JsVmInit, Answer
    <2>2. CASE Lock(t) \/ Upgrade(t) \/ Downgrade(t) \/ Unlock(t)
      BY <2>2 DEF Lock, Upgrade, Downgrade, Unlock
    <2>3. CASE Return(t)
      BY <2>3 DEF Return, NoCall
    <2> QED
      BY <2>1, <2>2, <2>3 DEF LockCall
  <1>3. LockInv'
    <2> USE NoThreadAssumption DEF CallTypeOK, MutexType, Inside, Writing, InCriticalSection, LockInv,
            CallInv
    <2>1. CASE JsVmInit(t)
      BY <2>1 DEF JsVmInit, Answer
    <2>2. CASE Lock(t)
      BY <2>2 DEF Lock, lock_shared, lock_upgrade
    <2>3. CASE Upgrade(t)
      BY <2>3 DEF Upgrade, unlock_upgrade_and_lock
    <2>4. CASE Downgrade(t)
      BY <2>4 DEF Downgrade, unlock_and_lock_upgrade
    <2>5. CASE Unlock(t)
      BY <2>5 DEF Unlock, unlock_shared, unlock_upgrade
    <2>6. CASE Return(t)
      BY <2>6 DEF Return, NoCall
    <2> QED
      BY <2>1, <2>2, <2>3, <2>4, <2>5, <2>6 DEF LockCall
  <1> QED
    BY <1>1, <1>2, <1>3

\* So does the beginning of a call.
LEMMA EnterKeeps ==
    ASSUME CallTypeOK, CallInv, LockInv, NEW t \in Threads, Enter(t)
    PROVE  CallTypeOK' /\ CallInv' /\ LockInv'
  <1>1. PICK r \in Requests : /\ call' = [call EXCEPT ![t] = r]
                              /\ pc' = [pc EXCEPT ![t] = IF r.op = "foreach" THEN "init" ELSE "lock"]
    BY DEF Enter, Goto
  <1>2. r.op # "none" /\ r # NoCall
    BY DEF Requests, NoCall
  <1>3. /\ pc[t] = "idle" /\ call[t] = NoCall
        /\ reply' = reply /\ m_access' = m_access /\ aborted' = aborted
    BY DEF Enter, CallInv
  <1>4. CallTypeOK'
    BY <1>1, <1>3 DEF CallTypeOK, Labels
  <1>5. /\ call'[t] = r /\ pc'[t] \in {"init", "lock"}
        /\ pc'[t] = "init" <=> r.op = "foreach"
        /\ \A u \in Threads \ {t} : call'[u] = call[u] /\ pc'[u] = pc[u]
    BY <1>1 DEF CallTypeOK
  <1>6. CallInv'
    BY <1>2, <1>3, <1>5 DEF CallInv
  <1>7. LockInv'
    BY <1>2, <1>3, <1>5 DEF LockInv, Inside, Writing, InCriticalSection, NoCall
  <1> QED
    BY <1>4, <1>6, <1>7

\* So does a step of a body that leads to another place of the body, or fixes the
\* reply and leads to the end of the section that the operation is in.
LEMMA BodyKeeps ==
    ASSUME CallTypeOK, CallInv, LockInv, NEW t \in Threads, Inside(t),
           UNCHANGED <<call, m_access>>, aborted' \in BOOLEAN,
           NEW label, pc' = [pc EXCEPT ![t] = label],
           call[t].op = "foreach" => pc[t] = "act",
           \/ label \in InCriticalSection \ {"find"} /\ reply' = reply
           \/ /\ label = IF call[t].op = "get" THEN "unlock" ELSE "downgrade"
              /\ \E r \in Replies : reply' = [reply EXCEPT ![t] = r]
    PROVE  CallTypeOK' /\ CallInv' /\ LockInv'
  <1>1. CallTypeOK'
    BY DEF CallTypeOK, Labels
  <1>2. CallInv'
    BY ReplyFacts DEF CallTypeOK, CallInv, Inside, InCriticalSection
  <1>3. LockInv'
    BY DEF CallTypeOK, LockInv, Inside, Writing, InCriticalSection
  <1> QED
    BY <1>1, <1>2, <1>3

\* While a thread is in a write section, no other thread is inside the table or
\* about to leave a write section (hashtable.cpp:41, 52, 73; avltree.cpp:45, 66, 89).
LEMMA Alone ==
    ASSUME LockInv, NEW t \in Threads, Writing(t) \/ pc[t] = "downgrade"
    PROVE  /\ m_access.exclusive = t
           /\ \A u \in Threads \ {t} : /\ ~Inside(u) /\ pc[u] # "downgrade"
                                       /\ ~(call[u].op = "get" /\ pc[u] = "unlock")
  <1>1. m_access.exclusive = t
    BY DEF LockInv
  <1>2. m_access.shared = {}
    BY <1>1, NoThreadAssumption DEF LockInv
  <1>3. ASSUME NEW u \in Threads \ {t}
        PROVE  ~Inside(u) /\ pc[u] # "downgrade" /\ ~(call[u].op = "get" /\ pc[u] = "unlock")
    BY <1>1, <1>2 DEF LockInv, Writing
  <1> QED
    BY <1>1, <1>3

\* While a thread is in a read section nobody is in a write section
\* (hashtable.cpp:28, avltree.cpp:30).
LEMMA Reading ==
    ASSUME LockInv, NEW t \in Threads, call[t].op = "get", Inside(t) \/ pc[t] = "unlock"
    PROVE  m_access.exclusive = NoThread
  BY DEF LockInv

\* Two threads are never inside the table when one of them may change it.
LEMMA NoRace == LockInv => NoDataRace
  BY Alone DEF NoDataRace

----------------------------------------------------------------------------
(* Refinement of KeyValueStore: what each step is to a caller.             *)

\* Calls and replies are the same on both levels.
LEMMA SameWords ==
    /\ KVS!NoCall = NoCall /\ KVS!NoReply = NoReply /\ KVS!Requests = Requests
    /\ KVS!REPLY_FALSE = REPLY_FALSE /\ KVS!REPLY_TRUE = REPLY_TRUE /\ KVS!REPLY_NIL = REPLY_NIL
    /\ KVS!REPLY_OK = REPLY_OK /\ KVS!REPLY_ERROR = REPLY_ERROR
    /\ \A v : KVS!toReplyString(v) = toReplyString(v)
  BY DEF KVS!NoCall, NoCall, KVS!NoReply, NoReply, KVS!Requests, Requests, KVS!REPLY_FALSE,
         REPLY_FALSE, KVS!REPLY_TRUE, REPLY_TRUE, KVS!REPLY_NIL, REPLY_NIL, KVS!REPLY_OK, REPLY_OK,
         KVS!REPLY_ERROR, REPLY_ERROR, KVS!toReplyString, toReplyString

\* An empty database is the empty map.
LEMMA InitRefines == CallInit /\ published = [k \in Keys |-> NotFound] => KVS!Init
  BY SameWords DEF CallInit, KVS!Init, AbsReply

\* A step of t changes the visible reply of t and of nobody else.
LEMMA OneReply ==
    ASSUME NEW t \in Threads,
           \A u \in Threads \ {t} : pc'[u] = pc[u] /\ reply'[u] = reply[u]
    PROVE  /\ AbsReply' = [AbsReply EXCEPT ![t] = AbsReply'[t]]
           /\ AbsReply'[t] = AbsReply[t] => AbsReply' = AbsReply
  BY DEF AbsReply

\* A step inside that fixes no visible reply is not seen.
LEMMA InsideHidden ==
    ASSUME NEW t \in Threads, UNCHANGED <<call, published, aborted>>,
           \A u \in Threads \ {t} : pc'[u] = pc[u] /\ reply'[u] = reply[u],
           pc[t] \notin {"unlock", "return"}, pc'[t] \notin {"unlock", "return"}
    PROVE  UNCHANGED KVS!vars
  <1>1. AbsReply'[t] = AbsReply[t]
    BY DEF AbsReply
  <1> QED
    BY <1>1, OneReply DEF KVS!vars

\* get takes effect when its answer is fixed.
LEMMA GetRefines ==
    ASSUME CallTypeOK, ~aborted, NEW t \in Threads, UNCHANGED <<call, published, aborted>>,
           call[t].op = "get", Inside(t), NEW r, Answer(t, r, "unlock"),
           r = IF published[call[t].key] = NotFound THEN REPLY_NIL
                                                    ELSE toReplyString(published[call[t].key])
    PROVE  KVS!Next
  <1>1. /\ \A u \in Threads \ {t} : pc'[u] = pc[u] /\ reply'[u] = reply[u]
        /\ pc'[t] = "unlock" /\ reply'[t] = r
    BY DEF Answer, Goto, CallTypeOK
  <1>2. AbsReply' = [AbsReply EXCEPT ![t] = r] /\ AbsReply[t] = NoReply
    BY <1>1, OneReply DEF AbsReply, Inside, InCriticalSection
  <1>3. KVS!Get(t)
    BY <1>2, SameWords DEF KVS!Get, KVS!Effect
  <1> QED
    BY <1>3 DEF KVS!Next

\* A function whose result has no string form kills the process in the middle of a
\* foreach.
LEMMA AbortRefines ==
    ASSUME ~aborted, NEW t \in Threads, UNCHANGED <<call, published, pc, reply>>,
           call[t].op = "foreach", call[t].script \in Loadable, Inside(t), aborted' = TRUE,
           NEW k \in Present, Crash \in JsResult(call[t].script, k, published[k])
    PROVE  KVS!Next
  <1>1. AbsReply' = AbsReply /\ AbsReply[t] = NoReply
    BY DEF AbsReply, Inside, InCriticalSection
  <1>2. KVS!Abort(t)
    BY <1>1, SameWords DEF KVS!Abort, Present
  <1> QED
    BY <1>2 DEF KVS!Next

\* A caller enters a call.
LEMMA EnterRefines ==
    ASSUME CallTypeOK, CallInv, ~aborted, NEW t \in Threads, Enter(t), UNCHANGED published
    PROVE  KVS!Next
  <1>1. /\ \A u \in Threads \ {t} : pc'[u] = pc[u] /\ reply'[u] = reply[u]
        /\ pc[t] = "idle" /\ pc'[t] \in {"init", "lock"}
    BY DEF CallTypeOK, Enter, Goto
  <1>2. AbsReply' = AbsReply
    BY <1>1, OneReply DEF AbsReply
  <1>3. KVS!Invoke(t)
    BY <1>2, SameWords DEF Enter, CallInv, KVS!Invoke
  <1> QED
    BY <1>3 DEF KVS!Next

\* Around the body: the early error (or death) of foreach and the return are seen,
\* taking and giving back locks is not.
LEMMA AroundRefines ==
    ASSUME CallTypeOK, CallInv, ~aborted, NEW t \in Threads, LockCall(t), ~Downgrade(t), UNCHANGED published
    PROVE  [KVS!Next]_(KVS!vars)
  <1>a. \A u \in Threads \ {t} : pc'[u] = pc[u] /\ reply'[u] = reply[u]
    BY DEF CallTypeOK, LockCall, JsVmInit, Lock, Upgrade, Unlock, Return, Goto, Answer
  <1>b. ASSUME call' = call, aborted' = aborted, AbsReply'[t] = AbsReply[t]
        PROVE  UNCHANGED KVS!vars
    BY <1>a, <1>b, OneReply DEF KVS!vars
  <1> USE DEF CallTypeOK, Goto
  <1>1. CASE Lock(t) \/ Upgrade(t) \/ Unlock(t)
    <2>1. call' = call /\ aborted' = aborted /\ AbsReply'[t] = AbsReply[t]
      BY <1>1 DEF Lock, Upgrade, Unlock, AbsReply
    <2> QED
      BY <2>1, <1>b
  <1>2. CASE JsVmInit(t)
    <2>1. pc[t] = "init" /\ call' = call /\ call[t].op = "foreach" /\ AbsReply[t] = NoReply
      BY <1>2 DEF JsVmInit, CallInv, AbsReply
    <2>2. CASE call[t].script \in Loadable
      <3>1. AbsReply'[t] = AbsReply[t] /\ aborted' = aborted
        BY <1>2, <2>1, <2>2, DbAssumption DEF JsVmInit, AbsReply
      <3> QED
        BY <2>1, <3>1, <1>b
    <2>3. CASE call[t].script \notin Loadable \cup Fatal
      <3>1. AbsReply'[t] = REPLY_ERROR /\ aborted' = aborted
        BY <1>2, <2>1, <2>3 DEF JsVmInit, Answer, AbsReply
      <3>2. AbsReply' = [AbsReply EXCEPT ![t] = REPLY_ERROR]
        BY <1>a, <3>1, OneReply
      <3>3. KVS!Foreach(t)
        BY <2>1, <2>3, <3>1, <3>2, SameWords DEF KVS!Foreach, KVS!Effect
      <3> QED
        BY <3>3 DEF KVS!Next
    <2>4. CASE call[t].script \in Fatal
      <3>1. AbsReply' = AbsReply /\ aborted' = TRUE
        BY <1>2, <2>1, <2>4, DbAssumption DEF JsVmInit, AbsReply
      <3>2. KVS!Abort(t)
        BY <2>1, <2>4, <3>1, SameWords DEF KVS!Abort
      <3> QED
        BY <3>2 DEF KVS!Next
    <2> QED
      BY <2>2, <2>3, <2>4
  <1>3. CASE Return(t)
    <2>1. /\ AbsReply[t] # NoReply /\ AbsReply'[t] = NoReply
          /\ call' = [call EXCEPT ![t] = NoCall] /\ aborted' = aborted
      BY <1>3 DEF Return, AbsReply, CallInv
    <2>2. AbsReply' = [AbsReply EXCEPT ![t] = NoReply]
      BY <1>a, <2>1, OneReply
    <2>3. KVS!Respond(t)
      BY <2>1, <2>2, SameWords DEF KVS!Respond
    <2> QED
      BY <2>3 DEF KVS!Next
  <1> QED
    BY <1>1, <1>2, <1>3 DEF LockCall

\* What the write section of t has made of the published table, and says of it.
Effected(t, table) ==
    /\ table \in Table
    /\ call[t].op = "set" =>
          table = [published EXCEPT ![call[t].key] = call[t].value] /\ reply[t] = REPLY_OK
    /\ call[t].op = "del" =>
          /\ table = [published EXCEPT ![call[t].key] = NotFound]
          /\ reply[t] = IF call[t].key \in Present THEN REPLY_TRUE ELSE REPLY_FALSE
    /\ call[t].op = "foreach" =>
          \E done \in SUBSET Present :
             /\ \A k \in Keys : IF k \in done
                                THEN table[k] \in Values \cap JsResult(call[t].script, k, published[k])
                                ELSE table[k] = published[k]
             /\ \/ reply[t] = REPLY_TRUE /\ done = Present
                \/ /\ reply[t] = REPLY_ERROR
                   /\ \E k \in Present \ done : Throw \in JsResult(call[t].script, k, published[k])

\* set, del and foreach take effect when the exclusive lock is given back.
LEMMA DowngradeRefines ==
    ASSUME CallTypeOK, CallInv, ~aborted, NEW t \in Threads, Downgrade(t),
           NEW table, Effected(t, table), published' = table
    PROVE  KVS!Next
  <1>1. /\ \A u \in Threads \ {t} : pc'[u] = pc[u] /\ reply'[u] = reply[u]
        /\ pc[t] = "downgrade" /\ pc'[t] = "unlock" /\ reply'[t] = reply[t]
        /\ UNCHANGED <<call, aborted>>
    BY DEF CallTypeOK, Downgrade, Goto
  <1>2. /\ call[t].op \in {"set", "del", "foreach"}
        /\ call[t].op = "del" => call[t].key \in Keys
        /\ call[t].op = "foreach" => call[t].script \in Loadable
    BY <1>1, CallFields DEF CallTypeOK, CallInv
  <1>3. AbsReply' = [AbsReply EXCEPT ![t] = reply[t]] /\ AbsReply[t] = NoReply
    BY <1>1, OneReply DEF AbsReply
  <1>4. ASSUME NEW r, reply[t] = r PROVE KVS!Effect(t, table, r)
    BY <1>1, <1>3, <1>4, SameWords DEF KVS!Effect
  <1>5. CASE call[t].op = "set"
    <2>1. KVS!Set(t)
      BY <1>4, <1>5, SameWords DEF Effected, KVS!Set
    <2> QED
      BY <2>1 DEF KVS!Next
  <1>6. CASE call[t].op = "del"
    <2>1. KVS!Del(t)
      BY <1>2, <1>4, <1>6, SameWords DEF Effected, KVS!Del, Present
    <2> QED
      BY <2>1 DEF KVS!Next
  <1>7. CASE call[t].op = "foreach"
    <2>1. PICK done \in SUBSET Present :
             /\ \A k \in Keys : IF k \in done
                                THEN table[k] \in Values \cap JsResult(call[t].script, k, published[k])
                                ELSE table[k] = published[k]
             /\ \/ reply[t] = REPLY_TRUE /\ done = Present
                \/ /\ reply[t] = REPLY_ERROR
                   /\ \E k \in Present \ done : Throw \in JsResult(call[t].script, k, published[k])
      BY <1>7 DEF Effected
    <2>2. table \in [Keys -> Values \cup {NotFound}]
      BY DEF Effected, Table
    <2>3. KVS!Applied(call[t].script, done, table)
      BY <2>1, <2>2 DEF KVS!Applied
    <2>4. CASE reply[t] = REPLY_TRUE /\ done = Present
      <3>1. KVS!Effect(t, table, REPLY_TRUE)
        BY <1>4, <2>4
      <3>2. KVS!Foreach(t)
        BY <1>2, <1>7, <2>2, <2>3, <2>4, <3>1, SameWords DEF KVS!Foreach, Present
      <3> QED
        BY <3>2 DEF KVS!Next
    <2>5. CASE /\ reply[t] = REPLY_ERROR
               /\ \E k \in Present \ done : Throw \in JsResult(call[t].script, k, published[k])
      <3>1. KVS!Effect(t, table, REPLY_ERROR)
        BY <1>4, <2>5
      <3>2. KVS!Foreach(t)
        BY <1>2, <1>7, <2>2, <2>3, <2>5, <3>1, SameWords DEF KVS!Foreach, Present
      <3> QED
        BY <3>2 DEF KVS!Next
    <2> QED
      BY <2>1, <2>4, <2>5
  <1> QED
    BY <1>2, <1>5, <1>6, <1>7

============================================================================
