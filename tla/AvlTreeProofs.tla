--------------------------- MODULE AvlTreeProofs ---------------------------
(***************************************************************************)
(* For any threads, keys, values, scripts and node addresses: the list and *)
(* the tree stay in step and iterators stay valid, whatever the hash       *)
(* function; and with distinct hashes the tree answers each key with its   *)
(* own value and refines KeyValueStore.                                    *)
(***************************************************************************)
EXTENDS AvlTree, DbInterfaceProofs, SequenceTheorems

(* The list: what push_back and erase do to the set of its nodes.          *)

Distinct(s) == \A i, j \in 1..Len(s) : i # j => s[i] # s[j]

\* push_back adds a node at the end (avltree.cpp:54).
LEMMA PushBack ==
    ASSUME NEW S, NEW s \in Seq(S), NEW n \in S
    PROVE  /\ Append(s, n) \in Seq(S)
           /\ ToSet(Append(s, n)) = ToSet(s) \cup {n}
           /\ Last(Append(s, n)) = n
           /\ Distinct(s) /\ n \notin ToSet(s) => Distinct(Append(s, n))
  <1>1. /\ Append(s, n) \in Seq(S) /\ Len(Append(s, n)) = Len(s) + 1
        /\ Append(s, n)[Len(s) + 1] = n
        /\ \A i \in 1..Len(s) : Append(s, n)[i] = s[i]
        /\ DOMAIN Append(s, n) = 1..(Len(s) + 1) /\ DOMAIN s = 1..Len(s)
    OBVIOUS
  <1>2. ToSet(Append(s, n)) = ToSet(s) \cup {n}
    BY <1>1 DEF ToSet
  <1>3. Last(Append(s, n)) = n
    BY <1>1 DEF Last
  <1>4. Distinct(s) /\ n \notin ToSet(s) => Distinct(Append(s, n))
    BY <1>1 DEF Distinct, ToSet
  <1> QED
    BY <1>1, <1>2, <1>3, <1>4

\* erase of a node that is in the list once removes it, and no other.
LEMMA Erase ==
    ASSUME NEW S, NEW s \in Seq(S), Distinct(s), NEW i \in DOMAIN s
    PROVE  /\ RemoveAt(s, i) \in Seq(S)
           /\ ToSet(RemoveAt(s, i)) = ToSet(s) \ {s[i]}
           /\ Distinct(RemoveAt(s, i))
  <1> DEFINE r == RemoveAt(s, i)
  <1>1. i \in 1..Len(s) /\ Len(s) \in Nat /\ DOMAIN s = 1..Len(s)
    OBVIOUS
  <1>2. /\ r \in Seq(S) /\ Len(r) = Len(s) - 1
        /\ \A j \in 1..Len(r) : r[j] = IF j < i THEN s[j] ELSE s[j + 1]
        /\ DOMAIN r = 1..Len(r)
    <2> DEFINE a == SubSeq(s, 1, i - 1)
               b == SubSeq(s, i + 1, Len(s))
    <2>1. a \in Seq(S) /\ Len(a) = i - 1 /\ \A j \in 1..(i - 1) : a[j] = s[j]
      BY <1>1
    <2>2. b \in Seq(S) /\ Len(b) = Len(s) - i /\ \A j \in 1..(Len(s) - i) : b[j] = s[i + j]
      BY <1>1
    <2>3. r = a \o b
      BY DEF RemoveAt
    <2> HIDE DEF a, b, r
    <2>4. /\ r \in Seq(S) /\ Len(r) = Len(a) + Len(b) /\ DOMAIN r = 1..Len(r)
          /\ \A j \in 1..Len(r) : r[j] = IF j <= Len(a) THEN a[j] ELSE b[j - Len(a)]
      BY <2>1, <2>2, <2>3, ConcatProperties, LenProperties
    <2>5. Len(r) = Len(s) - 1
      BY <1>1, <2>1, <2>2, <2>4
    <2>6. ASSUME NEW j \in 1..Len(r) PROVE r[j] = IF j < i THEN s[j] ELSE s[j + 1]
      <3>1. CASE j < i
        BY <1>1, <2>1, <2>4, <2>5, <3>1
      <3>2. CASE ~(j < i)
        <4>1. r[j] = b[j - (i - 1)] /\ j - (i - 1) \in 1..(Len(s) - i)
          BY <1>1, <2>1, <2>4, <2>5, <3>2
        <4>2. b[j - (i - 1)] = s[i + (j - (i - 1))] /\ i + (j - (i - 1)) = j + 1
          BY <1>1, <2>2, <4>1
        <4> QED
          BY <3>2, <4>1, <4>2
      <3> QED
        BY <3>1, <3>2
    <2> QED
      BY <2>4, <2>5, <2>6
  <1> HIDE DEF r
  <1>3. ToSet(r) \subseteq ToSet(s) \ {s[i]}
    BY <1>1, <1>2 DEF ToSet, Distinct
  <1>4. ASSUME NEW j \in 1..Len(s), j # i PROVE s[j] \in ToSet(r)
    <2>1. CASE j < i
      BY <1>1, <1>2, <2>1 DEF ToSet
    <2>2. CASE j > i
      <3>1. j - 1 \in 1..Len(r) /\ r[j - 1] = s[j]
        BY <1>1, <1>2, <2>2
      <3> QED
        BY <1>2, <3>1 DEF ToSet
    <2> QED
      BY <1>1, <1>4, <2>1, <2>2
  <1>5. ToSet(s) \ {s[i]} \subseteq ToSet(r)
    BY <1>1, <1>4 DEF ToSet
  <1>6. Distinct(r)
    BY <1>1, <1>2 DEF Distinct
  <1> QED
    BY <1>2, <1>3, <1>5, <1>6 DEF r

----------------------------------------------------------------------------
(* TreeInv, for any hash function.                                         *)

\* The empty tree (avltree.cpp:21-26).
LEMMA InitTree == Init => TreeInv
  <1> SUFFICES ASSUME Init PROVE TreeInv
    OBVIOUS
  <1>1. CallTypeOK /\ CallInv /\ LockInv
    BY CallInitially DEF Init
  <1> USE DEF Init, CallInit
  <1>2. ToSet(m_nodes) = {} /\ m_nodes \in Seq(NodeIds) /\ Len(m_nodes) = 0 /\ DOMAIN data = {}
    BY DEF ToSet
  <1>3. TypeOK
    BY <1>1, <1>2 DEF TypeOK, Table
  <1>4. ListTreeAgree /\ IteratorsValid
    BY <1>2 DEF ListTreeAgree, IteratorsValid, IteratorValid, NoCall
  <1> QED
    BY <1>1, <1>3, <1>4 DEF TreeInv

\* What a thread finds when it is inside: the list and the tree hold the same
\* nodes, but for the one it is adding or deleting itself.
LEMMA Agreement ==
    ASSUME TreeInv, NEW t \in Threads, Inside(t)
    PROVE  /\ pc[t] \in {"find", "act"} => m_tree = ToSet(m_nodes)
           /\ pc[t] \in {"insert", "dispose"} =>
                 m_tree = ToSet(m_nodes) \ {found[t]} /\ found[t] \in ToSet(m_nodes)
  <1>1. CASE call[t].op = "get"
    <2>1. m_access.exclusive = NoThread
      BY <1>1, Reading DEF TreeInv
    <2>2. m_tree = ToSet(m_nodes)
      BY <2>1, NoThreadAssumption DEF TreeInv, ListTreeAgree
    <2> QED
      BY <1>1, <2>2 DEF TreeInv, IteratorsValid, IteratorValid
  <1>2. CASE call[t].op # "get"
    <2>1. m_access.exclusive = t
      BY <1>2, Alone DEF TreeInv, Writing
    <2>2. \/ m_tree = ToSet(m_nodes)
          \/ pc[t] \in {"insert", "dispose"} /\ m_tree = ToSet(m_nodes) \ {found[t]}
      BY <2>1 DEF TreeInv, ListTreeAgree
    <2> QED
      BY <2>2 DEF TreeInv, IteratorsValid, IteratorValid
  <1> QED
    BY <1>1, <1>2

\* The place a thread is in inside, by its operation.
LEMMA Places ==
    ASSUME NEW t \in Threads, Body(t)
    PROVE  Inside(t) /\ call' = call /\ m_access' = m_access /\ published' = published
  BY DEF Body, get, set, del, foreach, Inside, InCriticalSection

\* A step of a body is one that BodyKeeps is about.
LEMMA BodyStep ==
    ASSUME TreeInv, NEW t \in Threads, Body(t)
    PROVE  CallTypeOK' /\ CallInv' /\ LockInv'
  <1>0. CallTypeOK /\ CallInv /\ LockInv /\ Inside(t)
    BY Places DEF TreeInv, TypeOK
  <1>1. /\ call' = call /\ m_access' = m_access /\ aborted' \in BOOLEAN
        /\ call[t].op = "foreach" => pc[t] = "act"
    BY <1>0 DEF Body, get, set, del, foreach, ForeachNode, CallTypeOK
  <1>2. \E label :
           /\ pc' = [pc EXCEPT ![t] = label]
           /\ \/ label \in InCriticalSection \ {"find"} /\ reply' = reply
              \/ /\ label = IF call[t].op = "get" THEN "unlock" ELSE "downgrade"
                 /\ \E r \in Replies : reply' = [reply EXCEPT ![t] = r]
    <2> USE <1>0, ReplyFacts DEF Goto, Answer, Found, InCriticalSection
    <2>1. CASE get(t)
      <3>1. pc[t] = "act" => found[t] \in DOMAIN data
        BY <2>1 DEF get, TreeInv, TypeOK, IteratorsValid, IteratorValid
      <3>2. pc[t] = "act" => data[found[t]].value \in Values
        BY <3>1 DEF TreeInv, TypeOK
      <3> QED
        BY <2>1, <3>2 DEF get
    <2>2. CASE set(t)
      <3>1. call[t].op = "set"
        BY <2>2 DEF set
      <3>2. \/ pc' = [pc EXCEPT ![t] = "act"] /\ reply' = reply
            \/ pc' = [pc EXCEPT ![t] = "insert"] /\ reply' = reply
            \/ pc' = [pc EXCEPT ![t] = "downgrade"] /\ reply' = [reply EXCEPT ![t] = REPLY_OK]
        BY <2>2 DEF set, push_back
      <3> QED
        BY <3>1, <3>2
    <2>3. CASE del(t)
      BY <2>3 DEF del
    <2>4. CASE foreach(t)
      <3>1. CASE UNCHANGED <<pc, reply>>
        <4>1. pc' = [pc EXCEPT ![t] = "act"]
          BY <2>4, <3>1 DEF foreach, CallTypeOK
        <4> QED
          BY <3>1, <4>1
      <3>2. CASE Answer(t, REPLY_ERROR, "downgrade") \/ Answer(t, REPLY_TRUE, "downgrade")
        BY <2>4, <3>2 DEF foreach
      <3> QED
        BY <2>4, <3>1, <3>2 DEF foreach, ForeachNode
    <2> QED
      BY <2>1, <2>2, <2>3, <2>4 DEF Body
  <1> QED
    BY <1>0, <1>1, <1>2, BodyKeeps

\* Every step keeps calls, replies and mutex in step with where the threads are.
LEMMA CallStep == TreeInv /\ [Next]_vars => CallTypeOK' /\ CallInv' /\ LockInv'
  <1> SUFFICES ASSUME TreeInv, [Next]_vars PROVE CallTypeOK' /\ CallInv' /\ LockInv'
    OBVIOUS
  <1>0. CallTypeOK /\ CallInv /\ LockInv
    BY DEF TreeInv, TypeOK
  <1>1. CASE UNCHANGED vars
    BY <1>0, <1>1 DEF vars, callVars, CallTypeOK, CallInv, LockInv, Inside, Writing
  <1>2. ASSUME NEW t \in Threads, Step(t) \/ Enter(t) PROVE CallTypeOK' /\ CallInv' /\ LockInv'
    BY <1>0, <1>2, BodyStep, LockCallKeeps, EnterKeeps DEF Step, LockStep
  <1> QED
    BY <1>1, <1>2 DEF Next

\* A step of t in a write section disturbs no other thread's iterators: nobody
\* else is inside.
LEMMA OthersOutside ==
    ASSUME TreeInv, NEW t \in Threads, Writing(t), call' = call,
           \A u \in Threads \ {t} : pc'[u] = pc[u] /\ passed'[u] = passed[u],
           IteratorValid(t)'
    PROVE  IteratorsValid'
  <1>1. ASSUME NEW u \in Threads \ {t} PROVE IteratorValid(u)'
    <2>1. ~Inside(u) /\ IteratorValid(u)
      BY Alone DEF TreeInv, IteratorsValid
    <2> QED
      BY <2>1 DEF IteratorValid, Inside, InCriticalSection
  <1> QED
    BY <1>1 DEF IteratorsValid

\* The types of what a step of t writes into found and passed.
LEMMA IteratorTypes ==
    ASSUME TypeOK, NEW t \in Threads, Body(t)
    PROVE  /\ found' \in [Threads -> NodeIds \cup {NoNode}]
           /\ passed' \in [Threads -> Nat]
           /\ \A u \in Threads \ {t} : pc'[u] = pc[u] /\ passed'[u] = passed[u] /\ found'[u] = found[u]
  <1>0. \A n \in ToSet(m_nodes) : n \in NodeIds
    BY DEF TypeOK, ToSet
  <1> USE <1>0 DEF TypeOK, CallTypeOK, Goto, Answer, Found
  <1>1. CASE get(t) /\ UNCHANGED <<passed, aborted>>
    BY <1>1 DEF get, Find
  <1>2. CASE set(t) /\ UNCHANGED <<passed, aborted>>
    <2>1. \/ found' = found
          \/ \E n \in NodeIds : found' = [found EXCEPT ![t] = n]
      BY <1>2 DEF set, Find, push_back
    <2>2. \E label : pc' = [pc EXCEPT ![t] = label]
      BY <1>2 DEF set, push_back
    <2> QED
      BY <1>2, <2>1, <2>2
  <1>3. CASE del(t) /\ UNCHANGED <<passed, aborted>>
    BY <1>3 DEF del, Find
  <1>4. CASE foreach(t)
    <2>1. found' = found /\ (passed' = passed \/ passed' = [passed EXCEPT ![t] = @ + 1])
      BY <1>4 DEF foreach, ForeachNode
    <2>2. pc' = pc \/ pc' = [pc EXCEPT ![t] = "downgrade"]
      BY <1>4 DEF foreach, ForeachNode
    <2>3. /\ pc \in [Threads -> Labels] /\ passed \in [Threads -> Nat]
          /\ found \in [Threads -> NodeIds \cup {NoNode}]
      OBVIOUS
    <2>4. /\ passed' \in [Threads -> Nat]
          /\ \A u \in Threads \ {t} : passed'[u] = passed[u]
      <3> HIDE DEF TypeOK
      <3> QED
        BY <2>1, <2>3
    <2>5. \A u \in Threads \ {t} : pc'[u] = pc[u]
      BY <2>2, <2>3
    <2> QED
      BY <2>1, <2>3, <2>4, <2>5
  <1> QED
    BY <1>1, <1>2, <1>3, <1>4 DEF Body

\* set keeps the list and the tree in step: a new node is pushed only when the
\* tree has none with its hash, and what is linked is what was pushed.
LEMMA SetKeeps ==
    ASSUME TreeInv, NEW t \in Threads, Body(t), set(t)
    PROVE  TypeOK' /\ ListTreeAgree' /\ IteratorsValid'
  <1>0. /\ TypeOK /\ ListTreeAgree /\ IteratorsValid /\ Inside(t) /\ Writing(t)
        /\ call' = call /\ m_access' = m_access /\ published' = published
        /\ call[t].op = "set" /\ m_access.exclusive = t
        /\ call[t].key \in Keys /\ call[t].value \in Values
    BY Places, Alone, CallFields DEF TreeInv, set, Writing, TypeOK, CallTypeOK
  <1>1. CallTypeOK'
    BY BodyStep
  <1>2. /\ found' \in [Threads -> NodeIds \cup {NoNode}]
        /\ passed' \in [Threads -> Nat]
        /\ \A u \in Threads \ {t} : pc'[u] = pc[u] /\ passed'[u] = passed[u] /\ found'[u] = found[u]
    BY <1>0, IteratorTypes
  <1> USE DEF Goto, Answer, Found
  <1>3. CASE pc[t] = "find" /\ \E n \in Find(call[t].key) : Found(t, n, "act") /\ UNCHANGED treeVars
    <2>1. m_tree = ToSet(m_nodes)
      BY <1>0, <1>3, Agreement
    <2>2. m_nodes' = m_nodes /\ data' = data /\ m_tree' = m_tree
      BY <1>3 DEF treeVars
    <2>3. pc'[t] = "act" /\ found'[t] \in m_tree
      BY <1>0, <1>3 DEF Find, TypeOK, CallTypeOK
    <2>4. IteratorValid(t)'
      BY <1>0, <2>2, <2>3 DEF IteratorValid
    <2> QED
      BY <1>0, <1>1, <1>2, <2>1, <2>2, <2>4, OthersOutside DEF TypeOK, ListTreeAgree, internalKey
  <1>4. CASE /\ pc[t] = "find" /\ Find(call[t].key) = {} /\ UNCHANGED m_tree
             /\ \E n \in NodeIds \ ToSet(m_nodes) : push_back(t, n)
    <2>1. PICK n \in NodeIds \ ToSet(m_nodes) : push_back(t, n)
      BY <1>4
    <2>2. m_tree = ToSet(m_nodes) /\ m_tree' = m_tree
      BY <1>0, <1>4, Agreement
    <2>3. /\ m_nodes' \in Seq(NodeIds) /\ ToSet(m_nodes') = ToSet(m_nodes) \cup {n}
          /\ Last(m_nodes') = n /\ Distinct(m_nodes')
      <3>1. m_nodes' = Append(m_nodes, n) /\ m_nodes \in Seq(NodeIds)
        BY <1>0, <2>1 DEF push_back, TypeOK
      <3>2. Distinct(m_nodes)
        BY <1>0 DEF ListTreeAgree, Distinct
      <3> QED
        BY <3>1, <3>2, PushBack
    <2>4. /\ DOMAIN data' = ToSet(m_nodes')
          /\ data'[n] = [key |-> call[t].key, value |-> call[t].value]
          /\ \A m \in ToSet(m_nodes) : data'[m] = data[m]
      BY <1>0, <2>1, <2>3 DEF push_back, TypeOK
    <2>5. \A m \in ToSet(m_nodes) : internalKey(m) # Hash[call[t].key]
      BY <1>4, <2>2 DEF Find
    <2>6. \A m \in DOMAIN data' : data'[m] \in [key : Keys, value : Values]
      BY <1>0, <2>3, <2>4 DEF TypeOK
    <2>7. \A m1, m2 \in ToSet(m_nodes') : m1 # m2 => internalKey(m1)' # internalKey(m2)'
      BY <1>0, <2>3, <2>4, <2>5 DEF ListTreeAgree, internalKey
    <2>8. pc'[t] = "insert" /\ found'[t] = n
      BY <1>0, <2>1 DEF push_back, TypeOK, CallTypeOK
    <2>9. IteratorValid(t)'
      BY <1>0, <2>1, <2>2, <2>3, <2>8 DEF IteratorValid
    <2>10. ListTreeAgree'
      BY <1>0, <2>1, <2>2, <2>3, <2>7, <2>8 DEF ListTreeAgree, Distinct
    <2> QED
      BY <1>0, <1>1, <1>2, <2>2, <2>3, <2>4, <2>6, <2>9, <2>10, OthersOutside DEF TypeOK
  <1>5. CASE /\ pc[t] = "act"
             /\ data' = [data EXCEPT ![found[t]].value = call[t].value]
             /\ Answer(t, REPLY_OK, "downgrade")
             /\ UNCHANGED <<m_nodes, m_tree, found>>
    <2>1. m_tree = ToSet(m_nodes)
      BY <1>0, <1>5, Agreement
    <2>2. found[t] \in DOMAIN data
      BY <1>0, <1>5 DEF IteratorsValid, IteratorValid, TypeOK
    <2>3. /\ DOMAIN data' = DOMAIN data
          /\ \A m \in DOMAIN data : data'[m] \in [key : Keys, value : Values] /\ data'[m].key = data[m].key
      BY <1>0, <1>5, <2>2 DEF TypeOK
    <2>4. pc'[t] = "downgrade"
      BY <1>0, <1>5 DEF TypeOK, CallTypeOK
    <2>5. IteratorValid(t)'
      BY <2>4 DEF IteratorValid
    <2>6. \A m \in ToSet(m_nodes) : internalKey(m)' = internalKey(m)
      BY <1>0, <2>3 DEF internalKey, TypeOK
    <2>7. ListTreeAgree'
      BY <1>0, <1>5, <2>1, <2>6 DEF ListTreeAgree
    <2> QED
      BY <1>0, <1>1, <1>2, <1>5, <2>3, <2>5, <2>7, OthersOutside DEF TypeOK
  <1>6. CASE /\ pc[t] = "insert"
             /\ m_tree' = IF Find(data[Last(m_nodes)].key) = {} THEN m_tree \cup {Last(m_nodes)}
                                                                ELSE m_tree
             /\ Answer(t, REPLY_OK, "downgrade")
             /\ UNCHANGED <<m_nodes, data, found>>
    <2>1. /\ m_tree = ToSet(m_nodes) \ {found[t]} /\ found[t] \in ToSet(m_nodes)
          /\ Last(m_nodes) = found[t]
      BY <1>0, <1>6, Agreement DEF IteratorsValid, IteratorValid
    <2>2. Find(data[found[t]].key) = {}
      BY <1>0, <2>1 DEF Find, ListTreeAgree, internalKey
    <2>3. m_tree' = ToSet(m_nodes)
      BY <1>6, <2>1, <2>2
    <2>4. pc'[t] = "downgrade"
      BY <1>0, <1>6 DEF TypeOK, CallTypeOK
    <2>5. IteratorValid(t)'
      BY <2>4 DEF IteratorValid
    <2>6. ListTreeAgree'
      BY <1>0, <1>6, <2>3 DEF ListTreeAgree, internalKey
    <2> QED
      BY <1>0, <1>1, <1>2, <1>6, <2>3, <2>5, <2>6, OthersOutside DEF TypeOK
  <1> QED
    BY <1>3, <1>4, <1>5, <1>6 DEF set

\* get changes nothing but its own iterator, which points into the tree.
LEMMA GetKeeps ==
    ASSUME TreeInv, NEW t \in Threads, Body(t), get(t)
    PROVE  TypeOK' /\ ListTreeAgree' /\ IteratorsValid'
  <1>0. /\ TypeOK /\ ListTreeAgree /\ IteratorsValid /\ Inside(t)
        /\ call' = call /\ m_access' = m_access /\ published' = published
        /\ call[t].op = "get"
    BY Places DEF TreeInv, get
  <1>1. CallTypeOK'
    BY BodyStep
  <1>2. /\ found' \in [Threads -> NodeIds \cup {NoNode}]
        /\ passed' \in [Threads -> Nat]
        /\ \A u \in Threads \ {t} : pc'[u] = pc[u] /\ passed'[u] = passed[u] /\ found'[u] = found[u]
    BY <1>0, IteratorTypes
  <1>3. m_nodes' = m_nodes /\ data' = data /\ m_tree' = m_tree
    BY DEF get, treeVars
  <1>4. TypeOK'
    BY <1>0, <1>1, <1>2, <1>3 DEF TypeOK
  <1>5. m_access.exclusive = NoThread /\ m_tree = ToSet(m_nodes)
    BY <1>0, Reading, NoThreadAssumption DEF TreeInv, ListTreeAgree
  <1>6. ListTreeAgree'
    BY <1>0, <1>3, <1>5 DEF ListTreeAgree, internalKey
  <1>7. ASSUME NEW u \in Threads \ {t} PROVE IteratorValid(u)'
    BY <1>0, <1>2, <1>3 DEF IteratorsValid, IteratorValid
  <1>8. IteratorValid(t)'
    <2>1. \/ pc'[t] = "unlock"
          \/ pc'[t] = "act" /\ found'[t] \in m_tree
      BY <1>0 DEF get, Found, Answer, Goto, Find, TypeOK, CallTypeOK
    <2> QED
      BY <1>0, <1>3, <2>1 DEF IteratorValid
  <1> QED
    BY <1>4, <1>6, <1>7, <1>8 DEF IteratorsValid

\* del unlinks the node it found and erases that same node from the list.
LEMMA DelKeeps ==
    ASSUME TreeInv, NEW t \in Threads, Body(t), del(t)
    PROVE  TypeOK' /\ ListTreeAgree' /\ IteratorsValid'
  <1>0. /\ TypeOK /\ ListTreeAgree /\ IteratorsValid /\ Inside(t) /\ Writing(t)
        /\ call' = call /\ m_access' = m_access /\ published' = published
        /\ call[t].op = "del" /\ m_access.exclusive = t
    BY Places, Alone DEF TreeInv, del, Writing
  <1>1. CallTypeOK'
    BY BodyStep
  <1>2. /\ found' \in [Threads -> NodeIds \cup {NoNode}]
        /\ passed' \in [Threads -> Nat]
        /\ \A u \in Threads \ {t} : pc'[u] = pc[u] /\ passed'[u] = passed[u] /\ found'[u] = found[u]
    BY <1>0, IteratorTypes
  <1> USE DEF Goto, Answer, Found
  <1>3. CASE /\ pc[t] = "find" /\ UNCHANGED treeVars
             /\ \/ Answer(t, REPLY_FALSE, "downgrade")
                \/ \E n \in Find(call[t].key) : Found(t, n, "act")
    <2>1. m_tree = ToSet(m_nodes)
      BY <1>0, <1>3, Agreement
    <2>2. m_nodes' = m_nodes /\ data' = data /\ m_tree' = m_tree
      BY <1>3 DEF treeVars
    <2>3. \/ pc'[t] = "downgrade"
          \/ pc'[t] = "act" /\ found'[t] \in m_tree
      BY <1>0, <1>3 DEF Find, TypeOK, CallTypeOK
    <2>4. IteratorValid(t)'
      BY <1>0, <2>2, <2>3 DEF IteratorValid
    <2> QED
      BY <1>0, <1>1, <1>2, <2>1, <2>2, <2>4, OthersOutside DEF TypeOK, ListTreeAgree, internalKey
  <1>4. CASE /\ pc[t] = "act" /\ m_tree' = m_tree \ {found[t]} /\ Goto(t, "dispose")
             /\ UNCHANGED <<m_nodes, data, found, reply>>
    <2>1. m_tree = ToSet(m_nodes) /\ found[t] \in m_tree
      BY <1>0, <1>4, Agreement DEF IteratorsValid, IteratorValid
    <2>2. pc'[t] = "dispose"
      BY <1>0, <1>4 DEF TypeOK, CallTypeOK
    <2>3. IteratorValid(t)'
      BY <1>0, <1>4, <2>1, <2>2 DEF IteratorValid
    <2>4. ListTreeAgree'
      BY <1>0, <1>4, <2>1, <2>2 DEF ListTreeAgree, internalKey
    <2> QED
      BY <1>0, <1>1, <1>2, <1>4, <2>1, <2>3, <2>4, OthersOutside DEF TypeOK
  <1>5. CASE /\ pc[t] = "dispose" /\ DeleteDisposer(found[t])
             /\ Answer(t, REPLY_TRUE, "downgrade") /\ UNCHANGED <<m_tree, found>>
    <2>1. m_tree = ToSet(m_nodes) \ {found[t]} /\ found[t] \in ToSet(m_nodes)
      BY <1>0, <1>5, Agreement
    <2>2. PICK i \in DOMAIN m_nodes : m_nodes[i] = found[t] /\ m_nodes' = RemoveAt(m_nodes, i)
      BY <1>5 DEF DeleteDisposer
    <2>3. m_nodes' \in Seq(NodeIds) /\ ToSet(m_nodes') = m_tree /\ Distinct(m_nodes')
      <3>1. m_nodes \in Seq(NodeIds) /\ Distinct(m_nodes)
        BY <1>0 DEF TypeOK, ListTreeAgree, Distinct
      <3> QED
        BY <2>1, <2>2, <3>1, Erase
    <2>4. /\ DOMAIN data' = m_tree
          /\ \A n \in m_tree : data'[n] = data[n]
      BY <1>0, <1>5, <2>1 DEF DeleteDisposer, TypeOK
    <2>5. \A n \in m_tree : data'[n] \in [key : Keys, value : Values]
      BY <1>0, <2>1, <2>4 DEF TypeOK
    <2>6. pc'[t] = "downgrade"
      BY <1>0, <1>5 DEF TypeOK, CallTypeOK
    <2>7. IteratorValid(t)'
      BY <2>6 DEF IteratorValid
    <2>8. \A n, m \in m_tree : n # m => internalKey(n)' # internalKey(m)'
      BY <1>0, <2>1, <2>4 DEF ListTreeAgree, internalKey
    <2>9. ListTreeAgree'
      BY <1>5, <2>3, <2>8 DEF ListTreeAgree, Distinct
    <2> QED
      BY <1>0, <1>1, <1>2, <1>5, <2>3, <2>4, <2>5, <2>7, <2>9, OthersOutside DEF TypeOK
  <1> QED
    BY <1>3, <1>4, <1>5 DEF del

\* foreach writes values into nodes, and never a key.
LEMMA ForeachKeeps ==
    ASSUME TreeInv, NEW t \in Threads, Body(t), foreach(t)
    PROVE  TypeOK' /\ ListTreeAgree' /\ IteratorsValid'
  <1>0. /\ TypeOK /\ ListTreeAgree /\ IteratorsValid /\ Inside(t) /\ Writing(t)
        /\ call' = call /\ m_access' = m_access /\ published' = published
        /\ call[t].op = "foreach" /\ m_access.exclusive = t /\ pc[t] = "act"
        /\ m_nodes' = m_nodes /\ m_tree' = m_tree /\ found' = found
    BY Places, Alone DEF TreeInv, foreach, Writing
  <1>1. CallTypeOK'
    BY BodyStep
  <1>2. /\ found' \in [Threads -> NodeIds \cup {NoNode}]
        /\ passed' \in [Threads -> Nat]
        /\ \A u \in Threads \ {t} : pc'[u] = pc[u] /\ passed'[u] = passed[u] /\ found'[u] = found[u]
    BY <1>0, IteratorTypes
  <1>3. m_tree = ToSet(m_nodes)
    BY <1>0, Agreement
  <1>4. \/ data' = data
        \/ \E n \in DOMAIN data, v \in Values : data' = [data EXCEPT ![n].value = v]
    <2>1. passed[t] < Len(m_nodes) => m_nodes[passed[t] + 1] \in DOMAIN data
      BY <1>0 DEF TypeOK, ToSet
    <2> QED
      BY <2>1 DEF foreach, ForeachNode
  <1>5. /\ DOMAIN data' = DOMAIN data
        /\ \A m \in DOMAIN data : data'[m] \in [key : Keys, value : Values] /\ data'[m].key = data[m].key
    <2>1. \A m \in DOMAIN data : data[m] \in [key : Keys, value : Values]
      BY <1>0 DEF TypeOK
    <2> QED
      BY <1>4, <2>1
  <1>6. TypeOK'
    BY <1>0, <1>1, <1>2, <1>5 DEF TypeOK
  <1>7. \A m \in ToSet(m_nodes) : internalKey(m)' = internalKey(m)
    BY <1>0, <1>5 DEF internalKey, TypeOK
  <1>8. ListTreeAgree'
    BY <1>0, <1>3, <1>7 DEF ListTreeAgree
  <1>9. pc'[t] \in {"act", "downgrade"}
    BY <1>0 DEF foreach, ForeachNode, Answer, Goto, TypeOK, CallTypeOK
  <1>10. IteratorValid(t)'
    BY <1>0, <1>9 DEF IteratorValid
  <1> QED
    BY <1>0, <1>2, <1>6, <1>8, <1>10, OthersOutside

\* The map that a tree of nodes stands for has values for keys.
LEMMA MapType ==
    ASSUME NEW nodes, NEW d, \A n \in nodes : d[n] \in [key : Keys, value : Values]
    PROVE  MapOf(nodes, d) \in Table
  <1>1. ASSUME NEW k \in Keys, \E n \in nodes : d[n].key = k
        PROVE  d[CHOOSE n \in nodes : d[n].key = k].value \in Values
    BY <1>1
  <1> QED
    BY <1>1 DEF MapOf, Table

\* Taking and giving back locks moves no node and no iterator that is in use.
LEMMA AroundKeeps ==
    ASSUME TreeInv, NEW t \in Threads,
           LockStep(t) \/ (Enter(t) /\ UNCHANGED <<treeVars, found, passed, published>>)
    PROVE  TypeOK' /\ ListTreeAgree' /\ IteratorsValid'
  <1>0. TypeOK /\ CallTypeOK /\ CallInv /\ LockInv /\ ListTreeAgree /\ IteratorsValid
    BY DEF TreeInv, TypeOK
  <1>1. CallTypeOK' /\ LockInv'
    BY <1>0, LockCallKeeps, EnterKeeps DEF LockStep
  <1>2. m_nodes' = m_nodes /\ data' = data /\ m_tree' = m_tree
    BY DEF LockStep, treeVars
  <1>3. \A n \in m_tree : data[n] \in [key : Keys, value : Values]
    BY <1>0 DEF TypeOK
  <1>4. published' \in Table
    BY <1>0, <1>3, MapType DEF LockStep, Contents, TypeOK
  <1>5. /\ found' \in [Threads -> NodeIds \cup {NoNode}]
        /\ passed' \in [Threads -> Nat]
        /\ \A u \in Threads \ {t} : passed'[u] = passed[u] /\ found'[u] = found[u]
    BY <1>0 DEF LockStep, TypeOK
  <1>6. TypeOK'
    BY <1>0, <1>1, <1>2, <1>4, <1>5 DEF TypeOK
  <1>7. /\ ~Inside(t)
        /\ \A u \in Threads \ {t} : pc'[u] = pc[u] /\ call'[u] = call[u]
    <2> USE <1>0 DEF CallTypeOK, Inside, InCriticalSection, Goto
    <2>1. CASE LockCall(t)
      BY <2>1 DEF LockCall, JsVmInit, Answer, Lock, Upgrade, Downgrade, Unlock, Return
    <2>2. CASE Enter(t)
      BY <2>2 DEF Enter
    <2> QED
      BY <2>1, <2>2 DEF LockStep
  <1>8. ListTreeAgree'
    <2>1. CASE m_tree = ToSet(m_nodes)
      BY <1>0, <1>2, <2>1 DEF ListTreeAgree, internalKey
    <2>2. ASSUME NEW u \in Threads, m_access.exclusive = u, pc[u] \in {"insert", "dispose"},
                 m_tree = ToSet(m_nodes) \ {found[u]}
          PROVE  ListTreeAgree'
      <3>1. Writing(u) /\ u # t
        BY <1>0, <1>7, <2>2 DEF Inside, Writing, InCriticalSection, IteratorsValid, IteratorValid
      <3>2. pc'[u] = pc[u] /\ found'[u] = found[u] /\ Writing(u)'
        BY <1>5, <1>7, <3>1 DEF Inside, Writing
      <3>3. m_access'.exclusive = u
        BY <1>1, <3>2 DEF LockInv
      <3> QED
        BY <1>0, <1>2, <2>2, <3>2, <3>3 DEF ListTreeAgree, internalKey
    <2> QED
      BY <1>0, <2>1, <2>2 DEF ListTreeAgree
  <1>9. ASSUME NEW u \in Threads \ {t} PROVE IteratorValid(u)'
    BY <1>0, <1>2, <1>5, <1>7 DEF IteratorsValid, IteratorValid
  <1>10. IteratorValid(t)'
    <2>1. CASE Enter(t) /\ UNCHANGED <<treeVars, found, passed, published>>
      BY <1>0, <2>1 DEF Enter, Goto, CallTypeOK, IteratorsValid, IteratorValid
    <2>2. CASE LockStep(t)
      <3>1. /\ \/ pc'[t] \in {"init", "lock", "upgrade", "find", "unlock", "return", "idle"}
               \/ pc'[t] = "act" /\ call[t].op = "foreach" /\ call' = call
            /\ pc'[t] \in {"lock", "upgrade", "init"} => pc[t] \in {"init", "lock"}
            /\ pc'[t] = "idle" => pc[t] = "return"
        BY <1>0, <2>2 DEF LockStep, LockCall, JsVmInit, Answer, Lock, Upgrade, Downgrade, Unlock, Return,
              Goto, CallTypeOK
      <3>2. pc[t] = "return" => passed'[t] = 0
        BY <1>0, <2>2 DEF LockStep, TypeOK
      <3>3. pc[t] \in {"init", "lock"} => passed'[t] = 0
        BY <1>0, <2>2 DEF LockStep, IteratorsValid, IteratorValid
      <3> QED
        BY <3>1, <3>2, <3>3 DEF IteratorValid
    <2> QED
      BY <2>1, <2>2
  <1> QED
    BY <1>6, <1>8, <1>9, <1>10 DEF IteratorsValid

\* TreeInv is inductive.
LEMMA TreeStep == TreeInv /\ [Next]_vars => TreeInv'
  <1> SUFFICES ASSUME TreeInv, [Next]_vars PROVE TypeOK' /\ ListTreeAgree' /\ IteratorsValid'
    BY CallStep DEF TreeInv
  <1>1. CASE UNCHANGED vars
    <2>1. UNCHANGED <<pc, call, reply, m_access, aborted, m_nodes, data, m_tree, found, passed, published>>
      BY <1>1 DEF vars, callVars, treeVars
    <2> QED
      BY <2>1 DEF TreeInv, TypeOK, CallTypeOK, ListTreeAgree, internalKey, IteratorsValid, IteratorValid
  <1>2. ASSUME NEW t \in Threads,
               Step(t) \/ (Enter(t) /\ UNCHANGED <<treeVars, found, passed, published>>)
        PROVE  TypeOK' /\ ListTreeAgree' /\ IteratorsValid'
    <2>1. CASE Body(t)
      <3>1. get(t) \/ set(t) \/ del(t) \/ foreach(t)
        BY <2>1 DEF Body
      <3> QED
        BY <2>1, <3>1, GetKeeps, SetKeeps, DelKeeps, ForeachKeeps
    <2> QED
      BY <1>2, <2>1, AroundKeeps DEF Step
  <1> QED
    BY <1>1, <1>2 DEF Next

\* Whatever the hash function: in every interleaving the list and the tree hold
\* the same nodes, each once, unless a thread holds the mutex alone between the two
\* updates of set or del; every iterator is valid when it is dereferenced; and
\* the mutex is held as the calls say (avltree.cpp:28-119).
THEOREM TreeInvariance == Spec => []TreeInv
  BY InitTree, TreeStep, PTL DEF Spec

\* No thread touches the list or the tree while another may be changing them
\* (avltree.cpp:30, 44-45, 65-66, 87-89).
THEOREM TreeRaceFreedom == Spec => []NoDataRace
  <1>1. TreeInv => NoDataRace
    BY NoRace DEF TreeInv
  <1> QED
    BY <1>1, TreeInvariance, PTL

----------------------------------------------------------------------------
(* The tree as a map, while no two keys have the same hash.                *)

\* Nodes that hold a key each, no two the same one.
Keyed(nodes, d) ==
    /\ \A n \in nodes : d[n] \in [key : Keys, value : Values]
    /\ \A n, m \in nodes : d[n].key = d[m].key => n = m

Updated(m, k, v) == [m EXCEPT ![k] = v]

\* What such a set of nodes stands for.
LEMMA MapAt ==
    ASSUME NEW nodes, NEW d, Keyed(nodes, d)
    PROVE  /\ MapOf(nodes, d) \in Table
           /\ \A n \in nodes : MapOf(nodes, d)[d[n].key] = d[n].value
           /\ \A k \in Keys : (\A n \in nodes : d[n].key # k) => MapOf(nodes, d)[k] = NotFound
  <1>1. MapOf(nodes, d) \in Table
    BY MapType DEF Keyed
  <1>2. ASSUME NEW n \in nodes PROVE MapOf(nodes, d)[d[n].key] = d[n].value
    <2>1. d[n].key \in Keys
      BY DEF Keyed
    <2>2. (CHOOSE m \in nodes : d[m].key = d[n].key) = n
      BY DEF Keyed
    <2> QED
      BY <2>1, <2>2 DEF MapOf
  <1>3. ASSUME NEW k \in Keys, \A n \in nodes : d[n].key # k PROVE MapOf(nodes, d)[k] = NotFound
    BY <1>3 DEF MapOf
  <1> QED
    BY <1>1, <1>2, <1>3

\* And no other map is like that.
LEMMA MapIs ==
    ASSUME NEW nodes, NEW d, Keyed(nodes, d), NEW m \in Table,
           \A n \in nodes : m[d[n].key] = d[n].value,
           \A k \in Keys : (\A n \in nodes : d[n].key # k) => m[k] = NotFound
    PROVE  MapOf(nodes, d) = m
  <1>1. MapOf(nodes, d) \in Table
    BY MapAt
  <1>2. ASSUME NEW k \in Keys PROVE MapOf(nodes, d)[k] = m[k]
    <2>1. CASE \E n \in nodes : d[n].key = k
      BY <2>1, MapAt
    <2>2. CASE \A n \in nodes : d[n].key # k
      BY <2>2, MapAt
    <2> QED
      BY <2>1, <2>2
  <1> QED
    BY <1>1, <1>2 DEF Table

\* No two nodes of the list have the same key: they would have the same hash.
LEMMA KeyedTree ==
    ASSUME TreeInv
    PROVE  Keyed(ToSet(m_nodes), data) /\ Keyed(m_tree, data)
  <1>1. Keyed(ToSet(m_nodes), data)
    BY DEF TreeInv, TypeOK, ListTreeAgree, internalKey, Keyed
  <1> QED
    BY <1>1 DEF TreeInv, TypeOK, Keyed

\* What find finds in the tree (avltree.cpp:32, 47, 68).
LEMMA FindFinds ==
    ASSUME TreeInv, NEW k \in Keys
    PROVE  /\ Find(k) = {} => Contents[k] = NotFound /\ \A n \in m_tree : data[n].key # k
           /\ DistinctHashes =>
                 \A n \in Find(k) : n \in m_tree /\ data[n].key = k /\ Contents[k] = data[n].value
  <1>1. Keyed(m_tree, data)
    BY KeyedTree
  <1>2. Find(k) = {} => \A n \in m_tree : data[n].key # k
    BY DEF Find, internalKey
  <1>3. DistinctHashes => \A n \in Find(k) : n \in m_tree /\ data[n].key = k
    BY <1>1 DEF Find, internalKey, DistinctHashes, Keyed
  <1> QED
    BY <1>1, <1>2, <1>3, MapAt DEF Contents

\* The map after a value is written into a node.
LEMMA MapWrite ==
    ASSUME NEW nodes, NEW d, Keyed(nodes, d), NEW n \in nodes, NEW v \in Values, NEW e,
           e[n] = [key |-> d[n].key, value |-> v], \A o \in nodes \ {n} : e[o] = d[o]
    PROVE  MapOf(nodes, e) = Updated(MapOf(nodes, d), d[n].key, v)
  <1> DEFINE m == Updated(MapOf(nodes, d), d[n].key, v)
  <1>1. /\ \A o \in nodes : d[o] \in [key : Keys, value : Values]
        /\ \A o, q \in nodes : d[o].key = d[q].key => o = q
    BY DEF Keyed
  <1>2. /\ e[n].key = d[n].key /\ e[n].value = v /\ e[n] \in [key : Keys, value : Values]
        /\ \A o \in nodes \ {n} : e[o] = d[o]
    BY <1>1
  <1>3. \A o \in nodes : e[o].key = d[o].key /\ e[o] \in [key : Keys, value : Values]
    BY <1>1, <1>2
  <1>4. Keyed(nodes, e)
    BY <1>1, <1>3 DEF Keyed
  <1>5. d[n].key \in Keys /\ MapOf(nodes, d) \in Table
    BY <1>1, MapAt
  <1>6. m \in Table /\ m[d[n].key] = v /\ \A k \in Keys \ {d[n].key} : m[k] = MapOf(nodes, d)[k]
    BY <1>5 DEF Table, Updated
  <1> HIDE DEF m
  <1>7. ASSUME NEW o \in nodes PROVE m[e[o].key] = e[o].value
    <2>1. CASE o = n
      BY <1>2, <1>6, <2>1
    <2>2. CASE o # n
      <3>1. d[o].key \in Keys \ {d[n].key} /\ e[o] = d[o]
        BY <1>1, <1>2, <2>2
      <3> QED
        BY <1>6, <3>1, MapAt
    <2> QED
      BY <2>1, <2>2
  <1>8. ASSUME NEW k \in Keys, \A o \in nodes : e[o].key # k PROVE m[k] = NotFound
    <2>1. k # d[n].key /\ \A o \in nodes : d[o].key # k
      BY <1>3, <1>8
    <2>2. MapOf(nodes, d)[k] = NotFound
      BY <2>1, MapAt
    <2> QED
      BY <1>6, <2>1, <2>2
  <1>9. MapOf(nodes, e) = m
    BY <1>4, <1>6, <1>7, <1>8, MapIs
  <1> QED
    BY <1>9 DEF m

\* The map after a node with a new key is linked, and after one is unlinked.
LEMMA MapLink ==
    ASSUME NEW nodes, NEW d, NEW n, Keyed(nodes \cup {n}, d), n \notin nodes
    PROVE  /\ MapOf(nodes \cup {n}, d) = Updated(MapOf(nodes, d), d[n].key, d[n].value)
           /\ MapOf(nodes, d) = Updated(MapOf(nodes \cup {n}, d), d[n].key, NotFound)
  <1>1. Keyed(nodes, d)
    BY DEF Keyed
  <1>2. d[n].key \in Keys /\ d[n].value \in Values /\ \A o \in nodes : d[o].key # d[n].key /\ d[o].key \in Keys
    BY DEF Keyed
  <1>3. MapOf(nodes, d) \in Table /\ MapOf(nodes \cup {n}, d) \in Table
    BY <1>1, MapAt
  <1> DEFINE linked   == Updated(MapOf(nodes, d), d[n].key, d[n].value)
             unlinked == Updated(MapOf(nodes \cup {n}, d), d[n].key, NotFound)
  <1>4. /\ linked \in Table /\ linked[d[n].key] = d[n].value
        /\ \A k \in Keys \ {d[n].key} : linked[k] = MapOf(nodes, d)[k]
    BY <1>2, <1>3 DEF Table, Updated
  <1>5. /\ unlinked \in Table /\ unlinked[d[n].key] = NotFound
        /\ \A k \in Keys \ {d[n].key} : unlinked[k] = MapOf(nodes \cup {n}, d)[k]
    BY <1>2, <1>3 DEF Table, Updated
  <1> HIDE DEF linked, unlinked
  <1>6. MapOf(nodes \cup {n}, d) = linked
    <2>1. \A o \in nodes \cup {n} : linked[d[o].key] = d[o].value
      BY <1>1, <1>2, <1>4, MapAt
    <2>2. \A k \in Keys : (\A o \in nodes \cup {n} : d[o].key # k) => linked[k] = NotFound
      BY <1>1, <1>2, <1>4, MapAt
    <2> QED
      BY <1>4, <2>1, <2>2, MapIs
  <1>7. MapOf(nodes, d) = unlinked
    <2>1. \A o \in nodes : unlinked[d[o].key] = d[o].value
      BY <1>2, <1>5, MapAt
    <2>2. ASSUME NEW k \in Keys, \A o \in nodes : d[o].key # k PROVE unlinked[k] = NotFound
      <3>1. CASE k = d[n].key
        BY <1>5, <3>1
      <3>2. CASE k # d[n].key
        <4>1. \A o \in nodes \cup {n} : d[o].key # k
          BY <2>2, <3>2
        <4>2. MapOf(nodes \cup {n}, d)[k] = NotFound
          BY <4>1, MapAt
        <4> QED
          BY <1>5, <3>2, <4>2
      <3> QED
        BY <3>1, <3>2
    <2> QED
      BY <1>1, <1>5, <2>1, <2>2, MapIs
  <1> QED
    BY <1>6, <1>7 DEF linked, unlinked

\* The map is in its nodes: what else the list holds does not matter.
LEMMA MapSame ==
    ASSUME NEW nodes, NEW d, Keyed(nodes, d), NEW e, \A n \in nodes : e[n] = d[n]
    PROVE  MapOf(nodes, e) = MapOf(nodes, d)
  <1>1. Keyed(nodes, e) /\ MapOf(nodes, d) \in Table
    BY MapAt DEF Keyed
  <1> QED
    BY <1>1, MapAt, MapIs

\* set makes the map hold the value under its key (avltree.cpp:42-60).
LEMMA SetWork ==
    ASSUME DistinctHashes, IInv, NEW t \in Threads, Body(t), set(t)
    PROVE  SetInv(t)' /\ pc'[t] # "find"
  <1>0. /\ TreeInv /\ TypeOK /\ IteratorsValid /\ call' = call /\ published' = published
        /\ call[t].op = "set" /\ Inside(t) /\ pc \in [Threads -> Labels]
    BY Places DEF IInv, TreeInv, TypeOK, CallTypeOK, set
  <1>1. call[t].key \in Keys /\ call[t].value \in Values
    BY <1>0, CallFields DEF TypeOK, CallTypeOK
  <1>2. Keyed(m_tree, data) /\ Keyed(ToSet(m_nodes), data) /\ m_tree \subseteq DOMAIN data
    BY <1>0, KeyedTree DEF TypeOK
  <1>3. SetInv(t) /\ (pc[t] = "find" => Contents = published)
    BY <1>0 DEF IInv, WorkInv
  <1> USE DEF Goto, Answer, Found
  <1>4. CASE pc[t] = "find" /\ \E n \in Find(call[t].key) : Found(t, n, "act") /\ UNCHANGED treeVars
    <2>1. data' = data /\ m_tree' = m_tree
      BY <1>4 DEF treeVars
    <2>2. pc'[t] = "act" /\ data[found'[t]].key = call[t].key
      BY <1>0, <1>1, <1>4, FindFinds DEF TypeOK
    <2> QED
      BY <1>0, <1>3, <1>4, <2>1, <2>2 DEF SetInv, Contents
  <1>5. CASE /\ pc[t] = "find" /\ Find(call[t].key) = {} /\ UNCHANGED m_tree
             /\ \E n \in NodeIds \ ToSet(m_nodes) : push_back(t, n)
    <2>1. PICK n \in NodeIds \ ToSet(m_nodes) : push_back(t, n)
      BY <1>5
    <2>2. /\ data'[n] = [key |-> call[t].key, value |-> call[t].value]
          /\ \A m \in m_tree : data'[m] = data[m]
          /\ pc'[t] = "insert" /\ found'[t] = n
      BY <1>0, <2>1 DEF push_back, TypeOK
    <2>3. Contents' = Contents
      BY <1>2, <1>5, <2>2, MapSame DEF Contents
    <2> QED
      BY <1>0, <1>3, <1>5, <2>2, <2>3 DEF SetInv
  <1>6. CASE /\ pc[t] = "act"
             /\ data' = [data EXCEPT ![found[t]].value = call[t].value]
             /\ Answer(t, REPLY_OK, "downgrade")
             /\ UNCHANGED <<m_nodes, m_tree, found>>
    <2>1. found[t] \in m_tree
      BY <1>0, <1>6 DEF IteratorsValid, IteratorValid
    <2>2. Contents = published /\ data[found[t]].key = call[t].key
      BY <1>3, <1>6 DEF SetInv
    <2>3. /\ data'[found[t]] = [key |-> data[found[t]].key, value |-> call[t].value]
          /\ \A n \in m_tree \ {found[t]} : data'[n] = data[n]
      BY <1>2, <1>6, <2>1 DEF Keyed
    <2>4. MapOf(m_tree, data') = Updated(MapOf(m_tree, data), data[found[t]].key, call[t].value)
      BY <1>1, <1>2, <2>1, <2>3, MapWrite
    <2>5. Contents' = Updated(published, call[t].key, call[t].value)
      BY <1>6, <2>2, <2>4 DEF Contents
    <2>6. pc'[t] = "downgrade" /\ reply'[t] = REPLY_OK
      BY <1>0, <1>6 DEF TypeOK, CallTypeOK
    <2> QED
      BY <1>0, <2>5, <2>6 DEF SetInv, Updated
  <1>7. CASE /\ pc[t] = "insert"
             /\ m_tree' = IF Find(data[Last(m_nodes)].key) = {} THEN m_tree \cup {Last(m_nodes)}
                                                                ELSE m_tree
             /\ Answer(t, REPLY_OK, "downgrade")
             /\ UNCHANGED <<m_nodes, data, found>>
    <2>1. /\ m_tree = ToSet(m_nodes) \ {found[t]} /\ found[t] \in ToSet(m_nodes)
          /\ Last(m_nodes) = found[t]
      BY <1>0, <1>7, Agreement DEF IteratorsValid, IteratorValid
    <2>2. Find(data[found[t]].key) = {}
      BY <1>0, <2>1 DEF Find, TreeInv, ListTreeAgree, internalKey
    <2>3. m_tree' = m_tree \cup {found[t]} /\ m_tree \cup {found[t]} = ToSet(m_nodes)
      BY <1>7, <2>1, <2>2
    <2>4. /\ Contents = published
          /\ data[found[t]].key = call[t].key /\ data[found[t]].value = call[t].value
      BY <1>3, <1>7 DEF SetInv
    <2>5. MapOf(m_tree \cup {found[t]}, data)
             = Updated(MapOf(m_tree, data), data[found[t]].key, data[found[t]].value)
      <3>1. Keyed(m_tree \cup {found[t]}, data) /\ found[t] \notin m_tree
        BY <1>2, <2>1, <2>3
      <3> QED
        BY <3>1, MapLink
    <2>6. Contents' = Updated(published, call[t].key, call[t].value)
      BY <1>7, <2>3, <2>4, <2>5 DEF Contents
    <2>7. pc'[t] = "downgrade" /\ reply'[t] = REPLY_OK
      BY <1>0, <1>7 DEF TypeOK, CallTypeOK
    <2> QED
      BY <1>0, <2>6, <2>7 DEF SetInv, Updated
  <1> QED
    BY <1>4, <1>5, <1>6, <1>7 DEF set

\* del takes its key out of the map, and says whether it was there
\* (avltree.cpp:63-76).
LEMMA DelWork ==
    ASSUME DistinctHashes, IInv, NEW t \in Threads, Body(t), del(t)
    PROVE  DelInv(t)' /\ pc'[t] # "find"
  <1>0. /\ TreeInv /\ TypeOK /\ IteratorsValid /\ call' = call /\ published' = published
        /\ call[t].op = "del" /\ Inside(t) /\ pc \in [Threads -> Labels]
        /\ published \in Table
    BY Places DEF IInv, TreeInv, TypeOK, CallTypeOK, del
  <1>1. call[t].key \in Keys
    BY <1>0, CallFields DEF TypeOK, CallTypeOK
  <1>2. Keyed(m_tree, data) /\ Keyed(ToSet(m_nodes), data) /\ m_tree \subseteq DOMAIN data
    BY <1>0, KeyedTree DEF TypeOK
  <1>3. DelInv(t) /\ (pc[t] = "find" => Contents = published)
    BY <1>0 DEF IInv, WorkInv
  <1> USE DEF Goto, Answer, Found
  <1>4. CASE /\ pc[t] = "find" /\ Find(call[t].key) = {} /\ Answer(t, REPLY_FALSE, "downgrade")
             /\ UNCHANGED treeVars
    <2>1. Contents' = Contents
      BY <1>4 DEF treeVars, Contents
    <2>2. published[call[t].key] = NotFound
      BY <1>0, <1>1, <1>3, <1>4, FindFinds
    <2>3. published = [published EXCEPT ![call[t].key] = NotFound]
      BY <1>0, <1>1, <2>2 DEF Table
    <2>4. pc'[t] = "downgrade" /\ reply'[t] = REPLY_FALSE
      BY <1>0, <1>4 DEF TypeOK, CallTypeOK
    <2> QED
      BY <1>0, <1>3, <1>4, <2>1, <2>2, <2>3, <2>4 DEF DelInv, Present
  <1>5. CASE pc[t] = "find" /\ \E n \in Find(call[t].key) : Found(t, n, "act") /\ UNCHANGED treeVars
    <2>1. data' = data /\ m_tree' = m_tree
      BY <1>5 DEF treeVars
    <2>2. pc'[t] = "act" /\ data[found'[t]].key = call[t].key
      BY <1>0, <1>1, <1>5, FindFinds DEF TypeOK
    <2> QED
      BY <1>0, <1>3, <1>5, <2>1, <2>2 DEF DelInv, Contents
  <1>6. CASE /\ pc[t] = "act" /\ m_tree' = m_tree \ {found[t]} /\ Goto(t, "dispose")
             /\ UNCHANGED <<m_nodes, data, found, reply>>
    <2>1. found[t] \in m_tree
      BY <1>0, <1>6 DEF IteratorsValid, IteratorValid
    <2>2. Contents = published /\ data[found[t]].key = call[t].key
      BY <1>3, <1>6 DEF DelInv
    <2>3. m_tree' \cup {found[t]} = m_tree /\ found[t] \notin m_tree'
      BY <1>6, <2>1
    <2>4. Contents' = Updated(published, call[t].key, NotFound)
      <3>1. Keyed(m_tree' \cup {found[t]}, data)
        BY <1>2, <2>3
      <3>2. MapOf(m_tree', data) = Updated(MapOf(m_tree' \cup {found[t]}, data), data[found[t]].key, NotFound)
        BY <2>3, <3>1, MapLink
      <3> QED
        BY <1>6, <2>2, <2>3, <3>2 DEF Contents
    <2>5. published[call[t].key] \in Values
      BY <1>2, <2>1, <2>2, MapAt DEF Contents, Keyed
    <2>6. call[t].key \in Present
      BY <1>1, <2>5, DbAssumption DEF Present
    <2>7. pc'[t] = "dispose" /\ Present' = Present
      BY <1>0, <1>6 DEF Present
    <2> QED
      BY <1>0, <2>4, <2>6, <2>7 DEF DelInv, Updated
  <1>7. CASE /\ pc[t] = "dispose" /\ DeleteDisposer(found[t])
             /\ Answer(t, REPLY_TRUE, "downgrade") /\ UNCHANGED <<m_tree, found>>
    <2>1. m_tree = ToSet(m_nodes) \ {found[t]}
      BY <1>0, <1>7, Agreement
    <2>2. \A n \in m_tree : data'[n] = data[n]
      BY <1>0, <1>7, <2>1 DEF DeleteDisposer, TypeOK
    <2>3. Contents' = Contents
      BY <1>2, <1>7, <2>2, MapSame DEF Contents
    <2>4. pc'[t] = "downgrade" /\ reply'[t] = REPLY_TRUE /\ Present' = Present
      BY <1>0, <1>7 DEF TypeOK, CallTypeOK, Present
    <2> QED
      BY <1>0, <1>3, <1>7, <2>3, <2>4 DEF DelInv
  <1> QED
    BY <1>4, <1>5, <1>6, <1>7 DEF del

\* The node that the loop of foreach comes to next: its key has not been passed,
\* and its value is the published one.
LEMMA NextNode ==
    ASSUME IInv, NEW t \in Threads, call[t].op = "foreach", pc[t] = "act",
           passed[t] < Len(m_nodes)
    PROVE  LET n == m_nodes[passed[t] + 1]
           IN  /\ n \in m_tree /\ data[n].key \in Present \ Visited(t)
               /\ data[n].value = published[data[n].key]
               /\ data[n].value = Contents[data[n].key]
  <1> DEFINE n == m_nodes[passed[t] + 1]
             k == data[n].key
  <1>0. /\ TreeInv /\ TypeOK /\ ListTreeAgree /\ Inside(t) /\ ForeachInv(t)
    BY DEF IInv, TreeInv, WorkInv, Inside, InCriticalSection
  <1>1. /\ passed[t] \in Nat /\ m_nodes \in Seq(NodeIds) /\ Len(m_nodes) \in Nat
        /\ DOMAIN m_nodes = 1..Len(m_nodes) /\ passed[t] + 1 \in 1..Len(m_nodes)
    BY <1>0 DEF TypeOK
  <1>2. m_tree = ToSet(m_nodes) /\ Keyed(m_tree, data)
    BY <1>0, Agreement, KeyedTree
  <1>3. n \in m_tree
    BY <1>1, <1>2 DEF ToSet
  <1>4. k \in Keys /\ data[n].value \in Values /\ Contents[k] = data[n].value
    BY <1>2, <1>3, MapAt DEF Keyed, Contents
  <1>5. ASSUME NEW i \in 1..passed[t] PROVE data[m_nodes[i]].key # k
    <2>1. i \in 1..Len(m_nodes) /\ i # passed[t] + 1
      BY <1>1
    <2>2. m_nodes[i] # n /\ m_nodes[i] \in m_tree
      BY <1>0, <1>1, <1>2, <2>1 DEF ListTreeAgree, ToSet
    <2> QED
      BY <1>2, <1>3, <2>2 DEF Keyed
  <1>6. k \notin Visited(t)
    BY <1>5 DEF Visited
  <1>7. published[k] = Contents[k]
    BY <1>0, <1>4, <1>6 DEF ForeachInv
  <1> QED
    BY <1>3, <1>4, <1>6, <1>7, DbAssumption DEF Present

\* foreach replaces the values of the keys it passes by what the function made of
\* them, and stops at the end of the list or at an exception (avltree.cpp:79-108).
LEMMA ForeachWork ==
    ASSUME IInv, NEW t \in Threads, Body(t), foreach(t)
    PROVE  ForeachInv(t)' /\ pc'[t] # "find"
  <1> DEFINE n == m_nodes[passed[t] + 1]
             k == data[n].key
  <1>0. /\ TreeInv /\ TypeOK /\ ListTreeAgree /\ ForeachInv(t) /\ Inside(t)
        /\ call' = call /\ published' = published /\ m_nodes' = m_nodes /\ m_tree' = m_tree
        /\ call[t].op = "foreach" /\ pc[t] = "act" /\ pc \in [Threads -> Labels]
        /\ reply \in [Threads -> Replies \cup {NoReply}] /\ Present' = Present
        /\ passed \in [Threads -> Nat] /\ passed[t] \in Nat /\ Len(m_nodes) \in Nat
    BY Places DEF IInv, TreeInv, TypeOK, CallTypeOK, foreach, WorkInv, Present
  <1>1. m_tree = ToSet(m_nodes) /\ Keyed(m_tree, data) /\ m_tree = DOMAIN data
    BY <1>0, Agreement, KeyedTree DEF TypeOK
  <1>2. /\ passed[t] <= Len(m_nodes)
        /\ \A j \in Keys :
              IF j \in Visited(t)
              THEN j \in Present /\ Contents[j] \in Values \cap JsResult(call[t].script, j, published[j])
              ELSE Contents[j] = published[j]
    BY <1>0 DEF ForeachInv
  <1>3. \A i \in 1..Len(m_nodes) : m_nodes[i] \in m_tree
    BY <1>0, <1>1 DEF ToSet, TypeOK
  <1>4. CASE UNCHANGED <<data, passed>>
    <2>1. Contents' = Contents /\ Visited(t)' = Visited(t)
      BY <1>0, <1>4 DEF Contents, Visited
    <2>2. CASE pc' = pc
      BY <1>0, <1>2, <1>4, <2>1, <2>2 DEF ForeachInv
    <2>3. CASE passed[t] = Len(m_nodes) /\ Answer(t, REPLY_TRUE, "downgrade")
      <3>1. pc'[t] = "downgrade" /\ reply'[t] = REPLY_TRUE
        BY <1>0, <2>3 DEF Answer, Goto
      <3>2. ASSUME NEW j \in Present PROVE j \in Visited(t)
        <4>1. SUFFICES ASSUME j \notin Visited(t) PROVE FALSE
          OBVIOUS
        <4>2. j \in Keys /\ Contents[j] # NotFound
          BY <1>2, <4>1 DEF Present
        <4>3. PICK m \in m_tree : data[m].key = j
          BY <1>1, <4>2, MapAt DEF Contents
        <4>4. PICK i \in 1..Len(m_nodes) : m_nodes[i] = m
          BY <1>0, <1>1, <4>3 DEF ToSet, TypeOK
        <4> QED
          BY <2>3, <4>1, <4>3, <4>4 DEF Visited
      <3> QED
        BY <1>0, <1>2, <1>4, <2>1, <3>1, <3>2 DEF ForeachInv
    <2>4. CASE /\ passed[t] < Len(m_nodes) /\ Throw \in JsVmCall(t, k, data[n].value)
               /\ Answer(t, REPLY_ERROR, "downgrade")
      <3>1. pc'[t] = "downgrade" /\ reply'[t] = REPLY_ERROR
        BY <1>0, <2>4 DEF Answer, Goto
      <3>2. k \in Present \ Visited(t) /\ Throw \in JsResult(call[t].script, k, published[k])
        BY <1>0, <2>4, NextNode DEF JsVmCall
      <3> QED
        BY <1>0, <1>2, <1>4, <2>1, <3>1, <3>2 DEF ForeachInv
    <2> QED
      BY <1>0, <1>4, <2>2, <2>3, <2>4 DEF foreach, ForeachNode
  <1>5. ASSUME passed[t] < Len(m_nodes), NEW v \in Values \cap JsVmCall(t, k, data[n].value),
               data' = [data EXCEPT ![n].value = v], passed' = [passed EXCEPT ![t] = @ + 1],
               UNCHANGED <<pc, reply>>
        PROVE  ForeachInv(t)'
    <2>1. /\ n \in m_tree /\ k \in Present \ Visited(t) /\ k \in Keys
          /\ v \in JsResult(call[t].script, k, published[k])
      BY <1>0, <1>5, NextNode DEF Present, JsVmCall
    <2>2. /\ data'[n] = [key |-> k, value |-> v]
          /\ \A m \in m_tree \ {n} : data'[m] = data[m]
      BY <1>1, <1>5, <2>1 DEF Keyed
    <2>3. MapOf(m_tree, data') = Updated(MapOf(m_tree, data), k, v)
      BY <1>1, <2>1, <2>2, MapWrite
    <2>4. /\ Contents \in Table /\ Contents'[k] = v
          /\ \A j \in Keys \ {k} : Contents'[j] = Contents[j]
      <3>1. Contents \in Table
        BY <1>1, MapAt DEF Contents
      <3>2. Contents' = Updated(Contents, k, v)
        BY <1>0, <2>3 DEF Contents
      <3> QED
        BY <2>1, <3>1, <3>2 DEF Updated, Table
    <2>5. passed'[t] = passed[t] + 1 /\ passed'[t] <= Len(m_nodes)
      BY <1>0, <1>5
    <2>6. Visited(t)' = Visited(t) \cup {k}
      <3>1. \A i \in 1..(passed[t] + 1) : data'[m_nodes[i]].key = data[m_nodes[i]].key
        BY <1>0, <1>3, <1>5, <2>2
      <3>2. \A i : i \in 1..(passed[t] + 1) <=> i \in 1..passed[t] \/ i = passed[t] + 1
        BY <1>0
      <3> QED
        BY <1>0, <2>5, <3>1, <3>2 DEF Visited
    <2>7. ASSUME NEW j \in Keys
          PROVE  IF j \in Visited(t)'
                 THEN j \in Present /\ Contents'[j] \in Values \cap JsResult(call[t].script, j, published[j])
                 ELSE Contents'[j] = published[j]
      <3>1. CASE j = k
        BY <2>1, <2>4, <2>6, <3>1
      <3>2. CASE j # k
        BY <1>2, <2>4, <2>6, <3>2
      <3> QED
        BY <3>1, <3>2
    <2> QED
      BY <1>0, <1>5, <2>5, <2>7 DEF ForeachInv
  <1>6. pc'[t] # "find"
    BY <1>0 DEF foreach, ForeachNode, Answer, Goto
  <1> QED
    BY <1>4, <1>5, <1>6 DEF foreach, ForeachNode

\* What holds of the threads besides their calls and the mutex.
Rest == WorkInv /\ NothingUncommitted /\ GetAnswersItsKey

\* A get reads the map as it was published, and from the node of its key.
LEMMA GetWork ==
    ASSUME DistinctHashes, IInv, NEW t \in Threads, Body(t), get(t)
    PROVE  Rest'
  <1>0. /\ TreeInv /\ TypeOK /\ WorkInv /\ NothingUncommitted /\ GetAnswersItsKey
        /\ call' = call /\ published' = published /\ m_access' = m_access
        /\ call[t].op = "get" /\ pc \in [Threads -> Labels] /\ passed' = passed
        /\ m_nodes' = m_nodes /\ data' = data /\ m_tree' = m_tree
    BY Places DEF IInv, TreeInv, TypeOK, CallTypeOK, Body, get, treeVars, foreach
  <1>1. Contents' = Contents /\ Present' = Present /\ \A u : Visited(u)' = Visited(u)
    BY <1>0 DEF Contents, Present, Visited
  <1>2. \A u \in Threads \ {t} : pc'[u] = pc[u] /\ found'[u] = found[u] /\ reply'[u] = reply[u]
    BY <1>0 DEF get, Found, Answer, Goto, TypeOK, CallTypeOK
  <1>3. call[t].key \in Keys
    BY <1>0, CallFields DEF TypeOK, CallTypeOK
  <1>4. \/ pc'[t] = "act" /\ data[found'[t]].key = call[t].key
        \/ pc'[t] = "unlock" /\ (reply'[t] # REPLY_NIL => data[found'[t]].key = call[t].key)
    <2>1. CASE pc[t] = "find" /\ Answer(t, REPLY_NIL, "unlock")
      BY <1>0, <2>1 DEF Answer, Goto, TypeOK, CallTypeOK
    <2>2. CASE pc[t] = "find" /\ \E n \in Find(call[t].key) : Found(t, n, "act")
      BY <1>0, <1>3, <2>2, FindFinds DEF Found, Goto, TypeOK
    <2>3. CASE pc[t] = "act" /\ Answer(t, toReplyString(data[found[t]].value), "unlock") /\ found' = found
      BY <1>0, <2>3 DEF Answer, Goto, WorkInv
    <2> QED
      BY <2>1, <2>2, <2>3 DEF get
  <1>5. GetAnswersItsKey'
    BY <1>0, <1>2, <1>4 DEF GetAnswersItsKey
  <1>6. NothingUncommitted'
    BY <1>0, <1>1 DEF NothingUncommitted
  <1>7. ASSUME NEW u \in Threads PROVE WorkInv!(u)'
    <2>1. CASE u = t
      BY <1>0, <1>4, <2>1 DEF WorkInv
    <2>2. CASE u # t
      <3>1. pc'[u] = pc[u] /\ found'[u] = found[u] /\ reply'[u] = reply[u] /\ WorkInv!(u)
        BY <1>0, <1>2, <2>2 DEF WorkInv
      <3> QED
        BY <1>0, <1>1, <3>1 DEF SetInv, DelInv, ForeachInv
    <2> QED
      BY <2>1, <2>2
  <1> QED
    BY <1>5, <1>6, <1>7 DEF Rest, WorkInv

\* A step of a writer: nobody else is inside, or has an answer from the tree that
\* is still to be given.
LEMMA WriteWork ==
    ASSUME DistinctHashes, IInv, NEW t \in Threads, Body(t), set(t) \/ del(t) \/ foreach(t)
    PROVE  Rest'
  <1>0. /\ TreeInv /\ TypeOK /\ LockInv /\ Inside(t) /\ GetAnswersItsKey
        /\ call' = call /\ m_access' = m_access /\ call[t].op \in {"set", "del", "foreach"}
    BY Places DEF IInv, TreeInv, set, del, foreach
  <1>1. Writing(t) /\ m_access.exclusive = t
    BY <1>0, Alone DEF Writing
  <1>2. /\ pc'[t] # "find"
        /\ call[t].op = "set" => SetInv(t)'
        /\ call[t].op = "del" => DelInv(t)'
        /\ call[t].op = "foreach" => ForeachInv(t)'
    BY SetWork, DelWork, ForeachWork DEF set, del, foreach
  <1>3. \A u \in Threads \ {t} : /\ pc'[u] = pc[u]
                                 /\ pc[u] \notin {"find", "act", "insert", "dispose", "downgrade"}
                                 /\ ~(call[u].op = "get" /\ pc[u] = "unlock")
    BY <1>0, <1>1, Alone, IteratorTypes DEF Inside, InCriticalSection
  <1>4. ASSUME NEW u \in Threads PROVE WorkInv!(u)'
    <2>1. CASE u = t
      BY <1>0, <1>2, <2>1
    <2>2. CASE u # t
      BY <1>0, <1>3, <2>2 DEF SetInv, DelInv, ForeachInv
    <2> QED
      BY <2>1, <2>2
  <1>5. GetAnswersItsKey'
    BY <1>0, <1>3 DEF GetAnswersItsKey
  <1>6. NothingUncommitted'
    BY <1>0, <1>1, NoThreadAssumption DEF NothingUncommitted
  <1> QED
    BY <1>4, <1>5, <1>6 DEF Rest, WorkInv

\* Around the body: a writer comes in to the published map, and publishes the map it
\* leaves.
LEMMA AroundWork ==
    ASSUME IInv, NEW t \in Threads,
           LockStep(t) \/ (Enter(t) /\ UNCHANGED <<treeVars, found, passed, published>>)
    PROVE  Rest'
  <1>0. /\ TreeInv /\ TypeOK /\ CallTypeOK /\ CallInv /\ LockInv /\ WorkInv
        /\ NothingUncommitted /\ GetAnswersItsKey /\ IteratorsValid
        /\ m_nodes' = m_nodes /\ data' = data /\ m_tree' = m_tree
    BY DEF IInv, TreeInv, TypeOK, LockStep, treeVars
  <1>1. Contents' = Contents
    BY <1>0 DEF Contents
  <1>2. /\ \A u \in Threads \ {t} : /\ pc'[u] = pc[u] /\ call'[u] = call[u] /\ reply'[u] = reply[u]
                                    /\ found'[u] = found[u] /\ passed'[u] = passed[u]
    <2> USE <1>0 DEF TypeOK, CallTypeOK, Goto
    <2>1. CASE LockStep(t)
      <3>1. \A u \in Threads \ {t} : found'[u] = found[u] /\ passed'[u] = passed[u]
        BY <2>1 DEF LockStep
      <3>2. \A u \in Threads \ {t} : pc'[u] = pc[u] /\ call'[u] = call[u] /\ reply'[u] = reply[u]
        BY <2>1 DEF LockStep, LockCall, JsVmInit, Answer, Lock, Upgrade, Downgrade, Unlock, Return
      <3> QED
        BY <3>1, <3>2
    <2>2. CASE Enter(t) /\ UNCHANGED <<treeVars, found, passed, published>>
      BY <2>2 DEF Enter
    <2> QED
      BY <2>1, <2>2
  <1>3. GetAnswersItsKey'
    <2>1. ~(call'[t].op = "get" /\ pc'[t] = "unlock")
      BY <1>0 DEF LockStep, LockCall, JsVmInit, Answer, Lock, Upgrade, Downgrade, Unlock, Return, Enter,
                  Goto, CallTypeOK, CallInv
    <2> QED
      BY <1>0, <1>2, <2>1 DEF GetAnswersItsKey
  <1>4. ASSUME published' = published,
               pc'[t] \in {"find", "act"} => Contents = published,
               pc'[t] = "act" => call'[t].op = "foreach" /\ passed'[t] = 0,
               pc'[t] \notin {"insert", "dispose", "downgrade"},
               m_access'.exclusive = NoThread => m_access.exclusive = NoThread
        PROVE  Rest'
    <2>1. Present' = Present /\ \A u \in Threads \ {t} : Visited(u)' = Visited(u)
      BY <1>0, <1>2, <1>4 DEF Present, Visited
    <2>2. ASSUME NEW u \in Threads PROVE WorkInv!(u)'
      <3>1. CASE u = t
        <4>1. pc'[t] = "act" => Visited(t)' = {} /\ passed'[t] <= Len(m_nodes)
          BY <1>0, <1>4 DEF Visited, TypeOK
        <4> QED
          BY <1>0, <1>1, <1>4, <3>1, <4>1 DEF SetInv, DelInv, ForeachInv
      <3>2. CASE u # t
        <4>1. WorkInv!(u) /\ u \in Threads \ {t}
          BY <1>0, <3>2 DEF WorkInv
        <4> QED
          BY <1>0, <1>1, <1>2, <1>4, <2>1, <4>1 DEF SetInv, DelInv, ForeachInv
      <3> QED
        BY <3>1, <3>2
    <2>3. NothingUncommitted'
      BY <1>0, <1>1, <1>4 DEF NothingUncommitted
    <2> QED
      BY <1>3, <2>2, <2>3 DEF Rest, WorkInv
  <1>5. CASE Enter(t) /\ UNCHANGED <<treeVars, found, passed, published>>
    <2>1. pc'[t] \in {"init", "lock"} /\ m_access' = m_access /\ published' = published
      BY <1>0, <1>5 DEF Enter, Goto, CallTypeOK
    <2> QED
      BY <1>4, <2>1
  <1>6. CASE LockStep(t) /\ Downgrade(t)
    <2>1. /\ published' = Contents /\ pc'[t] = "unlock" /\ pc[t] = "downgrade"
      BY <1>0, <1>6 DEF LockStep, Downgrade, Goto, CallTypeOK
    <2>2. \A u \in Threads : pc'[u] \notin {"find", "act", "insert", "dispose", "downgrade"}
      BY <1>0, <1>2, <2>1, Alone DEF Inside, InCriticalSection
    <2>3. NothingUncommitted'
      BY <1>1, <2>1 DEF NothingUncommitted
    <2>4. ASSUME NEW u \in Threads PROVE WorkInv!(u)'
      BY <2>2 DEF SetInv, DelInv, ForeachInv
    <2> QED
      BY <1>3, <2>3, <2>4 DEF Rest, WorkInv
  <1>7. CASE LockStep(t) /\ Upgrade(t)
    <2>1. /\ published' = published /\ call' = call /\ m_access'.exclusive = t
          /\ pc[t] = "upgrade" /\ call[t].op # "get"
          /\ pc'[t] = IF call[t].op = "foreach" THEN "act" ELSE "find"
      BY <1>0, <1>7 DEF LockStep, Upgrade, Goto, CallTypeOK, CallInv, unlock_upgrade_and_lock, MutexType
    <2>2. Contents = published
      BY <1>0, <2>1, NoThreadAssumption DEF LockInv, NothingUncommitted
    <2>3. passed'[t] = 0
      BY <1>0, <1>7, <2>1 DEF LockStep, IteratorsValid, IteratorValid
    <2> QED
      BY <1>4, <2>1, <2>2, <2>3, NoThreadAssumption
  <1>8. CASE LockStep(t) /\ Lock(t)
    <2>1. /\ published' = published /\ m_access'.exclusive = m_access.exclusive
          /\ \/ pc'[t] = "upgrade"
             \/ pc'[t] = "find" /\ m_access.exclusive = NoThread
      BY <1>0, <1>8 DEF LockStep, Lock, lock_shared, lock_upgrade, Goto, CallTypeOK, MutexType
    <2> QED
      BY <1>0, <1>4, <2>1 DEF NothingUncommitted
  <1>9. CASE LockStep(t) /\ (JsVmInit(t) \/ Unlock(t) \/ Return(t))
    <2>1. /\ published' = published /\ m_access'.exclusive = m_access.exclusive
          /\ pc'[t] \in {"init", "lock", "return", "idle"}
      BY <1>0, <1>9 DEF LockStep, JsVmInit, Answer, Unlock, Return, unlock_shared, unlock_upgrade, Goto,
                        CallTypeOK, MutexType
    <2> QED
      BY <1>4, <2>1
  <1> QED
    BY <1>5, <1>6, <1>7, <1>8, <1>9 DEF LockStep, LockCall

\* The inductive invariant holds in every state, as long as no two keys have the same
\* hash: each operation has done to the tree, as a map, what its place says.
THEOREM TreeMapInvariance == ASSUME DistinctHashes PROVE Spec => []IInv
  <1>1. Init => IInv
    <2> SUFFICES ASSUME Init PROVE Rest
      BY InitTree DEF IInv, Rest
    <2>1. Contents = published
      <3>1. Keyed(m_tree, data) /\ m_tree = {}
        BY DEF Init, Keyed
      <3> QED
        BY <3>1, MapIs DEF Init, Contents, Table
    <2> QED
      BY <2>1 DEF Init, CallInit, Rest, WorkInv, NothingUncommitted, GetAnswersItsKey, NoCall
  <1>2. IInv /\ [Next]_vars => IInv'
    <2> SUFFICES ASSUME IInv, [Next]_vars PROVE Rest'
      BY TreeStep DEF IInv, Rest
    <2>1. CASE UNCHANGED vars
      <3>1. UNCHANGED <<pc, call, reply, m_access, aborted, m_nodes, data, m_tree, found, passed, published>>
        BY <2>1 DEF vars, callVars, treeVars
      <3>2. Contents' = Contents /\ Present' = Present /\ \A u : Visited(u)' = Visited(u)
        BY <3>1 DEF Contents, Present, Visited
      <3> QED
        BY <3>1, <3>2 DEF IInv, Rest, WorkInv, NothingUncommitted, GetAnswersItsKey, SetInv, DelInv, ForeachInv
    <2>2. ASSUME NEW t \in Threads, Body(t) PROVE Rest'
      <3>1. get(t) \/ set(t) \/ del(t) \/ foreach(t)
        BY <2>2 DEF Body
      <3> QED
        BY <2>2, <3>1, GetWork, WriteWork
    <2> QED
      BY <2>1, <2>2, AroundWork DEF Next, Step
  <1> QED
    BY <1>1, <1>2, PTL DEF Spec

\* A value is answered for the key it was set under (avltree.cpp:28-39).
THEOREM AnswersItsKey == ASSUME DistinctHashes PROVE Spec => []GetAnswersItsKey
  <1>1. IInv => GetAnswersItsKey
    BY DEF IInv
  <1> QED
    BY <1>1, TreeMapInvariance, PTL

----------------------------------------------------------------------------
(* Refinement: every step is a step of KeyValueStore or leaves it alone.   *)

\* A write section ends with the effect its operation promises.
LEMMA Commits ==
    ASSUME IInv, NEW t \in Threads, pc[t] = "downgrade"
    PROVE  Effected(t, Contents)
  <1>1. TypeOK /\ WorkInv!(t) /\ TreeInv
    BY DEF IInv, WorkInv, TreeInv
  <1>2. Contents \in Table
    BY <1>1, KeyedTree, MapAt DEF Contents
  <1>3. call[t].op = "foreach" => Visited(t) \cap Keys \in SUBSET Present /\ ForeachInv(t)
    BY <1>1 DEF ForeachInv
  <1>4. ASSUME call[t].op = "foreach"
        PROVE  \E done \in SUBSET Present :
                  /\ \A k \in Keys : IF k \in done
                                     THEN Contents[k] \in Values \cap JsResult(call[t].script, k, published[k])
                                     ELSE Contents[k] = published[k]
                  /\ \/ reply[t] = REPLY_TRUE /\ done = Present
                     \/ /\ reply[t] = REPLY_ERROR
                        /\ \E k \in Present \ done : Throw \in JsResult(call[t].script, k, published[k])
    <2> DEFINE done == Visited(t) \cap Keys
    <2>1. \A k \in Keys : k \in done <=> k \in Visited(t)
      OBVIOUS
    <2>2. Present \subseteq Keys /\ done \in SUBSET Present
      BY <1>3, <1>4 DEF Present
    <2> HIDE DEF done
    <2> QED
      BY <1>3, <1>4, <2>1, <2>2 DEF ForeachInv
  <1> QED
    BY <1>1, <1>2, <1>4 DEF Effected, SetInv, DelInv

\* What a step of t inside the tree is to a caller: get takes effect when its
\* answer is fixed, a dying process is seen, the steps of the writers are not.
LEMMA BodyRefines ==
    ASSUME IInv, ~aborted, NEW t \in Threads, Body(t)
    PROVE  [KVS!Next]_(KVS!vars)
  <1>0. /\ CallTypeOK /\ TypeOK /\ TreeInv /\ CallInv /\ WorkInv
        /\ call' = call /\ published' = published
        /\ Inside(t) /\ pc[t] \notin {"unlock", "return"}
    BY Places DEF IInv, TreeInv, TypeOK, Inside, InCriticalSection
  <1>1. \A u \in Threads \ {t} : pc'[u] = pc[u] /\ reply'[u] = reply[u]
    <2> USE <1>0 DEF CallTypeOK, Goto, Answer, Found
    <2>1. CASE get(t) \/ del(t) \/ foreach(t)
      BY <2>1 DEF get, del, foreach, ForeachNode
    <2>2. CASE set(t)
      <3>1. (\E label : pc' = [pc EXCEPT ![t] = label]) /\ (reply' = reply \/ reply' = [reply EXCEPT ![t] = REPLY_OK])
        BY <2>2 DEF set, push_back
      <3> QED
        BY <3>1
    <2> QED
      BY <2>1, <2>2 DEF Body
  <1>2. CASE get(t) /\ UNCHANGED aborted
    <2>0. call[t].op = "get" /\ call[t].key \in Keys /\ Contents = published
      BY <1>0, <1>2, CallFields, Reading DEF get, CallTypeOK, IInv, TreeInv, NothingUncommitted
    <2>1. CASE pc'[t] = "act"
      BY <1>0, <1>1, <1>2, <2>1, InsideHidden
    <2>2. CASE Find(call[t].key) = {} /\ Answer(t, REPLY_NIL, "unlock")
      <3>1. published[call[t].key] = NotFound
        BY <1>0, <2>0, <2>2, FindFinds
      <3> QED
        BY <1>0, <1>2, <2>0, <2>2, <3>1, GetRefines
    <2>3. CASE pc[t] = "act" /\ Answer(t, toReplyString(data[found[t]].value), "unlock")
      <3>1. found[t] \in m_tree /\ data[found[t]].key = call[t].key
        BY <1>0, <2>0, <2>3 DEF TreeInv, IteratorsValid, IteratorValid, WorkInv
      <3>2. Keyed(m_tree, data)
        BY <1>0, KeyedTree
      <3>3. published[call[t].key] = data[found[t]].value /\ data[found[t]].value \in Values
        BY <2>0, <3>1, <3>2, MapAt DEF Contents, Keyed
      <3> QED
        BY <1>0, <1>2, <2>0, <2>3, <3>3, GetRefines, DbAssumption
    <2> QED
      BY <1>0, <1>2, <2>1, <2>2, <2>3 DEF get, Found, Goto, CallTypeOK
  <1>3. CASE (set(t) \/ del(t)) /\ UNCHANGED aborted
    <2>1. pc'[t] \in {"act", "insert", "dispose", "downgrade"}
      BY <1>0, <1>3 DEF set, push_back, del, Found, Goto, Answer, CallTypeOK
    <2> QED
      BY <1>0, <1>1, <1>3, <2>1, InsideHidden
  <1>4. CASE foreach(t)
    <2>1. CASE aborted' = aborted
      <3>1. pc'[t] \in {"act", "downgrade"}
        BY <1>0, <1>4 DEF foreach, ForeachNode, Goto, Answer, CallTypeOK
      <3> QED
        BY <1>0, <1>1, <2>1, <3>1, InsideHidden
    <2>2. CASE aborted' # aborted
      <3> DEFINE n == m_nodes[passed[t] + 1]
      <3>1. /\ passed[t] < Len(m_nodes) /\ Crash \in JsVmCall(t, data[n].key, data[n].value)
            /\ aborted' = TRUE /\ UNCHANGED <<pc, reply>>
            /\ call[t].op = "foreach" /\ pc[t] = "act"
        BY <1>4, <2>2 DEF foreach, ForeachNode
      <3>2. data[n].key \in Present /\ data[n].value = published[data[n].key]
        BY <3>1, NextNode
      <3>3. call[t].script \in Loadable /\ Crash \in JsResult(call[t].script, data[n].key, published[data[n].key])
        BY <1>0, <3>1, <3>2 DEF CallInv, JsVmCall
      <3> QED
        BY <1>0, <3>1, <3>2, <3>3, AbortRefines
    <2> QED
      BY <2>1, <2>2
  <1> QED
    BY <1>2, <1>3, <1>4 DEF Body

\* While no two keys have the same hash, the tree is linearizable: whatever the
\* worker threads do, their calls are answered as if each had happened at one
\* instant on a map (AvlTree::get, set, del and foreach).
THEOREM TreeLinearizable == ASSUME DistinctHashes PROVE Spec => ImplementsKeyValueStore
  <1>1. Init => KVS!Init
    BY InitRefines DEF Init
  <1>2. IInv /\ [Next]_vars => [KVS!Next]_(KVS!vars)
    <2> SUFFICES ASSUME IInv, [Next]_vars PROVE [KVS!Next]_(KVS!vars)
      OBVIOUS
    <2>0. CallTypeOK /\ CallInv
      BY DEF IInv, TreeInv, TypeOK
    <2>1. CASE UNCHANGED vars
      BY <2>1 DEF vars, callVars, KVS!vars, AbsReply
    <2>2. ASSUME ~aborted, NEW t \in Threads, Step(t) PROVE [KVS!Next]_(KVS!vars)
      <3>1. CASE LockStep(t) /\ Downgrade(t)
        <4>1. pc[t] = "downgrade" /\ published' = Contents
          BY <3>1 DEF LockStep, Downgrade
        <4> QED
          BY <2>0, <2>2, <3>1, <4>1, Commits, DowngradeRefines
      <3>2. CASE LockStep(t) /\ ~Downgrade(t)
        <4>1. LockCall(t) /\ published' = published
          BY <3>2 DEF LockStep, LockCall, JsVmInit, Lock, Upgrade, Unlock, Return
        <4> QED
          BY <2>0, <2>2, <3>2, <4>1, AroundRefines
      <3> QED
        BY <2>2, <3>1, <3>2, BodyRefines DEF Step
    <2>3. ASSUME ~aborted, NEW t \in Threads, Enter(t), UNCHANGED published
          PROVE  [KVS!Next]_(KVS!vars)
      BY <2>0, <2>3, EnterRefines
    <2> QED
      BY <2>1, <2>2, <2>3 DEF Next
  <1> QED
    BY <1>1, <1>2, TreeMapInvariance, PTL DEF Spec, KVS!Spec, ImplementsKeyValueStore

============================================================================
