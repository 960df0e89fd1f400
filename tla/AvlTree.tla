------------------------------ MODULE AvlTree ------------------------------
(***************************************************************************)
(* Db::AvlTree: the nodes live in a std::list, in the order they were set; *)
(* a boost::intrusive tree, ordered by the hash of their keys, finds them. *)
(* get, set and del go through the tree, foreach walks the list, and the   *)
(* two are kept in step by hand.  The body of each operation is split      *)
(* between every two accesses of the list and the tree.                    *)
(***************************************************************************)
EXTENDS DbInterface, SequencesExt

CONSTANTS NodeIds,    \* the addresses a list node may have
          NoNode,     \* end()
          Hash        \* m_keyHashFunction

ASSUME NodeAssumption ==
    /\ NoNode \notin NodeIds
    /\ DOMAIN Hash = Keys

VARIABLES m_nodes,  \* the list
          data,     \* Node::Data of the nodes in the list
          m_tree,   \* the nodes linked into the tree
          found,    \* each thread's iterator into the tree, or its new node
          passed    \* how many nodes each thread's foreach loop has passed

treeVars == <<m_nodes, data, m_tree>>
vars == <<callVars, treeVars, found, passed, published>>

\* The map that a tree of nodes stands for, read through the keys stored in them.
MapOf(nodes, d) ==
    [k \in Keys |-> IF \E n \in nodes : d[n].key = k
                    THEN d[CHOOSE n \in nodes : d[n].key = k].value
                    ELSE NotFound]

Contents == MapOf(m_tree, data)

TypeOK ==
    /\ CallTypeOK
    /\ m_nodes \in Seq(NodeIds)
    /\ DOMAIN data = ToSet(m_nodes)
    /\ \A n \in DOMAIN data : data[n] \in [key : Keys, value : Values]
    /\ m_tree \subseteq ToSet(m_nodes)
    /\ found \in [Threads -> NodeIds \cup {NoNode}]
    /\ passed \in [Threads -> Nat]
    /\ published \in Table

Init ==
    /\ CallInit
    /\ m_nodes = <<>>
    /\ data = <<>>
    /\ m_tree = {}
    /\ found = [t \in Threads |-> NoNode]
    /\ passed = [t \in Threads |-> 0]
    /\ published = [k \in Keys |-> NotFound]

----------------------------------------------------------------------------
\* operator<: nodes are compared by internalKey, the hash of their key
internalKey(n) == Hash[data[n].key]

\* Mutant: lower_bound instead of find.
FindMutantLowerBound(k) == {n \in m_tree : internalKey(n) >= Hash[k]}

\* m_tree->find(Node(key))
Find(k) == {n \in m_tree : internalKey(n) = Hash[k]}

\* Remember the iterator (or the new node) n and go on.
Found(t, n, label) ==
    /\ found' = [found EXCEPT ![t] = n]
    /\ Goto(t, label)
    /\ UNCHANGED reply

get(t) ==
    /\ call[t].op = "get"
    /\ \/ /\ pc[t] = "find"
          /\ Find(call[t].key) = {}
          /\ Answer(t, REPLY_NIL, "unlock")
          /\ UNCHANGED found
       \/ /\ pc[t] = "find"
          /\ \E n \in Find(call[t].key) : Found(t, n, "act")
       \/ /\ pc[t] = "act"
          /\ Answer(t, toReplyString(data[found[t]].value), "unlock")
          /\ UNCHANGED found
    /\ UNCHANGED treeVars

\* Mutant: the node is made of the key alone, as the one that find is given.
push_backMutantKeyOnly(t, n) ==
    /\ m_nodes' = Append(m_nodes, n)
    /\ data' = [m \in DOMAIN data \cup {n} |->
                   IF m = n THEN [key |-> call[t].key, value |-> EmptyValue] ELSE data[m]]
    /\ Found(t, n, "insert")

\* m_nodes.push_back(Node(Node::Data(key, value)))
push_back(t, n) ==
    /\ m_nodes' = Append(m_nodes, n)
    /\ data' = [m \in DOMAIN data \cup {n} |->
                   IF m = n THEN [key |-> call[t].key, value |-> call[t].value] ELSE data[m]]
    /\ Found(t, n, "insert")

set(t) ==
    /\ call[t].op = "set"
    /\ \/ /\ pc[t] = "find"
          /\ \E n \in Find(call[t].key) : Found(t, n, "act")
          /\ UNCHANGED treeVars
       \/ /\ pc[t] = "find"
          /\ Find(call[t].key) = {}
          /\ \E n \in NodeIds \ ToSet(m_nodes) : push_back(t, n)
          /\ UNCHANGED m_tree
       \/ /\ pc[t] = "act"
          /\ data' = [data EXCEPT ![found[t]].value = call[t].value]
          /\ Answer(t, REPLY_OK, "downgrade")
          /\ UNCHANGED <<m_nodes, m_tree, found>>
       \/ /\ pc[t] = "insert"   \* m_tree->insert_unique(m_nodes.back())
          /\ m_tree' = IF Find(data[Last(m_nodes)].key) = {} THEN m_tree \cup {Last(m_nodes)}
                                                             ELSE m_tree
          /\ Answer(t, REPLY_OK, "downgrade")
          /\ UNCHANGED <<m_nodes, data, found>>

\* Mutant: the node is unlinked from the tree and stays in the list.
DeleteDisposerMutantLeaks(n) == UNCHANGED <<m_nodes, data>>

\* DeleteDisposer: m_nodes.erase(deleteMe->get().listIterator)
DeleteDisposer(n) ==
    /\ \E i \in DOMAIN m_nodes : m_nodes[i] = n /\ m_nodes' = RemoveAt(m_nodes, i)
    /\ data' = [m \in DOMAIN data \ {n} |-> data[m]]

del(t) ==
    /\ call[t].op = "del"
    /\ \/ /\ pc[t] = "find"
          /\ Find(call[t].key) = {}
          /\ Answer(t, REPLY_FALSE, "downgrade")
          /\ UNCHANGED <<treeVars, found>>
       \/ /\ pc[t] = "find"
          /\ \E n \in Find(call[t].key) : Found(t, n, "act")
          /\ UNCHANGED treeVars
       \/ /\ pc[t] = "act"      \* erase_and_dispose: unlink, then dispose
          /\ m_tree' = m_tree \ {found[t]}
          /\ Goto(t, "dispose")
          /\ UNCHANGED <<m_nodes, data, found, reply>>
       \/ /\ pc[t] = "dispose"
          /\ DeleteDisposer(found[t])
          /\ Answer(t, REPLY_TRUE, "downgrade")
          /\ UNCHANGED <<m_tree, found>>

\* Mutant: a function that throws does not end the loop.
ForeachNodeMutantGoesOn(t, n) ==
    \/ \E v \in Values \cap JsVmCall(t, data[n].key, data[n].value) :
          /\ data' = [data EXCEPT ![n].value = v]
          /\ passed' = [passed EXCEPT ![t] = @ + 1]
          /\ UNCHANGED <<pc, reply, aborted>>
    \/ /\ Throw \in JsVmCall(t, data[n].key, data[n].value)
       /\ passed' = [passed EXCEPT ![t] = @ + 1]
       /\ UNCHANGED <<pc, reply, data, aborted>>
    \/ /\ Crash \in JsVmCall(t, data[n].key, data[n].value)
       /\ aborted' = TRUE
       /\ UNCHANGED <<pc, reply, data, passed>>

\* foreach: one iteration of the loop over the list
ForeachNode(t, n) ==
    \/ \E v \in Values \cap JsVmCall(t, data[n].key, data[n].value) :
          /\ data' = [data EXCEPT ![n].value = v]
          /\ passed' = [passed EXCEPT ![t] = @ + 1]
          /\ UNCHANGED <<pc, reply, aborted>>
    \/ /\ Throw \in JsVmCall(t, data[n].key, data[n].value)
       /\ Answer(t, REPLY_ERROR, "downgrade")
       /\ UNCHANGED <<data, passed, aborted>>
    \/ /\ Crash \in JsVmCall(t, data[n].key, data[n].value)
       /\ aborted' = TRUE
       /\ UNCHANGED <<pc, reply, data, passed>>

foreach(t) ==
    /\ call[t].op = "foreach"
    /\ pc[t] = "act"
    /\ \/ /\ passed[t] < Len(m_nodes)
          /\ ForeachNode(t, m_nodes[passed[t] + 1])
       \/ /\ passed[t] = Len(m_nodes)
          /\ Answer(t, REPLY_TRUE, "downgrade")
          /\ UNCHANGED <<data, passed, aborted>>
    /\ UNCHANGED <<m_nodes, m_tree, found>>

Body(t) ==
    /\ \/ (get(t) \/ set(t) \/ del(t)) /\ UNCHANGED <<passed, aborted>>
       \/ foreach(t)
    /\ UNCHANGED <<call, m_access, published>>

\* The steps around the body.  A write section ends when its exclusive lock is
\* given back; the iterators of a call die with it.
LockStep(t) ==
    /\ LockCall(t)
    /\ published' = IF pc[t] = "downgrade" THEN Contents ELSE published
    /\ passed' = IF pc[t] = "return" THEN [passed EXCEPT ![t] = 0] ELSE passed
    /\ found' = IF pc[t] = "return" THEN [found EXCEPT ![t] = NoNode] ELSE found
    /\ UNCHANGED treeVars

Step(t) == LockStep(t) \/ Body(t)

Next ==
    \/ /\ ~aborted
       /\ \E t \in Threads :
             \/ Step(t)
             \/ Enter(t) /\ UNCHANGED <<treeVars, found, passed, published>>
    \/ aborted /\ UNCHANGED vars

Spec == Init /\ [][Next]_vars

----------------------------------------------------------------------------
\* The list and the tree hold the same nodes, each once, unless a thread is
\* between the two updates of set (avltree.cpp:54-57) or of del's
\* erase_and_dispose (avltree.cpp:73, avltree.h:116-119).
ListTreeAgree ==
    /\ \A i, j \in 1..Len(m_nodes) : i # j => m_nodes[i] # m_nodes[j]
    /\ \A n, m \in ToSet(m_nodes) : n # m => internalKey(n) # internalKey(m)
    /\ \/ m_tree = ToSet(m_nodes)
       \/ \E t \in Threads :
             /\ m_access.exclusive = t
             /\ pc[t] \in {"insert", "dispose"}
             /\ m_tree = ToSet(m_nodes) \ {found[t]}

\* An iterator found by a thread is still good when the thread dereferences it,
\* unlinks it or erases it (avltree.cpp:38, 50, 73), m_nodes.back() is still the
\* node that was pushed (avltree.cpp:57), and a loop begins at the beginning.
IteratorValid(t) ==
    /\ call[t].op \in {"get", "set", "del"} /\ pc[t] = "act" => found[t] \in m_tree
    /\ pc[t] \in {"insert", "dispose"} => found[t] \in ToSet(m_nodes) \ m_tree
    /\ pc[t] = "insert" => call[t].op = "set" /\ found[t] = Last(m_nodes)
    /\ pc[t] = "dispose" => call[t].op = "del"
    /\ pc[t] \in {"idle", "init", "lock", "upgrade"} => passed[t] = 0

IteratorsValid == \A t \in Threads : IteratorValid(t)

\* The two structures and the iterators into them, with who holds the mutex.
TreeInv == TypeOK /\ CallInv /\ LockInv /\ ListTreeAgree /\ IteratorsValid

\* A value is answered for the key it was set under.
GetAnswersItsKey ==
    \A t \in Threads :
       call[t].op = "get" /\ pc[t] = "unlock" /\ reply[t] # REPLY_NIL =>
          data[found[t]].key = call[t].key

----------------------------------------------------------------------------
(* The tree as a map, while no two keys have the same hash: how far it may *)
(* be from the published one, for each place in each operation.            *)

DistinctHashes == \A j, k \in Keys : Hash[j] = Hash[k] => j = k

\* The keys that the foreach loop of t has passed.
Visited(t) == {data[m_nodes[i]].key : i \in 1..passed[t]}

SetInv(t) ==
    LET k == call[t].key
    IN  /\ pc[t] = "act" => Contents = published /\ data[found[t]].key = k
        /\ pc[t] = "insert" =>
              /\ Contents = published
              /\ data[found[t]] = [key |-> k, value |-> call[t].value]
        /\ pc[t] = "downgrade" =>
              /\ Contents = [published EXCEPT ![k] = call[t].value]
              /\ reply[t] = REPLY_OK

DelInv(t) ==
    LET k == call[t].key
    IN  /\ pc[t] = "act" => Contents = published /\ data[found[t]].key = k
        /\ pc[t] = "dispose" => Contents = [published EXCEPT ![k] = NotFound] /\ k \in Present
        /\ pc[t] = "downgrade" =>
              /\ Contents = [published EXCEPT ![k] = NotFound]
              /\ reply[t] = IF k \in Present THEN REPLY_TRUE ELSE REPLY_FALSE

ForeachInv(t) ==
    pc[t] \in {"act", "downgrade"} =>
       /\ passed[t] <= Len(m_nodes)
       /\ \A k \in Keys :
             IF k \in Visited(t)
             THEN k \in Present /\ Contents[k] \in Values \cap JsResult(call[t].script, k, published[k])
             ELSE Contents[k] = published[k]
       /\ pc[t] = "downgrade" =>
             \/ reply[t] = REPLY_TRUE /\ Present \subseteq Visited(t)
             \/ /\ reply[t] = REPLY_ERROR
                /\ \E k \in Present \ Visited(t) :
                      Throw \in JsResult(call[t].script, k, published[k])

WorkInv ==
    \A t \in Threads :
       /\ pc[t] = "find" => Contents = published
       /\ call[t].op = "get" /\ pc[t] = "act" => data[found[t]].key = call[t].key
       /\ call[t].op = "set" => SetInv(t)
       /\ call[t].op = "del" => DelInv(t)
       /\ call[t].op = "foreach" => ForeachInv(t)

\* With nobody in a write section the tree is the published map.
NothingUncommitted == m_access.exclusive = NoThread => Contents = published

IInv == TreeInv /\ WorkInv /\ NothingUncommitted /\ GetAnswersItsKey

\* While no two keys have the same hash, get, set, del and foreach are
\* linearizable: the tree is the same map a hash table is.
ImplementsKeyValueStore == KVS!Spec

============================================================================
