--------------------------- MODULE KeyValueStore ---------------------------
(***************************************************************************)
(* What a Db::Interface promises its callers: every call takes effect at   *)
(* one instant between its start and its return, on a map from keys to     *)
(* values.  A foreach that meets a throwing function stops, and the        *)
(* elements it had already replaced stay replaced.                         *)
(***************************************************************************)
EXTENDS DbTypes

CONSTANT Threads

VARIABLES store,   \* the map
          call,    \* the call each thread is in
          reply,   \* its reply, once the call has taken effect
          aborted  \* the process has died

vars == <<store, call, reply, aborted>>

Init ==
    /\ store = [k \in Keys |-> NotFound]
    /\ call = [t \in Threads |-> NoCall]
    /\ reply = [t \in Threads |-> NoReply]
    /\ aborted = FALSE

Invoke(t) ==
    /\ call[t] = NoCall
    /\ \E r \in Requests : call' = [call EXCEPT ![t] = r]
    /\ UNCHANGED <<store, reply, aborted>>

\* The call of t takes effect: the map becomes s, the caller will get r.
Effect(t, s, r) ==
    /\ reply[t] = NoReply
    /\ store' = s
    /\ reply' = [reply EXCEPT ![t] = r]
    /\ UNCHANGED <<call, aborted>>

Get(t) ==
    /\ call[t].op = "get"
    /\ LET v == store[call[t].key]
       IN  Effect(t, store, IF v = NotFound THEN REPLY_NIL ELSE toReplyString(v))

Set(t) ==
    /\ call[t].op = "set"
    /\ Effect(t, [store EXCEPT ![call[t].key] = call[t].value], REPLY_OK)

Del(t) ==
    /\ call[t].op = "del"
    /\ Effect(t, [store EXCEPT ![call[t].key] = NotFound],
              IF store[call[t].key] = NotFound THEN REPLY_FALSE ELSE REPLY_TRUE)

\* s is the map after the script was applied once to each key of done.
Applied(script, done, s) ==
    /\ s \in [Keys -> Values \cup {NotFound}]
    /\ \A k \in Keys :
          IF k \in done THEN s[k] \in Values \cap JsResult(script, k, store[k])
                        ELSE s[k] = store[k]

Foreach(t) ==
    /\ call[t].op = "foreach"
    /\ LET script  == call[t].script
           present == {k \in Keys : store[k] # NotFound}
       IN  \/ /\ script \notin Loadable \cup Fatal
              /\ Effect(t, store, REPLY_ERROR)
           \/ /\ script \in Loadable
              /\ \E s \in [Keys -> Values \cup {NotFound}] :
                    /\ Applied(script, present, s)
                    /\ Effect(t, s, REPLY_TRUE)
           \/ /\ script \in Loadable
              /\ \E done \in SUBSET present : \E k \in present \ done :
                    /\ Throw \in JsResult(script, k, store[k])
                    /\ \E s \in [Keys -> Values \cup {NotFound}] :
                          /\ Applied(script, done, s)
                          /\ Effect(t, s, REPLY_ERROR)

Respond(t) ==
    /\ reply[t] # NoReply
    /\ call' = [call EXCEPT ![t] = NoCall]
    /\ reply' = [reply EXCEPT ![t] = NoReply]
    /\ UNCHANGED <<store, aborted>>

\* A foreach whose script logs, or whose function returns, something with no
\* string form kills the process (a null pointer is made into a std::string).
Abort(t) ==
    /\ call[t].op = "foreach"
    /\ reply[t] = NoReply
    /\ \/ call[t].script \in Fatal
       \/ /\ call[t].script \in Loadable
          /\ \E k \in Keys :
                /\ store[k] # NotFound
                /\ Crash \in JsResult(call[t].script, k, store[k])
    /\ aborted' = TRUE
    /\ UNCHANGED <<store, call, reply>>

Next ==
    /\ ~aborted
    /\ \E t \in Threads :
          Invoke(t) \/ Get(t) \/ Set(t) \/ Del(t) \/ Foreach(t) \/ Respond(t) \/ Abort(t)

Spec == Init /\ [][Next]_vars

============================================================================
