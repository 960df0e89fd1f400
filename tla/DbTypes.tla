------------------------------ MODULE DbTypes ------------------------------
(***************************************************************************)
(* What the databases and their clients agree on: keys, values, the calls  *)
(* a command makes on a database, the replies they produce, and what one   *)
(* call of a user-supplied JavaScript function can do (v8 is external).    *)
(***************************************************************************)
CONSTANTS Keys, Values,
          EmptyValue,      \* std::string(), the value operator[] inserts
          NotFound,        \* marks a key that is not in the table
          Scripts,         \* the JavaScript sources given to HFOR / ATFOR
          Loadable,        \* those that compile, and whose evaluation succeeds
          Fatal,           \* those whose evaluation kills the process
          JsResult(_,_,_), \* what calling a script on a key and a value may give
          Throw,           \* the function threw
          Crash            \* its result, or what it logged, has no string form

ASSUME DbAssumption ==
    /\ EmptyValue \in Values
    /\ NotFound \notin Values
    /\ Throw \notin Values
    /\ Crash \notin Values
    /\ Throw # Crash
    /\ Loadable \subseteq Scripts
    /\ Fatal \subseteq Scripts \ Loadable
    /\ \A s \in Scripts, k \in Keys, v \in Values :
          JsResult(s, k, v) \subseteq Values \cup {Throw, Crash}

\* The bytes of a reply, up to their wording.
REPLY_FALSE == <<"false">>
REPLY_TRUE  == <<"true">>
REPLY_NIL   == <<"nil">>
REPLY_OK    == <<"ok">>
REPLY_ERROR == <<"error">>
toReplyString(v) == <<"bulk", v>>

Replies == {REPLY_FALSE, REPLY_TRUE, REPLY_NIL, REPLY_OK, REPLY_ERROR}
              \cup {toReplyString(v) : v \in Values}
NoReply == <<"none">>

Requests == [op : {"get", "del"}, key : Keys]
       \cup [op : {"set"}, key : Keys, value : Values]
       \cup [op : {"foreach"}, script : Scripts]
NoCall == [op |-> "none"]

============================================================================
