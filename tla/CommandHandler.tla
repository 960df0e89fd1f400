--------------------------- MODULE CommandHandler ---------------------------
(***************************************************************************)
(* CommandHandler: turns the bytes one connection delivers, in reads of    *)
(* any size, into commands.  A request is inline (a line of words) or a    *)
(* multi-bulk one (a count, then that many arguments, each with a length). *)
(* What does not fit in one read is kept in m_commandString and parsed     *)
(* further when feedAndParseCommand is called again.                       *)
(*                                                                         *)
(* One call of feedAndParseCommand is several steps here:                  *)
(*   read -> command -> [arguments ->]* execute -> read                    *)
(* with a way back to "read" wherever the code asks for more data.         *)
(***************************************************************************)
EXTENDS Integers, SequencesExt

CONSTANTS Clients,           \* kinds of clients
          Whole,             \* those that send whole requests
          Requests,          \* what each may send: wire bytes, the commands they
                             \* stand for, and where its lines begin and end
          ReadSizes,         \* how much one async_read_some delivers, at most
          MAX_BUFFER_LENGTH, \* of Session
          INT_MAX,           \* of int
          MaxReserve,        \* vectors up to this size can always be allocated
          MaxBuffered        \* bound: bytes buffered when a request is sent

LF == 10
CR == 13
SP == 32
DOLLAR == 36
STAR == 42
ZERO == 48
Char == -128..127

ASSUME ParserAssumption ==
    /\ \A c \in Clients : \A r \in Requests[c] : r.wire \in Seq(Char)
    /\ MAX_BUFFER_LENGTH \in Nat \ {0}
    /\ \A c \in Clients : ReadSizes[c] \subseteq 1..MAX_BUFFER_LENGTH
    /\ INT_MAX \in Nat
    /\ INT_MAX >= 127
    /\ MaxReserve \in Nat

VARIABLES pc,                      \* where feedAndParseCommand is
          m_type,
          m_commandString,         \* bytes fed and not reset yet
          m_commandOffset,         \* how many of them are parsed
          m_numberOfArguments,
          m_numberOfArgumentsLeft,
          m_lastArgumentLength,
          m_commandArguments,
          client,                  \* who is connected
          input,                   \* bytes sent by the client and not read
          request,                 \* the request they belong to
          executed                 \* the commands executed since it was sent

parser == <<m_type, m_commandString, m_commandOffset, m_numberOfArguments,
            m_numberOfArgumentsLeft, m_lastArgumentLength, m_commandArguments>>
vars == <<pc, parser, client, input, request, executed>>

CInt == (-INT_MAX - 1)..INT_MAX

TypeOK ==
    /\ pc \in {"read", "command", "arguments", "execute", "aborted"}
    /\ m_type \in {"NOT_SET", "INLINE", "MULTI_BULK"}
    /\ m_commandString \in Seq(Char)
    /\ m_commandOffset \in Nat
    /\ m_numberOfArguments \in CInt
    /\ m_numberOfArgumentsLeft \in CInt
    /\ m_lastArgumentLength \in CInt
    /\ m_commandArguments \in Seq(Seq(Char))
    /\ client \in Clients
    /\ input \in Seq(Char)
    /\ executed \in Seq(Seq(Seq(Char)))

\* Mutant: the offset survives a reset.
resetMutantKeepsOffset ==
    /\ m_type' = "NOT_SET"
    /\ m_commandString' = <<>>
    /\ m_numberOfArguments' = -1
    /\ m_numberOfArgumentsLeft' = -1
    /\ m_lastArgumentLength' = -1
    /\ m_commandArguments' = <<>>
    /\ pc' = "read"
    /\ UNCHANGED m_commandOffset

\* reset(), and back to the caller, who reads on
reset ==
    /\ m_type' = "NOT_SET"
    /\ m_commandString' = <<>>
    /\ m_commandOffset' = 0
    /\ m_numberOfArguments' = -1
    /\ m_numberOfArgumentsLeft' = -1
    /\ m_lastArgumentLength' = -1
    /\ m_commandArguments' = <<>>
    /\ pc' = "read"

NoRequest == [wire |-> <<>>, commands |-> <<>>]

Init ==
    /\ pc = "read"
    /\ m_type = "NOT_SET"
    /\ m_commandString = <<>>
    /\ m_commandOffset = 0
    /\ m_numberOfArguments = -1
    /\ m_numberOfArgumentsLeft = -1
    /\ m_lastArgumentLength = -1
    /\ m_commandArguments = <<>>
    /\ client \in Clients
    /\ input = <<>>
    /\ request = NoRequest
    /\ executed = <<>>

----------------------------------------------------------------------------
(* Pointers into m_commandString are positions in it, counted from 1.      *)

\* memchr(from, ch, end - from): nothing, or the first position of ch
memchr(from, ch) ==
    {i \in from..Len(m_commandString) :
        m_commandString[i] = ch /\ \A j \in from..(i - 1) : m_commandString[j] # ch}

\* The int that computing n gives: two's complement, of the width of INT_MAX.
Wrap(n) == ((n + INT_MAX + 1) % (2 * (INT_MAX + 1))) - INT_MAX - 1

\* toInt: whatever stands before the first CR counts as digits
toInt(begin, end) ==
    LET cr == CHOOSE i \in memchr(begin, CR) : TRUE
        num[i \in (begin - 1)..(cr - 1)] ==
            IF i < begin THEN 0 ELSE Wrap(num[i - 1] * 10 + (m_commandString[i] - ZERO))
    IN  IF m_commandString[end - 1] # CR THEN -1 ELSE num[cr - 1]

\* split(begin, end): the words between delimiters; a delimiter right at the
\* beginning, or nothing at all, gives an empty first word
split(begin, end, delimiter) ==
    LET starts   == {begin} \cup {i \in (begin + 1)..(end - 1) :
                                     /\ m_commandString[i] # delimiter
                                     /\ m_commandString[i - 1] = delimiter}
        found(i) == Min({j \in i..(end - 1) : m_commandString[j] = delimiter} \cup {end})
        start[n \in 1..Cardinality(starts)] ==
            IF n = 1 THEN begin ELSE Min({i \in starts : i > start[n - 1]} \cup {end})
    IN  [n \in 1..Cardinality(starts) |-> SubSeq(m_commandString, start[n], found(start[n]) - 1)]

\* Mutant: every call parses from the beginning.
CursorMutantFromStart == 1

\* where parsing goes on
Cursor == m_commandOffset + 1

\* feedAndParseCommand: append what a read of at most size bytes gave
feed(size) ==
    /\ pc = "read"
    /\ input # <<>>
    /\ LET n == IF size <= Len(input) THEN size ELSE Len(input)
       IN  /\ m_commandString' = m_commandString \o SubSeq(input, 1, n)
           /\ input' = SubSeq(input, n + 1, Len(input))
    /\ pc' = IF m_numberOfArguments < 0 THEN "command" ELSE "arguments"
    /\ UNCHANGED <<m_type, m_commandOffset, m_numberOfArguments, m_numberOfArgumentsLeft,
                   m_lastArgumentLength, m_commandArguments, client, request, executed>>

\* parseInline, and the reset() that follows when it fails.  The byte before an
\* LF that is the first byte of the buffer is not a CR: it belongs to the
\* string's size or to the allocator.
parseInline ==
    /\ pc = "command"
    /\ m_commandString[Cursor] # STAR
    /\ \/ /\ memchr(Cursor, LF) = {}
          /\ reset
       \/ \E lf \in memchr(Cursor, LF) :
             LET end       == IF lf > Cursor /\ m_commandString[lf - 1] = CR THEN lf - 1 ELSE lf
                 arguments == split(Cursor, end, SP)
             IN  \/ /\ arguments = <<>> \/ arguments[1] = <<>>
                    /\ reset
                 \/ /\ arguments # <<>> /\ arguments[1] # <<>>
                    /\ m_type' = "INLINE"
                    /\ m_commandOffset' = m_commandOffset + (lf - Cursor)
                    /\ m_commandArguments' = arguments
                    /\ pc' = "execute"
                    /\ UNCHANGED <<m_commandString, m_numberOfArguments,
                                   m_numberOfArgumentsLeft, m_lastArgumentLength>>
    /\ UNCHANGED <<client, input, request, executed>>

\* The process is gone: an exception left the worker thread, or a wild read.
Die ==
    /\ pc' = "aborted"
    /\ UNCHANGED parser

\* parseNumberOfArguments; reserve() of a count nobody can allocate throws
parseNumberOfArguments ==
    /\ pc = "command"
    /\ m_commandString[Cursor] = STAR
    /\ \/ /\ memchr(Cursor, LF) = {}
          /\ m_type' = "MULTI_BULK"
          /\ pc' = "read"
          /\ UNCHANGED <<m_commandString, m_commandOffset, m_numberOfArguments,
                         m_numberOfArgumentsLeft, m_lastArgumentLength, m_commandArguments>>
       \/ \E lf \in memchr(Cursor, LF) : \E num \in {toInt(Cursor + 1, lf)} :
             \/ num <= 0 /\ reset
             \/ num > MaxReserve /\ Die
             \/ /\ num > 0
                /\ m_type' = "MULTI_BULK"
                /\ m_numberOfArguments' = num
                /\ m_numberOfArgumentsLeft' = num
                /\ m_commandOffset' = m_commandOffset + (lf + 1 - Cursor)
                /\ pc' = "arguments"
                /\ UNCHANGED <<m_commandString, m_lastArgumentLength, m_commandArguments>>
    /\ UNCHANGED <<client, input, request, executed>>

\* Mutant: an argument that has not arrived in full is taken for a malformed one.
NeedMoreMutantDrops(length) == reset

\* Leave parseArguments for more data, with the length it is waiting for.
NeedMore(length) ==
    /\ m_lastArgumentLength' = length
    /\ pc' = "read"
    /\ UNCHANGED <<m_type, m_commandString, m_commandOffset, m_numberOfArguments,
                   m_numberOfArgumentsLeft, m_commandArguments>>

\* "\r\n" at position i
CrLfAt(i) == m_commandString[i] = CR /\ m_commandString[i + 1] = LF

\* Mutant: the CRLF after an argument is not skipped.
SaveArgumentMutantNoCrLf(lf, length) ==
    /\ m_commandArguments' =
          Append(m_commandArguments, SubSeq(m_commandString, lf + 1, lf + length))
    /\ m_numberOfArgumentsLeft' = m_numberOfArgumentsLeft - 1
    /\ m_commandOffset' = lf + length
    /\ m_lastArgumentLength' = -1
    /\ UNCHANGED <<pc, m_type, m_commandString, m_numberOfArguments>>

\* push_back the argument, go on behind its CRLF
SaveArgument(lf, length) ==
    /\ m_commandArguments' =
          Append(m_commandArguments, SubSeq(m_commandString, lf + 1, lf + length))
    /\ m_numberOfArgumentsLeft' = m_numberOfArgumentsLeft - 1
    /\ m_commandOffset' = lf + length + 2
    /\ m_lastArgumentLength' = -1
    /\ UNCHANGED <<pc, m_type, m_commandString, m_numberOfArguments>>

\* The argument whose length line ends at lf.  length + 2 may overflow an int:
\* then the comparison is false and the check of the CRLF reads far away, or,
\* computed wider, it is true.
ReadArgument(lf, length) ==
    \/ length <= 0 /\ reset
    \/ length > 0 /\ length + 2 > Len(m_commandString) - lf /\ NeedMore(length)
    \/ length + 2 > INT_MAX /\ (reset \/ Die)
    \/ /\ length > 0
       /\ length + 2 <= Len(m_commandString) - lf
       /\ IF CrLfAt(lf + length + 1) THEN SaveArgument(lf, length) ELSE reset

\* parseArguments: one iteration of its loop, or its end
parseArguments ==
    /\ pc = "arguments"
    /\ \/ /\ m_numberOfArgumentsLeft = 0
          /\ pc' = "execute"
          /\ UNCHANGED parser
       \/ /\ m_numberOfArgumentsLeft # 0
          /\ memchr(Cursor, LF) = {}
          /\ NeedMore(m_lastArgumentLength)
       \/ /\ m_numberOfArgumentsLeft # 0
          /\ \E lf \in memchr(Cursor, LF) :
                \/ m_commandString[Cursor] # DOLLAR /\ reset
                \/ /\ m_commandString[Cursor] = DOLLAR
                   /\ \E length \in {toInt(Cursor + 1, lf)} : ReadArgument(lf, length)
    /\ UNCHANGED <<client, input, request, executed>>

\* executeCommand: run the command, hand its reply to the finish callback, reset
executeCommand ==
    /\ pc = "execute"
    /\ executed' = Append(executed, m_commandArguments)
    /\ reset
    /\ UNCHANGED <<client, input, request>>

----------------------------------------------------------------------------
\* The client sends its next request once all it sent before has been read.
Send ==
    /\ pc = "read"
    /\ input = <<>>
    /\ Len(m_commandString) <= MaxBuffered
    /\ \E r \in Requests[client] :
          /\ request' = r
          /\ input' = r.wire
    /\ executed' = <<>>
    /\ UNCHANGED <<pc, parser, client>>

\* The read fails: Session::handleRead deletes the session; the next connection,
\* of this client or another, has a new handler.
Disconnect ==
    /\ pc = "read"
    /\ reset
    /\ client' \in Clients
    /\ input' = <<>>
    /\ request' = NoRequest
    /\ executed' = <<>>

Parse == parseInline \/ parseNumberOfArguments \/ parseArguments \/ executeCommand

Next ==
    \/ \E size \in ReadSizes[client] : feed(size)
    \/ Parse
    \/ Send
    \/ Disconnect
    \/ pc = "aborted" /\ UNCHANGED vars

Spec == Init /\ [][Next]_vars

----------------------------------------------------------------------------
CountersAgree ==
    /\ m_commandOffset <= Len(m_commandString)
    /\ m_numberOfArguments # 0
    /\ m_numberOfArguments < 0 =>
          /\ m_numberOfArguments = -1
          /\ m_numberOfArgumentsLeft = -1
          /\ pc \in {"read", "command"} => m_commandOffset = 0 /\ m_commandArguments = <<>>
          /\ pc # "arguments"
    /\ m_numberOfArguments > 0 =>
          /\ m_type = "MULTI_BULK"
          /\ m_numberOfArgumentsLeft >= 0
          /\ m_numberOfArguments = Len(m_commandArguments) + m_numberOfArgumentsLeft
          /\ m_commandOffset > 0
          /\ \A i \in 1..Len(m_commandArguments) : m_commandArguments[i] # <<>>
          /\ pc # "command"
          /\ pc = "read" => m_numberOfArgumentsLeft > 0
    /\ pc \in {"command", "arguments"} => m_commandString # <<>>
    /\ pc = "execute" =>
          /\ m_commandArguments # <<>>
          /\ m_commandArguments[1] # <<>>
          /\ m_type = "MULTI_BULK" => m_numberOfArgumentsLeft = 0

\* The counters agree with each other and with the buffer whatever the client
\* sends: the offset stays inside the buffer, no argument is lost or counted
\* twice, and a command that is executed has a name (commandhandler.cpp:189).
ParserInv == TypeOK /\ CountersAgree

\* A client that sends well-formed requests has each of them executed once, with
\* the arguments it sent, and nothing else is executed, however the bytes were
\* cut into reads; a malformed request executes nothing, and the next request is
\* understood again.  The clients of the passing run take an empty argument ($0)
\* for malformed, as the code does.
ExecutesWhatWasSent ==
    client \in Whole =>
       /\ IsPrefix(executed, request.commands)
       /\ pc = "read" /\ input = <<>> => executed = request.commands /\ m_commandString = <<>>

\* "Return true if need it is not the end of command, and need to feed more
\* data" (commandhandler.h:91-94): in the middle of a request, what was fed of it
\* is still there for the next call to complete.
FedBytesKept ==
    client \in Whole /\ pc = "read" /\ input # <<>> => m_commandString \o input = request.wire

----------------------------------------------------------------------------
(* Multi-bulk requests, as the protocol has them (commandhandler.h:19-40). *)

\* The number that the digits from..to of w stand for.
Decimal(w, from, to) ==
    LET value[i \in (from - 1)..to] ==
            IF i < from THEN 0 ELSE value[i - 1] * 10 + (w[i] - ZERO)
    IN  value[to]

\* A line of w: a sign, the digits of n, CRLF.
IsNumberLine(w, from, to, sign, n) ==
    /\ from + 3 <= to
    /\ w[from] = sign /\ w[to - 1] = CR /\ w[to] = LF
    /\ \A i \in (from + 1)..(to - 2) : w[i] \in ZERO..(ZERO + 9)
    /\ Decimal(w, from + 1, to - 2) = n

\* One command, with its number of arguments in the first line and the length
\* of each argument in a line before it, in numbers that an int can hold.  No
\* argument is empty: the code refuses $0, as redis does not
\* (commandhandler.cpp:144-145).
IsMultiBulk(r) ==
    LET w    == r.wire
        args == r.commands[1]
        n    == Len(args)
    IN  /\ r.commands = <<args>> /\ args \in Seq(Seq(Char))
        /\ n \in 1..MaxReserve /\ n <= INT_MAX
        /\ r.from \in [1..(n + 2) -> 1..(Len(w) + 1)] /\ r.to \in [1..(n + 1) -> 1..Len(w)]
        /\ r.from[1] = 1 /\ r.from[2] = r.to[1] + 1 /\ r.from[n + 2] = Len(w) + 1
        /\ IsNumberLine(w, 1, r.to[1], STAR, n)
        /\ \A k \in 1..n :
              LET lf     == r.to[k + 1]
                  length == Len(args[k])
              IN  /\ IsNumberLine(w, r.from[k + 1], lf, DOLLAR, length)
                  /\ length > 0 /\ length + 2 <= INT_MAX
                  /\ r.from[k + 2] = lf + length + 3
                  /\ args[k] = SubSeq(w, lf + 1, lf + length)
                  /\ w[lf + length + 1] = CR /\ w[lf + length + 2] = LF

MultiBulkClients == {c \in Clients : \A r \in Requests[c] : "from" \in DOMAIN r /\ IsMultiBulk(r)}

\* All that was sent has been executed, and the parser is as new.
Fresh ==
    /\ pc = "read" /\ input = <<>> /\ executed = request.commands
    /\ m_commandString = <<>> /\ m_commandOffset = 0
    /\ m_numberOfArguments = -1 /\ m_commandArguments = <<>>

\* The first line has not been parsed; more is read only if it is not there.
InFirstLine ==
    /\ m_numberOfArguments = -1 /\ m_commandOffset = 0 /\ m_commandArguments = <<>>
    /\ pc \in {"read", "command"}
    /\ pc = "read" => Len(m_commandString) < request.to[1]

\* The arguments so far are the first of those sent, parsing goes on at the line
\* behind them, and more is read only if the next one is not there in full.
InArguments ==
    LET args == request.commands[1]
        k    == Len(m_commandArguments)
    IN  /\ m_numberOfArguments = Len(args) /\ k <= Len(args)
        /\ \A i \in 1..k : m_commandArguments[i] = args[i]
        /\ m_commandOffset = request.from[k + 2] - 1
        /\ pc \in {"read", "arguments", "execute"}
        /\ pc = "read" => k < Len(args) /\ Len(m_commandString) < request.from[k + 3] - 1
        /\ pc = "execute" => k = Len(args)

\* The request is being parsed, and what was fed of it is in the buffer.
Underway ==
    /\ request \in Requests[client]
    /\ m_commandString \o input = request.wire
    /\ executed = <<>>
    /\ InFirstLine \/ InArguments

\* However a multi-bulk request without empty arguments is cut into reads, the
\* parser is at one place of it, with nothing lost and nothing executed, or it has
\* executed it (commandhandler.cpp:42-78, 107-196).
MultiBulkInv == client \in MultiBulkClients => Fresh \/ Underway

=============================================================================
