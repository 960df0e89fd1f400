# Boostcache in TLA+

Boostcache is an in-memory cache server. A pool of worker threads, each running one
`boost::asio::io_service`, serves TCP and Unix-socket connections; each connection parses requests
in a Redis-like protocol and runs commands, on the worker's own thread, against two databases that
all workers share. This directory holds TLA+ models of the parts whose correctness is hard to test,
the TLC configurations that check them, and TLAPS proofs.

Source paths below are relative to the repository's `src/`.

## The system

| Part | State | Operations | Meets the others through |
|---|---|---|---|
| `Db::HashTable` (`db/hashtable.*`) | `m_table`, `m_access` | `get`, `set`, `del`, `foreach` | called by every worker thread; `foreach` calls `JsVm` under the exclusive lock |
| `Db::AvlTree` (`db/avltree.*`) | `m_nodes` (list), `m_tree` (intrusive tree), `m_access` | the same four | the same |
| `Db::Interface` (`db/interface.*`) | none | the four names; its own bodies are never called | base class of both |
| `JsVm` (`server/jsvm.*`) | a v8 isolate and context | `init`, `call` | constructed by each `foreach` |
| `CommandHandler` (`kernel/commandhandler.*`) | the unparsed bytes, the parse position, the arguments so far | `feedAndParseCommand`, `executeCommand`, `reset` | fed by `Session`, calls `Commands::find`, answers through the finish callback |
| `Commands` (`kernel/commands.*`) | the command table, both databases | `find`, the generic commands | one instance for all threads |
| `Session` (`kernel/net/session.*`) | socket, read buffer, a `CommandHandler` | `asyncRead`, `asyncWrite`, `handleRead`, `handleWrite` | deletes itself on an error |
| `IoServicePool` (`kernel/net/ioservicepool.*`) | the io_services, `m_next` | `start`, `stop`, `ioService` | hands io_services to acceptors and sessions |
| `CommandServer` (`kernel/net/commandserver.*`) | two acceptors, a signal set | accept loops, `stop` | creates sessions |
| `Wrapper::Singleton` (`wrapper/singleton.h`) | a function-local static | `instance` | every worker's first command builds `Commands` through it |
| `main`, options (`server/`, `util/options.*`) | parsed options | command line, config file, start-up | sets the log's level and place, creates the server |
| logging, version (`util/log.*`, `util/version.*`) | the filter, the sink | `installLoggerLevel`, `installLoggerFile`, `versionString` | output, the `VERSION` command |
| exceptions, traces (`util/stacktrace.*`, `kernel/exception*.h`) | none of interest | formatting | everywhere |

What is hard in it:

* Every worker may be inside either database at once. Writers take an *upgrade* lock and turn it
  into an exclusive one; the bodies in between read, then write, through iterators.
* `foreach` runs user code on every element and may stop in the middle, with an error reply or with
  the death of the process.
* The AVL tree keeps each node in two structures that must agree, and tells keys apart by hash.
* Sessions delete themselves, accept loops run on one worker and hand sessions to others, replies are
  written asynchronously, and the stop signal may come before all workers have started.
* A request arrives in reads cut anywhere; the parser keeps its place in a handful of counters, and
  its numbers come from the client.
* The command table is built lazily by whichever worker comes first. Clients disconnect while their
  commands are executed on a shared database.
* Servers are killed and started again, several may start at once, and they share a default port and a
  default socket path; the constructor removes whatever is at that path.
* An option has up to three sources, stored in an order that is not the order of their precedence.

## Modules

| Module | Models |
|---|---|
| `SharedMutex` | `boost::shared_mutex` (external): who holds it, and when each lock call returns |
| `DbTypes` | keys, values, calls, replies, and the outcomes of a script |
| `KeyValueStore` | the abstract specification of both databases: each call takes effect at one instant, on a map |
| `DbInterface` | what both databases do alike: enter, lock, upgrade, downgrade, unlock, return, `JsVm::init` and `call`; the history variable `published`, race freedom and the refinement mapping |
| `DbInterfaceProofs` | the lemmas about these steps that the proofs of both databases share |
| `HashTable` | `Db::HashTable`, step by step |
| `HashTableProofs` | its inductive invariant, race freedom and linearizability, proved |
| `AvlTree` | `Db::AvlTree`, step by step: list, tree, iterators |
| `AvlTreeProofs` | list and tree agree for any hashes; a linearizable map for distinct ones |
| `CommandHandler` | the parser, byte by byte and read by read; the multi-bulk format, as the protocol has it |
| `CommandHandlerProofs` | the parser's counters for any bytes, the fate of multi-bulk requests for any cuts |
| `IoServicePool` | the services, their round robin, their threads, stop and join |
| `CommandServer` | extends it: construction, the accept loops, the sessions on their workers, the stop signal |
| `CommandServerProofs` | the server's safety properties, proved for any number of workers |
| `Commands` | the singleton, the construction of the table, `find` with the arity check, the generic commands |
| `Cache` | composes clients, sessions, workers, `Commands` and two `KeyValueStore`s: the server as its clients see it |
| `CacheProofs` | its safety properties and both refinements, proved for any number of workers and clients |
| `Startup` | several server processes on one machine: the system calls by which they take port and socket path, and their deaths |
| `StartupProofs` | its properties, proved for any number of servers on one endpoint |
| `Options` | command line, config file and defaults, the log level, and what `main` gives the server |
| `OptionsProofs` | its properties, proved for any command lines and config files |
| `MCHashTable`, `MCAvlTree`, `MCCommandHandler`, `MCCommandServer`, `MCCache`, `MCStartup`, `MCOptions` | the small instances TLC checks |

### Databases

A worker's call is a sequence of steps, one for each lock operation and one for each access of the
container that another thread could come before or after: `set` on the hash table is "`operator[]`
inserts an empty value" and then "assign"; `del` is "find" and then "erase"; `set` on the tree is
"find", "push_back" and then "insert_unique". The mutex, not the granularity of the model, has to keep the others
out. `published` is a history variable: the contents when the last write section ended. A
`foreach` visits the elements of the hash table in any order, those of the tree in list order. What
v8 does with a script is the constant `JsResult`: a set of possible results for a key and a value,
each a new value, `Throw`, or `Crash` (a result, or an argument of `console.log`, with no string
form: a `std::string` is built from a null pointer, which is not an `Exception`, leaves the worker
thread and ends the process). `Fatal` scripts do so while they are loaded. `aborted` is that end.

`KeyValueStore` is what a client may rely on. The refinement maps `store` to `published`, and a
reply exists for the caller from the step at which the call takes effect: `get` when its answer is
fixed, a writer when it gives the exclusive lock back, a `foreach` that does not compile when
`init` fails. Note what it does not promise: a `foreach` that answers an error has applied its
function to some of the elements.

### Parser

`feedAndParseCommand` is split at its own control points: append what was read; parse an inline
line or the number of arguments; one iteration of the argument loop; execute. Positions are indices
into `m_commandString`; numbers are `int`s that wrap at `INT_MAX`. Undefined behaviour is a choice
of what a build can do: `m_lastArgumentLength + 2` overflowing gives "wait", "reset" or a wild read;
`reserve` of a count that cannot be allocated may throw, which ends the process. The one read before
the beginning of the buffer (an LF as first byte) hits a byte of the string's size or of the
allocator, never a CR. Executing a command is recording its arguments. A client has a constant set
of requests, each with the commands it stands for, and sizes its reads may have; it sends the next
request when the last has been read.

`IsMultiBulk` says, apart from the parser, when the bytes of a request are the multi-bulk form of its
command: a line with the number of arguments, then for each a line with its length and its bytes, CRLF
behind each. The request's fields `from` and `to` say where the lines with the numbers begin and end;
nothing is said about the bytes of the arguments, which may look like protocol, but none may be empty:
the parser refuses `$0`. `MultiBulkInv` is the
place of the parser in such a request: before the first line, or behind the first `k` arguments.

### Server

The main thread's place is `main`; a worker's is `thread` and `handler`, what it is running now. A
worker takes its next handler when it is idle, running and not stopped (`Ready`). A handler is one
step, except where another worker can act in the middle: `handleAccept` starts the session, which
its own worker may run from then on, and only then accepts again; `stop` tells one service after
another; and a command is executed in two steps, because the reply lives only until the second.
`op` is the one operation a session has outstanding, `"deleted"` for an address that is free.
`async_write` (external) puts some of the reply into the socket at once and the rest when there is
room; `SendSizes` says how much at once. `garbled` collects the sessions that went on writing after
their reply was destroyed. Building an endpoint may throw; `main` then ends in `"failed"`. What is
read, and what a command does, is the other modules' matter.

### Cache

`Cache` puts the parts together at the level each of them has been shown to provide. The databases
are `KeyValueStore`s, which `HashTable` and (with distinct hashes) `AvlTree` implement; a request is
a sequence of strings that arrives whole, which is what `CommandHandler` makes of it; a session is on
one worker for its life, and has one operation outstanding, as `CommandServer` has it. What is new
is `Commands` in between: `instance` (the first worker constructs, the others wait, as C++11 has it
for a static), the two steps of the constructor, `find`, and a callback. `arguments[1]` behind the
end of the vector may be any string (`Argument`), so the arity check in `find` is what keeps the
callbacks in their arguments, and it is checked, not assumed. A client sends one request at a time;
what happens to more is said under Findings. A client may go at any moment: a request it sent
may then still be read, the command takes effect, and the write of its reply may or may not fail.

`HashService` and `TreeService` say what all this amounts to: `KeyValueStore` again, now with
*connections* as its callers and the words of the requests (`HashMeaning`, `TreeMeaning`) as its
calls, written down independently of the command table. A call begins when the callback is called and
ends when the client takes the reply or is gone.

### Start-up

A process goes through `open`, `bindTcp`, `listenTcp`, `unlink`, `bindUnix`, `listenUnix`, each a
system call that other processes can come between, and ends at any point. What is kept across a
crash is the socket's file (`file` says whose it is) and connections in TIME_WAIT. Two servers clash
(`Clash`) if they have one port and one host, or one of them has 0.0.0.0, which is also what no `--host`
means. `unlink` does nothing where the process may not remove the file (`Removable`); its result is
ignored, and `bindUnix` fails. The calls behave
as Linux's do: with `SO_REUSEADDR` two sockets may be bound to a port while neither listens, so
`listen` can fail too; TIME_WAIT matters only without it. A call that fails throws, and `main` ends
with `EXIT_FAILURE`.

### Options

`Options` is `tryParseOptions` and `main` up to the server: store the command line and the defaults;
store the config file; work out the log level; print help or version and exit, or set up the log;
call `daemon`; cut the port to a `short`. `store` is boost's: it keeps what an earlier store
set, unless that was a default, and throws for a name it does not know, a repetition or a number
that is none. A line of the config file that `getline` cannot hold is cut, and ends the file. Zero
workers is the read of an empty vector (`"crashed"`). A negative number of them is a huge `size_t`:
services are made until memory is out, which throws or has the process killed, so either end may come;
`MaxWorkers` is a number for which there is always memory. A port that is negative as a `short` throws
(`"failed"`). `Precedence` promises nothing of an option that stands only on or behind a line that is too
long, so code that read on would satisfy it too.

## Runs

| Run | Instance | Shows |
|---|---|---|
| `hashtable` | 2 threads, 2 keys, 2 values, 5 scripts | `IInv`, `NoDataRace`, `ImplementsKeyValueStore`, `EveryCallAnswered` |
| `hashtable_starvation` | 3 threads, 1 key, 1 value | violation: two threads that read in turns keep the third from writing for ever |
| `avltree` | 2 threads, 3 keys with distinct hashes, 3 node addresses | `TreeInv`, `GetAnswersItsKey`, `IInv`, `ImplementsKeyValueStore` |
| `avltree_collision` | two of the keys with one hash | violation: `get` of one key answers the value of the other |
| `parser` | three clients (below) | `ParserInv`, `MultiBulkInv`, `ExecutesWhatWasSent`, `FedBytesKept` |
| `parser_inline_split` | one inline request, reads that cut it | violation: the first part is dropped |
| `server` | 3 workers, 3 session addresses, writes of nothing, part or all of a reply at once | `TypeOK`, `SessionInv`, `KeepsAccepting`, `RoundRobin`, `StopsWhenSignalled` |
| `server_reply` | 2 workers, writes that may put nothing into the socket at once | violation: the rest is written from a destroyed reply |
| `cache` | 2 workers, 2 connections, all commands of both databases, one with too few arguments | `ServingInv`, `IInv`, `HashService`, `TreeService` |
| `cache_live` | the same with the generic commands, a malformed one, an unknown one | `GenericAnswers`, `EveryRequestAnswered` |
| `startup` | 4 servers of two users with one endpoint | `StartupInv`, `SocketKept`, `FailsForLiveServerOnly` |
| `options` | every command line of up to 2 of 17 options, every config file of up to 2 of 10 lines, or none | `Precedence`, `MostVerboseCounts`, `ServesAsAsked`, `IInv` |

The clients of `parser` are: `bulk`, which sends every request of up to 3 arguments out of 5 that look
like protocol, cut into reads of 1 to 32 bytes; `whole`, which sends every line of up to 5 characters
with either line end, checked against a reference definition of its words, and malformed requests,
each in one read; and `pieces`, which sends 12 pieces of requests in any order and any reads, and for
which only the parser's own consistency is claimed. A connection may be lost at any time, and the
next one is any client's.

The inductive invariants of the proofs (`IInv`, `MultiBulkInv`) are checked by the runs too, so that a
theorem and a run speak of the same formula.

Bounds. Two threads are a reader and a writer that meet, or two writers; what holds of the databases
for more is proved. Two keys and
two values are enough to see a wrong or half-made update, and a third key lets the tree's list lose a node in
the middle. The scripts are one for each outcome: replace, throw on one key, kill, kill while loading, do not compile.
Pieces are sent while at most `MaxBuffered` bytes are buffered, enough for a complete request of one
argument; `INT_MAX = 127` lets three digits overflow; `MaxReserve = 64` is below it so that both
outcomes of `reserve` occur. Three workers let the round robin leave one out, and a stop reach one
that has not been started; three addresses are a session beside the two being accepted, so that
addresses are used again (more sessions and workers are the proofs' matter). A connection is accepted only while there is an address for the next one.
A second stop signal is not modelled: `async_wait` waits for one, and later ones have no effect.
Two workers and two connections let a worker build the table while another waits, two sessions share
a worker or not, and a connection be lost and made again while the other's command is executed; one
key and a value that scripts change tell every operation's effect and reply apart, and the second
string is what a read behind the arguments may find. Two options of a kind are a repetition, two
sources a conflict, a line may come before or behind one that is too long, and the ports include
32767, 32768 and 65537. Four servers are the one that runs, one that was killed and two that start; the
two users are one that may remove the file at the path and one that may not.

Fairness (`FairSpec`): a thread inside a body goes on (weak fairness: workers are scheduled and
scripts terminate; one that does not holds the exclusive lock for ever), and one that could take the
mutex again and again takes it (strong fairness: the last reader to leave hands a waiting upgrader
the lock, and waiters are woken on every release). With two workers, the default, every call is then
answered. With three it is not so for writers: readers are admitted while an upgrade waits, and two
of them can overlap for ever; no fairness of the mutex this code asks for prevents it, and run
`hashtable_starvation`, under the same fairness, shows it. In `Cache` a database call is taken to end, so
`EveryRequestAnswered` says nothing of this starvation.

In `Cache` a worker goes on with its command (weak fairness), and the completion handlers of a
session, when ready again and again between those of the other sessions on the worker, are run
(strong fairness: the queue of an `io_service`). Clients need not send, receive or stay; a request
is answered unless its client goes or the process dies.

For the server, main and every worker go on when they can (weak fairness: threads are scheduled and
handlers end), and the handler of the stop signal, once ready, is reached although worker 0 also has
others to run (strong fairness: an `io_service` takes ready handlers from a queue). Clients are
under no fairness: connections, reads and writes need not complete for the server to stop.

## Findings

* `avltree_collision`: `Node`'s comparisons look at `internalKey` alone (`db/avltree.h:95-103`), so
  two keys with one hash are one key. `get` of a key that was never set answers the other's value,
  where the reply for "Not found" (`kernel/commandhandler.h:59-61`) is due. `GetAnswersItsKey`
  holds, and the tree refines `KeyValueStore`, when hashes are distinct.
* `parser_inline_split`: an inline request whose LF has not arrived is reset
  (`kernel/commandhandler.cpp:61-64`) although `feedAndParseCommand` answers "need to feed more
  data" (`kernel/commandhandler.h:91-94`). Multi-bulk requests do not have this problem.
* `server_reply`: `asyncWrite` gives `async_write` a buffer on its argument, a temporary of
  `executeCommand` (`kernel/commandhandler.cpp:189-193`). When the socket does not take the whole
  reply at once, the rest is read from freed memory, so what is sent is not the "result of executed
  command" (`kernel/commandhandler.h:114-116`).
* `hashtable_starvation`: `upgrade_to_unique_lock` (`db/hashtable.cpp:41`) waits while new readers are let
  in. With three workers a write may wait for ever, and its client for the "result of executed command"
  (`kernel/commandhandler.h:114-116`).

More limits of the code are in what the properties are stated for rather than refuted by a run of their
own:

* `executeCommand` ends with `reset()` (`kernel/commandhandler.cpp:195`), which drops the bytes behind the
  command: of two requests in one read the second is lost, although the format is "based on redis
  protocol" (`kernel/commandhandler.h:19-20`), which has clients send without waiting for replies.
  `ExecutesWhatWasSent` is about clients that wait. Give a client of `MCCommandHandler` a request that is
  two, and TLC finds it violated.
* A length of 0 is refused like a malformed one (`kernel/commandhandler.cpp:144-145`), so a request with an
  empty argument is thrown away unanswered; redis has such arguments, and nothing in the format
  (`kernel/commandhandler.h:19-27`) excludes them. Hence `length > 0` in `IsMultiBulk`.
* `toInt` (`kernel/commandhandler.cpp:257`) does not check for overflow: a count or length that an `int`
  cannot hold is taken for another. `IsMultiBulk` has numbers that fit; of the others `ParserInv` says that
  the parser stays consistent with what it took them for.
* `unlink` (`kernel/net/commandserver.cpp:91`) takes no notice of whose socket it removes. Between
  servers with one endpoint the port protects it (`SocketKept`); a server with a port of its own and the
  default socket path takes the socket away from the one that runs. Hence `OneEndpoint`.
* The port is kept in a `short` (`kernel/net/commandserver.h:36`): `ServesAsAsked` says that 32768 to
  65535 never come up (the resolver is given a negative number) and that the port served is the one
  asked for only up to a multiple of 65536.
* A config line of `PATH_MAX` characters or more ends the file (`util/options.cpp:156`). `Precedence`
  promises nothing of what stands on it or behind it.
* `SET` and `GET`, the examples of `documentation/protocol.md:13` and `kernel/commandhandler.h:29-41`,
  are not in the table (`kernel/commands.cpp:59-71`): `GenericAnswers` has them answered "not
  implemented".

## Proofs

Every safety property of a passing run is a theorem about every value of the constants, under the
assumptions named below. The assumptions that modules make on their constants (`ASSUME`) are
evaluated by TLC on every run.

**Databases.** `DbInterfaceProofs` assumes `NoThreadAssumption` and `DbAssumption` (marks are not
values; a script's results are values or marks): threads, keys, values and scripts are arbitrary
sets. It holds what the two databases have in common: which lock calls and which steps of a body keep
`LockInv` and `CallInv`; that nobody else is inside while a thread writes (`Alone`), from which
`NoDataRace` follows; and how the steps around a body map to `KeyValueStore`.

* `HashTableProofs`: `Invariance` is `Spec => []IInv`. `NoDataRace` and `NothingUncommitted` are not
  inductive. `LockInv` says who holds the mutex in terms of where each thread is; `CallInv` ties call,
  reply and loop state to the thread's place; `WorkInv` says, for each place in each operation, how
  `m_table` differs from `published`. `RaceFreedom` and `Linearizable` follow: initial states map to
  initial states, a step is a step of `KeyValueStore` or leaves it alone, and `WorkInv` at "downgrade"
  is exactly the abstract effect.
* `AvlTreeProofs`: `TreeInvariance` (`Spec => []TreeInv`) and `TreeRaceFreedom` hold for any hash, so
  also when keys collide: list and tree have the same nodes but for the one a write section is about,
  no node is twice in the list, no iterator outlives its node. `TreeMapInvariance`, `AnswersItsKey` and
  `TreeLinearizable` assume `DistinctHashes`; run `avltree_collision` shows that they are false
  without. There `IInv` adds `WorkInv`: how `Contents`, the map that list and data stand for, differs
  from `published` at each place, and what a `foreach` has visited.

**Parser.** `CommandHandlerProofs` assumes `ParserAssumption`: requests are sequences of bytes, reads
are at most `MAX_BUFFER_LENGTH` long, an `int` can hold at least 127.

* `ParserCounters`: for any client at all, sending anything in any reads, the counters
  stay within `int`, the offset stays in the buffer, no argument is lost or counted twice, and a
  command that is executed has a name. `ParserInv`, which has the types in it, is inductive. The work is in the
  lemmas on `memchr`, `toInt` and `split`, which say what these return for any buffer.
* `MultiBulkHolds` (`Spec => []MultiBulkInv`): a client that sends well-formed multi-bulk requests,
  none with an empty argument, finds the parser at one place of its request, with all that was fed of it in the buffer, or done with
  it and as new. `NumberLine` says that at the start of a number line `memchr` finds the line's end
  and nothing else, and that `toInt` of it is the number its digits stand for, without overflow; it
  rests on a proof that the two recursions agree on every prefix. One lemma per action follows:
  an argument is saved if and only if it is there in full, with its CRLF.
* `MultiBulkExecuted` and `MultiBulkKept` are `ExecutesWhatWasSent` and `FedBytesKept` under the
  hypothesis `Whole \subseteq MultiBulkClients`: the clients whose requests are claimed to be understood
  send multi-bulk ones. It cannot simply be dropped: cut inline requests, pipelined ones and empty
  arguments are among the findings and limits above. Client `bulk` of run `parser` satisfies it (`BulkIsMultiBulk`, which TLC evaluates).
  That inline requests and malformed ones are treated as they should be when they come in one read is
  only model-checked.

**Server.** `CommandServerProofs` assumes `WorkersAssumption` (at least one worker) and
`ServerAssumption`. `ServerInvariance` is `Spec => []IInv`, where `IInv` is `TypeOK`, `RoundRobin`,
`SessionInv`, `KeepsAccepting` and `StartInv`: no worker runs while the endpoints are built, and the
endpoint that worker 0 is about to accept on again is not accepting. Without the latter a second accept
could orphan a session. From it follow `ServerTypes`, `Balanced`, `OneOwner` and `AcceptsForEver`, the
four invariants of run `server` for any number of workers and sessions. `StartAcceptStep` is the lemma
about `startAccept` that the proofs for the constructor and for the accept loops share.

**Cache.** `CacheProofs` assumes `CacheAssumption`, `CommandsAssumption` and `DbAssumption`; workers,
connections, requests and strings are arbitrary. `Invariance` is `Spec => []IInv`: `TableInv` (one worker
builds the command table; who is past `instance` finds it whole), `CallsInv` (a worker is in the call
that its session's request means, and in no other), `ServingInv`, `ConnectionInv` (a request is in the
socket, with one worker, or answered) and `AnswerInv`. `OneSessionPerWorker` and `GenericRequests` follow.
`ServesHash` and `ServesTree` are the refinements: to its *connections* the server is two independent
linearizable maps. `ServesTree` takes the tree's calls for those of a `KeyValueStore`, which they are while
no two keys have the same hash (`TreeLinearizable`). The lemmas under them show that `find` with its arity check lets exactly the requests
through that `HashMeaning` and `TreeMeaning` give a meaning to, whatever is read behind the end of
`arguments`.

**Start-up.** `StartupProofs` assumes `StartupAssumption` and, in each theorem, `OneEndpoint` (all servers
are given the same port, and hosts that clash; without it `SocketKept` is false). `StartupInvariance` is `Spec => []StartupInv`. `SocketKept` alone is not inductive: it needs that no
two servers listen, that nobody has taken the path again between `unlink` and `bind`, and that a server that
has the path named has it still. The step that could break it is another server's `unlink`, and that server
would have to be listening on the same endpoint. `SocketStays` and `RestartWorks` follow: the second says
that `bindUnix` fails only for a file that may not be removed (`Stuck`), and `bindTcp` and `listenTcp` only
for a live server.

**Options.** `OptionsProofs` assumes `OptionsAssumption`: a `v` option has 1 to 20 of them, the four
options `main` reads have defaults, command lines and config files are finite sequences of options of the
right kind. `Invariance` is `Spec => []IInv`: what each stage leaves for the next. `Precedence` speaks of the
map after both stores and needs to know what the first one stored (`CommandLineStored`) and that numbers
are numbers (`NumbersStored`); `AsAsked` says of each option which of the three sources its value is from,
overlong lines included. `PrecedenceHolds`, `MostVerbose` and `Serves` follow.

Only model-checked:

* Liveness (`EveryCallAnswered`, `StopsWhenSignalled`, `EveryRequestAnswered`): fairness is out of the
  prover's reach.
* What `split` makes of an inline request (run `parser`, against the reference definition `Words`), and
  that malformed requests execute nothing. What is proved of `split` is that it gives a
  sequence of strings.

## Not modelled

* `v8`, boost's rebalancing and hashing, `boost::program_options` beyond what its stores keep, sockets
  beyond what completes when. They are external, and modelled by what this code sees of them.
* Scripts that do not end, and memory: the isolate that each `JsVm` creates is never disposed of.
* Formatting: the texts of replies, log messages, backtraces, help; quotes in the config file. `dumpOptions` is never called.
* Name resolution of `--host` (taken to succeed), IPv6, and systems other than Linux for `Startup`.

## Plan

What remains worth proving: that inline requests read whole are executed with their words, which
needs a characterisation of `split` by the places where words begin and end, in the manner of
`IsMultiBulk`, and that malformed requests read whole execute nothing. With these the hypothesis
`Whole \subseteq MultiBulkClients` becomes one about how requests are cut alone.
