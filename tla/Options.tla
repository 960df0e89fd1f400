------------------------------ MODULE Options ------------------------------
(***************************************************************************)
(* What the daemon makes of its command line and config file before it     *)
(* serves: boost::program_options stores the command line, then the file,  *)
(* in m_variablesMap (the first store wins, and both win over defaults);   *)
(* the log level and the log's place are set; main hands port and workers  *)
(* to the server.  An option is a name and a value; quotes, and the forms  *)
(* a name may be written in, are layout.                                   *)
(***************************************************************************)
EXTENDS Integers, Sequences, FiniteSetsExt, Functions

CONSTANTS CommandLines, \* sequences of options
          ConfigFiles,  \* sequences of lines, or Unreadable; a line is the option
                        \* that its first PATH_MAX - 1 characters are, and if it is longer
          Unreadable,
          NotANumber,   \* a value that boost cannot turn into an int
          Verbosity,    \* the options -v, -vv, ...: how many v's each has
          NoDefault,    \* marks an option without a default
          MaxWorkers    \* pools up to this size can always be allocated

\* The other options with their defaults: those of any program, and the server's.
visibleOptions == [help |-> NoDefault, version |-> NoDefault, config |-> "/etc/boostcached",
                   logFile |-> NoDefault]
additionalOptions == [port |-> 9876, host |-> NoDefault, socket |-> "boostcached.sock",
                      fork |-> NoDefault, workers |-> 2]
Defaults == [n \in DOMAIN visibleOptions \cup DOMAIN additionalOptions |->
                IF n \in DOMAIN visibleOptions THEN visibleOptions[n] ELSE additionalOptions[n]]
Numbers == {"port", "workers"}
Names == DOMAIN Defaults \cup DOMAIN Verbosity
Comment == "#"   \* the name of a line that sets nothing

\* The value of an option that is a number is one, or is none.
IsOption(o) == o.name \in Numbers => o.value = NotANumber \/ o.value \in Int

ASSUME OptionsAssumption ==
    /\ MaxWorkers \in Nat
    /\ \A v \in DOMAIN Verbosity : Verbosity[v] \in 1..20
    /\ DOMAIN Verbosity \cap (DOMAIN Defaults \cup {Comment}) = {}
    /\ \A n \in {"config", "port", "socket", "workers"} : Defaults[n] # NoDefault
    /\ \A line \in CommandLines :
          /\ Len(line) \in Nat /\ DOMAIN line = 1..Len(line)
          /\ \A i \in DOMAIN line : IsOption(line[i]) /\ line[i].name # Comment
    /\ \A lines \in ConfigFiles \ {Unreadable} :
          /\ Len(lines) \in Nat /\ DOMAIN lines = 1..Len(lines)
          /\ \A i \in DOMAIN lines : IsOption(lines[i]) /\ lines[i].long \in BOOLEAN

VARIABLES pc,
          argv, file,      \* the command line, the config file
          m_variablesMap,  \* a value for each option, and whether it is the default
          logLevel,
          filter,          \* the severities that are logged, 0 (trace) .. 5 (fatal)
          log,             \* where to
          port, workers    \* what the server is given

vars == <<pc, argv, file, m_variablesMap, logLevel, filter, log, port, workers>>

Init ==
    /\ pc = "commandLine"
    /\ argv \in CommandLines
    /\ file \in ConfigFiles
    /\ m_variablesMap = <<>>
    /\ logLevel = 0
    /\ filter = 0..5
    /\ log = "stdout"
    /\ port = 0
    /\ workers = 0

----------------------------------------------------------------------------
(* boost::program_options.                                                 *)

Named(options) == {o.name : o \in Range(options)} \ {Comment}
ValueOf(options, n) == (CHOOSE o \in Range(options) : o.name = n).value

\* Mutant: a default is kept like what was given.
KeptMutantDefaults(map) == DOMAIN map

\* A store keeps what an earlier one was told; a default is not kept.
Kept(map) == {n \in DOMAIN map : ~map[n].defaulted}

\* parsing, or storing what is new, throws
Throws(options, map) ==
    \/ ~(Named(options) \subseteq Names)
    \/ \E n \in Named(options) \ Kept(map) :
          \/ Cardinality({i \in DOMAIN options : options[i].name = n}) > 1
          \/ n \in Numbers /\ ValueOf(options, n) = NotANumber

\* Mutant: what comes later wins.
storeMutantLastWins(options, map) ==
    [n \in DOMAIN map \cup Named(options) |->
        IF n \in Named(options) THEN [value |-> ValueOf(options, n), defaulted |-> FALSE]
        ELSE map[n]]

store(options, map) ==
    [n \in DOMAIN map \cup Named(options) |->
        IF n \in Named(options) \ Kept(map)
        THEN [value |-> ValueOf(options, n), defaulted |-> FALSE]
        ELSE map[n]]

\* Every option that was not given and has a default gets it.
Defaulted == {n \in DOMAIN Defaults : Defaults[n] # NoDefault}
WithDefaults(map) ==
    [n \in DOMAIN map \cup Defaulted |->
        IF n \in DOMAIN map THEN map[n] ELSE [value |-> Defaults[n], defaulted |-> TRUE]]

----------------------------------------------------------------------------
(* Util::Options.                                                          *)

\* getline fails on a line of PATH_MAX characters or more: what fits of it is
\* kept, and the loop ends.
parseConfigFile(lines) ==
    LET last == Min({i \in DOMAIN lines : lines[i].long} \cup {Len(lines)})
    IN  [i \in 1..last |-> [name |-> lines[i].name, value |-> lines[i].value]]

\* getValue<Type>, and getValue: of an option that was not given, Type() and false
getValue(n, none) == IF n \in DOMAIN m_variablesMap THEN m_variablesMap[n].value ELSE none
isGiven(n) == n \in DOMAIN m_variablesMap

\* an exception: tryParseOptions prints it and calls abort()
Throw == pc' = "aborted" /\ UNCHANGED m_variablesMap

Store(options, next) ==
    IF Throws(options, m_variablesMap) THEN Throw
    ELSE /\ m_variablesMap' = WithDefaults(store(options, m_variablesMap))
         /\ pc' = next

\* parseOptions, to the end of the first store
parseCommandLine ==
    /\ pc = "commandLine"
    /\ Store(argv, "config")
    /\ UNCHANGED <<argv, file, logLevel, filter, log, port, workers>>

\* parseOptions: the config file
parseConfig ==
    /\ pc = "config"
    /\ LET config    == getValue("config", "")
           defaulted == m_variablesMap["config"].defaulted
       IN  \/ /\ config # "" /\ file # Unreadable
              /\ Store(parseConfigFile(file), "expand")
           \/ /\ config # "" /\ file = Unreadable /\ ~defaulted
              /\ Throw
           \/ /\ config = "" \/ (file = Unreadable /\ defaulted)
              /\ pc' = "expand"
              /\ UNCHANGED m_variablesMap
    /\ UNCHANGED <<argv, file, logLevel, filter, log, port, workers>>

\* Mutant: the first of -v, -vv, ... that is found counts.
LogLevelMutantFirst == Min({20} \cup {Verbosity[v] : v \in DOMAIN Verbosity \cap DOMAIN m_variablesMap}) % 20

\* the end of parseOptions: the longest of -v, -vv, ...
LogLevel == Max({0} \cup {Verbosity[v] : v \in DOMAIN Verbosity \cap DOMAIN m_variablesMap})

\* installLoggerLevel: the severities that pass the filter
installLoggerLevel(level) ==
    LET maxLevel == 5
        clamped  == IF level > maxLevel THEN maxLevel ELSE IF level < 0 THEN 0 ELSE level
    IN  {severity \in 0..5 : severity >= maxLevel - clamped}

\* installLoggerFile: a sink on the file, in place of the default one
installLoggerFile(fileFormat) == log' = IF fileFormat = "" THEN log ELSE fileFormat

\* the rest of parseOptions, and of tryParseOptions
expand ==
    /\ pc = "expand"
    /\ logLevel' = LogLevel
    /\ \/ /\ isGiven("help") \/ isGiven("version")
          /\ pc' = "exited"
          /\ UNCHANGED <<filter, log>>
       \/ /\ ~isGiven("help") /\ ~isGiven("version")
          /\ filter' = installLoggerLevel(LogLevel)
          /\ installLoggerFile(getValue("logFile", ""))
          /\ pc' = "main"
    /\ UNCHANGED <<argv, file, m_variablesMap, port, workers>>

----------------------------------------------------------------------------
(* main.                                                                   *)

\* int to short
SHRT_MAX == 32767
Shorts == 65536  \* how many there are
toShort(n) == ((n + SHRT_MAX + 1) % Shorts) - SHRT_MAX - 1

\* Mutant: two integers in a row, given in the wrong order.
ServerOptionsMutantSwapped(p, w) == port' = toShort(w) /\ workers' = p

\* CommandServer::Options
ServerOptions(p, w) == port' = toShort(p) /\ workers' = w

\* Server::Options to CommandServer::Options, and the constructor up to resolve():
\* a pool of no workers has no first service to give the acceptors; a negative
\* number is a huge size_t, and services are made until memory is out, which
\* throws or has the process killed, as it may with very many workers; a negative
\* port is no service name.  daemon() may fail too.
main ==
    /\ pc = "main"
    /\ ServerOptions(getValue("port", 0), getValue("workers", 0))
    /\ \/ isGiven("fork") /\ pc' = "failed"
       \/ workers' = 0 /\ pc' = "crashed"
       \/ workers' \notin 0..MaxWorkers /\ pc' \in {"failed", "crashed"}
       \/ workers' > 0 /\ pc' = IF port' < 0 THEN "failed" ELSE "serving"
    /\ UNCHANGED <<argv, file, m_variablesMap, logLevel, filter, log>>

Over == pc \in {"aborted", "exited", "failed", "crashed", "serving"}

Next == parseCommandLine \/ parseConfig \/ expand \/ main \/ (Over /\ UNCHANGED vars)

Spec == Init /\ [][Next]_vars

----------------------------------------------------------------------------
\* The lines of the config file that count: none without a file, or with --config
\* and no name, and none behind a line that is too long.
InForce ==
    IF file = Unreadable \/ \E o \in Range(argv) : o.name = "config" /\ o.value = "" THEN {}
    ELSE {file[i] : i \in {j \in DOMAIN file : \A k \in 1..(j - 1) : ~file[k].long}}

\* What the user asked for: the command line, else the file, else the default.
Wanted(n, v) ==
    IF \E o \in Range(argv) : o.name = n THEN \E o \in Range(argv) : o.name = n /\ o.value = v
    ELSE IF \E l \in InForce : l.name = n
         THEN \E l \in InForce : l.name = n /\ l.value = v
         ELSE n \in Defaulted /\ Defaults[n] = v

AsAsked ==
    \A n \in Names :
       IF n \in DOMAIN m_variablesMap THEN Wanted(n, m_variablesMap[n].value)
       ELSE n \notin Named(argv) /\ ~\E l \in InForce : l.name = n

\* The options of the file, if it is read at all; those on lines before the first
\* one that is too long.
FileLines == IF file = Unreadable \/ \E o \in Range(argv) : o.name = "config" /\ o.value = ""
             THEN {} ELSE DOMAIN file
Sound == {i \in FileLines : \A k \in 1..i : ~file[k].long}

\* Once the options are parsed, the value of each is one that the command line
\* gives it; if it stands only in the file, one that the file does; and if nobody
\* gave it, the default or none: the order of the two stores, with the defaults
\* that the first of them adds, never lets the file override the command line nor
\* a default override the file (options.cpp:121-137).  Nothing is said of options
\* that stand only on or behind a line too long to be read.
Precedence ==
    pc \in {"expand", "main", "serving"} =>
       \A n \in Names :
          /\ n \in Named(argv) =>
                /\ n \in DOMAIN m_variablesMap
                /\ \E o \in Range(argv) : o.name = n /\ o.value = m_variablesMap[n].value
          /\ n \notin Named(argv) /\ (\E i \in Sound : file[i].name = n) =>
                /\ n \in DOMAIN m_variablesMap
                /\ \E i \in FileLines : file[i].name = n /\ file[i].value = m_variablesMap[n].value
          /\ n \notin Named(argv) /\ (\A i \in FileLines : file[i].name # n) =>
                IF n \in Defaulted
                THEN n \in DOMAIN m_variablesMap /\ m_variablesMap[n].value = Defaults[n]
                ELSE n \notin DOMAIN m_variablesMap

\* "more v - more debug messages" (options.cpp:105): of all the -v, -vv, ... on
\* the command line and in the file, the longest counts, and with n of them the
\* n + 1 most severe of the six levels are logged.
MostVerboseCounts ==
    pc \in {"main", "serving"} =>
       LET given == DOMAIN Verbosity \cap (Named(argv) \cup {l.name : l \in InForce})
           most  == Max({0} \cup {Verbosity[v] : v \in given})
       IN  /\ Cardinality(filter) = IF most > 5 THEN 6 ELSE most + 1
           /\ \A low \in 0..5 \ filter, high \in filter : low < high

\* A server that comes up has the workers the user asked for and listens on the
\* port asked for, up to a multiple of 65536; one with a port below 32768 and
\* workers that memory is there for does come up, unless it was to become a
\* daemon.  A server with a port from 32768 to 65535 never does
\* (boostcached.cpp:27-40, commandserver.h:36).
ServesAsAsked ==
    /\ pc = "serving" =>
          /\ Wanted("workers", workers)
          /\ \E p \in {m_variablesMap["port"].value} : Wanted("port", p) /\ p % Shorts = port
    /\ pc \in {"crashed", "failed"} =>
          \/ m_variablesMap["port"].value \notin 0..SHRT_MAX
          \/ m_variablesMap["workers"].value \notin 1..MaxWorkers
          \/ isGiven("fork")

----------------------------------------------------------------------------
(* The inductive invariant: what each stage leaves to the next.            *)

\* Between the stores: the command line, each option once, and the defaults,
\* marked as such, of the options it does not give.
CommandLineStored ==
    /\ DOMAIN m_variablesMap = Named(argv) \cup Defaulted
    /\ Named(argv) \subseteq Names
    /\ \A i, j \in DOMAIN argv : argv[i].name = argv[j].name => i = j
    /\ \A i \in DOMAIN argv :
          LET stored == m_variablesMap[argv[i].name]
          IN  stored.value = argv[i].value /\ ~stored.defaulted
    /\ \A n \in Defaulted \ Named(argv) :
          m_variablesMap[n].value = Defaults[n] /\ m_variablesMap[n].defaulted

\* The options that main reads without asking are there, and are numbers.
NumbersStored ==
    /\ Defaulted \subseteq DOMAIN m_variablesMap
    /\ \A n \in Numbers : m_variablesMap[n].value \in Int

\* From the first store to the server's constructor: nothing that a later stage
\* relies on is lost on the way (options.cpp:93-146, boostcached.cpp:21-40).
IInv ==
    /\ pc \in {"commandLine", "config", "expand", "main", "aborted", "exited",
               "failed", "crashed", "serving"}
    /\ argv \in CommandLines /\ file \in ConfigFiles
    /\ pc = "commandLine" => m_variablesMap = <<>>
    /\ pc = "config" => CommandLineStored /\ NumbersStored
    /\ pc \in {"expand", "main", "failed", "crashed", "serving"} => AsAsked /\ NumbersStored
    /\ pc \in {"main", "serving"} => filter = installLoggerLevel(LogLevel)
    /\ pc \in {"failed", "crashed", "serving"} =>
          /\ port = toShort(m_variablesMap["port"].value)
          /\ workers = m_variablesMap["workers"].value
    /\ pc \in {"failed", "crashed"} => isGiven("fork") \/ workers \notin 1..MaxWorkers \/ port < 0
    /\ pc = "serving" => workers > 0 /\ port >= 0

============================================================================
