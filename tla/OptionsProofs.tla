--------------------------- MODULE OptionsProofs ---------------------------
(***************************************************************************)
(* For every command line and config file, of any length and with any      *)
(* values: what was asked for is what the server gets.                     *)
(***************************************************************************)
EXTENDS Options, FiniteSetTheorems, WellFoundedInduction, TLAPS

(* Numbers and sets of them.                                               *)

\* A set of naturals that is not empty has a least element, and Min is it.
LEMMA Minimum ==
    ASSUME NEW T \in SUBSET Nat, T # {}
    PROVE  Min(T) \in T /\ \A y \in T : Min(T) <= y
  <1> DEFINE R == OpToRel(<, Nat)
  <1>1. IsWellFoundedOn(R, Nat)
    BY NatLessThanWellFounded
  <1>2. \A x, y \in Nat : <<y, x>> \in R <=> y < x
    BY DEF OpToRel
  <1> HIDE DEF R
  <1>3. PICK x \in T : \A y \in T : ~(<<y, x>> \in R)
    BY <1>1, WFMin
  <1>4. ASSUME NEW y \in T PROVE x <= y
    <2>1. ~(y < x)
      BY <1>2, <1>3
    <2> QED
      BY <2>1
  <1> QED
    BY <1>4 DEF Min

\* A set of naturals with a bound has a greatest element, and Max is it.
LEMMA Maximum ==
    ASSUME NEW b \in Nat, NEW T, T # {}, \A x \in T : x \in 0..b
    PROVE  Max(T) \in T /\ \A y \in T : Max(T) >= y
  <1> DEFINE D == {b - x : x \in T}
  <1>1. D \in SUBSET Nat
    OBVIOUS
  <1>0. D # {}
    <2>1. PICK x : x \in T
      OBVIOUS
    <2>2. b - x \in D
      BY <2>1
    <2> QED
      BY <2>2
  <1>2. PICK d \in D : \A y \in D : d <= y
    BY <1>0, <1>1, Minimum
  <1>3. PICK x \in T : d = b - x
    BY <1>2
  <1>4. ASSUME NEW y \in T PROVE x >= y
    <2>1. d <= b - y
      BY <1>2
    <2> QED
      BY <1>3, <2>1
  <1> QED
    BY <1>4 DEF Max

\* A set with no two elements in it has no two elements.
LEMMA AtMostOne ==
    ASSUME NEW T, IsFiniteSet(T), ~(Cardinality(T) > 1), NEW x \in T, NEW y \in T
    PROVE  x = y
  <1> SUFFICES ASSUME x # y PROVE FALSE
    OBVIOUS
  <1>1. IsFiniteSet(T \ {x}) /\ Cardinality(T \ {x}) = Cardinality(T) - 1
    BY FS_RemoveElement
  <1>2. Cardinality(T) \in Nat /\ Cardinality(T \ {x}) \in Nat
    BY <1>1, FS_CardinalityType
  <1>3. T \ {x} # {}
    OBVIOUS
  <1>4. Cardinality(T \ {x}) # 0
    BY <1>1, <1>3, FS_EmptySet
  <1> QED
    BY <1>1, <1>2, <1>4

----------------------------------------------------------------------------
(* The options and boost::program_options.                                 *)

\* The port and the number of workers have defaults, and those are numbers.
LEMMA DefaultNumbers == \A n \in Numbers : n \in Defaulted /\ Defaults[n] \in Int
  <1>1. "port" \in Defaulted /\ "workers" \in Defaulted
    BY OptionsAssumption DEF Defaulted, Defaults, visibleOptions, additionalOptions
  <1>2. Defaults["port"] = 9876 /\ Defaults["workers"] = 2
    BY DEF Defaults, visibleOptions, additionalOptions
  <1> QED
    BY <1>1, <1>2 DEF Numbers

\* So has the name of the config file, and its default is not empty.
LEMMA DefaultConfig == "config" \in Defaulted /\ Defaults["config"] # ""
  <1>1. "config" \in Defaulted
    BY OptionsAssumption DEF Defaulted, Defaults, visibleOptions, additionalOptions
  <1>2. Defaults["config"] = "/etc/boostcached"
    BY DEF Defaults, visibleOptions, additionalOptions
  <1> QED
    BY <1>1, <1>2

\* A comment is not the name of an option.
LEMMA NoComment == \A n \in Names : n # Comment
  <1>1. Comment \notin DOMAIN Defaults
    BY DEF Defaults, visibleOptions, additionalOptions, Comment
  <1>2. Comment \notin DOMAIN Verbosity
    BY OptionsAssumption
  <1> QED
    BY <1>1, <1>2 DEF Names

\* The value of an option that was given is a value it was given.
LEMMA ValueGiven ==
    ASSUME NEW options, NEW n \in Named(options)
    PROVE  \E i \in DOMAIN options :
              options[i].name = n /\ options[i].value = ValueOf(options, n)
  <1>1. \E o \in Range(options) : o.name = n
    BY DEF Named
  <1>2. PICK o \in Range(options) : o.name = n /\ o.value = ValueOf(options, n)
    BY <1>1 DEF ValueOf
  <1> QED
    BY <1>2 DEF Range

\* Named is what it is called.
LEMMA NamedIs ==
    ASSUME NEW options, NEW n, n # Comment
    PROVE  n \in Named(options) <=> \E i \in DOMAIN options : options[i].name = n
  BY DEF Named, Range

\* An option that the command line gives is not a comment.
LEMMA CommandLine ==
    ASSUME argv \in CommandLines
    PROVE  /\ \A i \in DOMAIN argv : argv[i].name \in Named(argv) /\ IsOption(argv[i])
           /\ \A n : n \in Named(argv) <=> \E o \in Range(argv) : o.name = n
           /\ Len(argv) \in Nat /\ DOMAIN argv = 1..Len(argv)
  BY OptionsAssumption DEF Named, Range

\* What is read of the config file: its lines up to the first that is too long.
LEMMA FileRead ==
    ASSUME NEW lines \in ConfigFiles \ {Unreadable}
    PROVE  /\ \A i \in DOMAIN lines :
                 i \in DOMAIN parseConfigFile(lines) <=> \A k \in 1..(i - 1) : ~lines[k].long
           /\ \A i \in DOMAIN parseConfigFile(lines) :
                 /\ i \in DOMAIN lines
                 /\ parseConfigFile(lines)[i].name = lines[i].name
                 /\ parseConfigFile(lines)[i].value = lines[i].value
  <1> DEFINE T == {i \in DOMAIN lines : lines[i].long} \cup {Len(lines)}
  <1>1. Len(lines) \in Nat /\ DOMAIN lines = 1..Len(lines)
    BY OptionsAssumption
  <1>2. T \in SUBSET Nat /\ T # {}
    BY <1>1
  <1>3. PICK last : last = Min(T)
    OBVIOUS
  <1>4. last \in T /\ \A y \in T : last <= y
    BY <1>2, <1>3, Minimum
  <1>5. parseConfigFile(lines) =
           [i \in 1..last |-> [name |-> lines[i].name, value |-> lines[i].value]]
    BY <1>3 DEF parseConfigFile
  <1>6. last \in 0..Len(lines)
    BY <1>1, <1>4
  <1>7. ASSUME NEW i \in DOMAIN lines, i <= last, NEW k \in 1..(i - 1) PROVE ~lines[k].long
    <2>1. k \in DOMAIN lines /\ k < last
      BY <1>1, <1>6, <1>7
    <2> QED
      BY <1>4, <1>6, <2>1
  <1>8. ASSUME NEW i \in DOMAIN lines, \A k \in 1..(i - 1) : ~lines[k].long PROVE i <= last
    <2>1. CASE last = Len(lines)
      BY <1>1, <2>1
    <2>2. CASE last \in DOMAIN lines /\ lines[last].long
      BY <1>1, <1>8, <2>2
    <2> QED
      BY <1>4, <2>1, <2>2
  <1> QED
    BY <1>1, <1>5, <1>6, <1>7, <1>8

\* What is read of the file is what is in force, if the file is used.
LEMMA FileInForce ==
    ASSUME file \in ConfigFiles \ {Unreadable},
           ~\E o \in Range(argv) : o.name = "config" /\ o.value = ""
    PROVE  /\ \A i \in DOMAIN parseConfigFile(file) : \E l \in InForce :
                 /\ l.name = parseConfigFile(file)[i].name
                 /\ l.value = parseConfigFile(file)[i].value
           /\ \A n \in Names :
                 n \in Named(parseConfigFile(file)) <=> \E l \in InForce : l.name = n
           /\ \A i \in DOMAIN parseConfigFile(file) : IsOption(parseConfigFile(file)[i])
  <1> DEFINE p == parseConfigFile(file)
  <1>1. InForce = {file[i] : i \in {j \in DOMAIN file : \A k \in 1..(j - 1) : ~file[k].long}}
    BY DEF InForce
  <1>2. /\ \A i \in DOMAIN file : i \in DOMAIN p <=> \A k \in 1..(i - 1) : ~file[k].long
        /\ \A i \in DOMAIN p :
              i \in DOMAIN file /\ p[i].name = file[i].name /\ p[i].value = file[i].value
    BY FileRead
  <1> HIDE DEF p
  <1>3. \A i \in DOMAIN p : file[i] \in InForce
    BY <1>1, <1>2
  <1>4. \A l \in InForce : \E i \in DOMAIN p : l = file[i]
    BY <1>1, <1>2
  <1>5. \A i \in DOMAIN p : IsOption(p[i])
    BY <1>2, OptionsAssumption DEF IsOption
  <1>6. ASSUME NEW n \in Names PROVE n \in Named(p) <=> \E l \in InForce : l.name = n
    <2>1. n # Comment
      BY NoComment
    <2>2. n \in Named(p) <=> \E i \in DOMAIN p : p[i].name = n
      BY <2>1, NamedIs
    <2>3. ASSUME NEW i \in DOMAIN p, p[i].name = n PROVE \E l \in InForce : l.name = n
      BY <1>2, <1>3, <2>3
    <2>4. ASSUME NEW l \in InForce, l.name = n PROVE \E i \in DOMAIN p : p[i].name = n
      <3>1. PICK i \in DOMAIN p : l = file[i]
        BY <1>4
      <3>2. p[i].name = n
        BY <1>2, <2>4, <3>1
      <3> QED
        BY <3>2
    <2> QED
      BY <2>2, <2>3, <2>4
  <1> QED
    BY <1>2, <1>3, <1>5, <1>6 DEF p

\* What a store leaves: what an earlier one was given stays, what is new is taken
\* from the options, and what neither gives has its default, if it has one.
Stored(options, map, result) ==
    /\ DOMAIN result = DOMAIN map \cup Named(options) \cup Defaulted
    /\ \A n \in Named(options) \ Kept(map) :
          result[n].value = ValueOf(options, n) /\ ~result[n].defaulted
    /\ \A n \in DOMAIN map : n \in Kept(map) \/ n \notin Named(options) => result[n] = map[n]
    /\ \A n \in Defaulted \ (DOMAIN map \cup Named(options)) :
          result[n].value = Defaults[n] /\ result[n].defaulted

\* A store that does not throw leaves that.
LEMMA Stores ==
    ASSUME NEW options, NEW map, NEW result, result = WithDefaults(store(options, map))
    PROVE  Stored(options, map, result)
  <1>1. PICK s : s = store(options, map)
    OBVIOUS
  <1>2. /\ DOMAIN s = DOMAIN map \cup Named(options)
        /\ \A n \in DOMAIN s : s[n] = IF n \in Named(options) \ Kept(map)
                                      THEN [value |-> ValueOf(options, n), defaulted |-> FALSE]
                                      ELSE map[n]
    BY <1>1 DEF store
  <1>3. /\ DOMAIN result = DOMAIN s \cup Defaulted
        /\ \A n \in DOMAIN result : result[n] = IF n \in DOMAIN s THEN s[n]
                                    ELSE [value |-> Defaults[n], defaulted |-> TRUE]
    BY <1>1 DEF WithDefaults
  <1>4. DOMAIN result = DOMAIN map \cup Named(options) \cup Defaulted
    BY <1>2, <1>3
  <1>5. ASSUME NEW n \in Named(options) \ Kept(map)
        PROVE  result[n].value = ValueOf(options, n) /\ ~result[n].defaulted
    <2>1. result[n] = [value |-> ValueOf(options, n), defaulted |-> FALSE]
      BY <1>2, <1>3
    <2> QED
      BY <2>1
  <1>6. ASSUME NEW n \in DOMAIN map, n \in Kept(map) \/ n \notin Named(options)
        PROVE  result[n] = map[n]
    BY <1>2, <1>3, <1>6
  <1>7. ASSUME NEW n \in Defaulted \ (DOMAIN map \cup Named(options))
        PROVE  result[n].value = Defaults[n] /\ result[n].defaulted
    <2>1. result[n] = [value |-> Defaults[n], defaulted |-> TRUE]
      BY <1>2, <1>3
    <2> QED
      BY <2>1
  <1> QED
    BY <1>4, <1>5, <1>6, <1>7 DEF Stored

----------------------------------------------------------------------------
(* The stages.                                                             *)

\* The first store leaves the command line, each of its options once.
LEMMA FirstStore ==
    ASSUME argv \in CommandLines, UNCHANGED argv, ~Throws(argv, <<>>),
           m_variablesMap' = WithDefaults(store(argv, <<>>))
    PROVE  CommandLineStored' /\ NumbersStored'
  <1>1. PICK m : m = m_variablesMap'
    OBVIOUS
  <1>2. Kept(<<>>) = {} /\ DOMAIN <<>> = {}
    BY DEF Kept
  <1>3. m = WithDefaults(store(argv, <<>>))
    BY <1>1
  <1>4. /\ DOMAIN m = Named(argv) \cup Defaulted
        /\ \A n \in Named(argv) : m[n].value = ValueOf(argv, n) /\ ~m[n].defaulted
        /\ \A n \in Defaulted \ Named(argv) : m[n].value = Defaults[n] /\ m[n].defaulted
    <2>1. Stored(argv, <<>>, m)
      BY <1>3, Stores
    <2> QED
      BY <1>2, <2>1 DEF Stored
  <1>5. /\ Named(argv) \subseteq Names
        /\ \A n \in Named(argv) :
              /\ ~(Cardinality({i \in DOMAIN argv : argv[i].name = n}) > 1)
              /\ n \in Numbers => ValueOf(argv, n) # NotANumber
    BY <1>2 DEF Throws
  <1>6. ASSUME NEW i \in DOMAIN argv, NEW j \in DOMAIN argv, argv[i].name = argv[j].name
        PROVE  i = j
    <2> DEFINE T == {k \in DOMAIN argv : argv[k].name = argv[i].name}
    <2>1. ~(Cardinality(T) > 1)
      BY <1>5, CommandLine
    <2>2. IsFiniteSet(DOMAIN argv)
      <3>1. 1 \in Int /\ Len(argv) \in Int /\ DOMAIN argv = 1..Len(argv)
        BY CommandLine
      <3>2. IsFiniteSet(1..Len(argv))
        BY <3>1, FS_Interval
      <3> QED
        BY <3>1, <3>2
    <2>3. IsFiniteSet(T)
      BY <2>2, FS_Subset
    <2>4. i \in T /\ j \in T
      BY <1>6
    <2> HIDE DEF T
    <2> QED
      BY <2>1, <2>3, <2>4, AtMostOne
  <1>7. ASSUME NEW i \in DOMAIN argv
        PROVE  m[argv[i].name].value = argv[i].value /\ ~m[argv[i].name].defaulted
    <2>1. argv[i].name \in Named(argv)
      BY CommandLine
    <2>2. PICK j \in DOMAIN argv :
             argv[j].name = argv[i].name /\ argv[j].value = ValueOf(argv, argv[i].name)
      BY <2>1, ValueGiven
    <2>3. j = i
      BY <1>6, <2>2
    <2> QED
      BY <1>4, <2>1, <2>2, <2>3
  <1>8. ASSUME NEW n \in Numbers PROVE m[n].value \in Int
    <2>1. CASE n \in Named(argv)
      <3>1. PICK i \in DOMAIN argv : argv[i].name = n /\ argv[i].value = ValueOf(argv, n)
        BY <2>1, ValueGiven
      <3>2. IsOption(argv[i])
        BY CommandLine
      <3> QED
        BY <1>4, <1>5, <2>1, <3>1, <3>2 DEF IsOption
    <2>2. CASE n \notin Named(argv)
      <3>1. Defaults[n] \in Int /\ n \in Defaulted
        BY DefaultNumbers
      <3> QED
        BY <1>4, <2>2, <3>1
    <2> QED
      BY <2>1, <2>2
  <1>9. CommandLineStored'
    BY <1>1, <1>4, <1>5, <1>6, <1>7 DEF CommandLineStored, Named
  <1> QED
    BY <1>1, <1>4, <1>8, <1>9 DEF NumbersStored

\* No name of a file is what the command line gave for it, if it gave ""; else it
\* is a name, its own or the default.
LEMMA ConfigValue ==
    ASSUME argv \in CommandLines, CommandLineStored
    PROVE  /\ "config" \in DOMAIN m_variablesMap
           /\ m_variablesMap["config"].value = "" <=>
                 \E o \in Range(argv) : o.name = "config" /\ o.value = ""
  <1>1. "config" \in Defaulted /\ Defaults["config"] # ""
    BY DefaultConfig
  <1>2. CASE "config" \in Named(argv)
    <2>1. PICK i \in DOMAIN argv : argv[i].name = "config"
      BY <1>2 DEF Named, Range
    <2>2. m_variablesMap["config"].value = argv[i].value
      BY <2>1 DEF CommandLineStored
    <2>3. \A o \in Range(argv) : o.name = "config" => o = argv[i]
      BY <2>1 DEF CommandLineStored, Range
    <2>4. argv[i] \in Range(argv)
      BY DEF Range
    <2> QED
      BY <1>1, <2>1, <2>2, <2>3, <2>4 DEF CommandLineStored
  <1>3. CASE "config" \notin Named(argv)
    <2>1. m_variablesMap["config"].value # ""
      BY <1>1, <1>3 DEF CommandLineStored
    <2>2. ~\E o \in Range(argv) : o.name = "config"
      BY <1>3, CommandLine
    <2> QED
      BY <1>1, <2>1, <2>2 DEF CommandLineStored
  <1> QED
    BY <1>2, <1>3

\* What the command line gave is what was wanted.
LEMMA WantedGiven ==
    ASSUME argv \in CommandLines, CommandLineStored, NEW n \in Named(argv)
    PROVE  Wanted(n, m_variablesMap[n].value)
  <1>1. PICK i \in DOMAIN argv : argv[i].name = n
    BY DEF Named, Range
  <1>2. m_variablesMap[n].value = argv[i].value /\ argv[i] \in Range(argv)
    BY <1>1 DEF CommandLineStored, Range
  <1> QED
    BY <1>1, <1>2 DEF Wanted

\* Without a file the first store is all there is.
LEMMA NoFile ==
    ASSUME argv \in CommandLines, CommandLineStored, InForce = {}
    PROVE  AsAsked
  <1> SUFFICES ASSUME NEW n \in Names
               PROVE  IF n \in DOMAIN m_variablesMap THEN Wanted(n, m_variablesMap[n].value)
                      ELSE n \notin Named(argv) /\ ~\E l \in InForce : l.name = n
    BY DEF AsAsked
  <1>1. CASE n \in Named(argv)
    BY <1>1, WantedGiven DEF CommandLineStored
  <1>2. CASE n \in Defaulted \ Named(argv)
    <2>1. m_variablesMap[n].value = Defaults[n] /\ n \in Defaulted
      BY <1>2 DEF CommandLineStored
    <2>2. ~\E o \in Range(argv) : o.name = n
      BY <1>2, CommandLine
    <2>3. Wanted(n, m_variablesMap[n].value)
      BY <2>1, <2>2 DEF Wanted
    <2> QED
      BY <1>2, <2>3 DEF CommandLineStored
  <1>3. CASE n \notin Named(argv) \cup Defaulted
    BY <1>3 DEF CommandLineStored
  <1> QED
    BY <1>1, <1>2, <1>3

\* The second store adds what the file gives and the command line does not.
LEMMA SecondStore ==
    ASSUME argv \in CommandLines, file \in ConfigFiles \ {Unreadable}, UNCHANGED <<argv, file>>,
           CommandLineStored, NumbersStored, m_variablesMap["config"].value # "",
           ~Throws(parseConfigFile(file), m_variablesMap),
           m_variablesMap' = WithDefaults(store(parseConfigFile(file), m_variablesMap))
    PROVE  AsAsked' /\ NumbersStored'
  <1>1. PICK m, p : m = m_variablesMap' /\ p = parseConfigFile(file)
    OBVIOUS
  <1>2. Kept(m_variablesMap) = Named(argv)
    <2>1. \A n \in Named(argv) : n \in DOMAIN m_variablesMap /\ ~m_variablesMap[n].defaulted
      <3> SUFFICES ASSUME NEW n \in Named(argv)
                   PROVE  n \in DOMAIN m_variablesMap /\ ~m_variablesMap[n].defaulted
        OBVIOUS
      <3>1. PICK i \in DOMAIN argv : argv[i].name = n
        BY DEF Named, Range
      <3> QED
        BY <3>1 DEF CommandLineStored
    <2>2. \A n \in DOMAIN m_variablesMap \ Named(argv) : m_variablesMap[n].defaulted
      BY DEF CommandLineStored
    <2> QED
      BY <2>1, <2>2 DEF Kept
  <1>3. m = WithDefaults(store(p, m_variablesMap))
    BY <1>1
  <1>4. /\ DOMAIN m = DOMAIN m_variablesMap \cup Named(p) \cup Defaulted
        /\ \A n \in Named(p) \ Named(argv) : m[n].value = ValueOf(p, n)
        /\ \A n \in DOMAIN m_variablesMap :
              n \in Named(argv) \/ n \notin Named(p) => m[n] = m_variablesMap[n]
    <2>1. Stored(p, m_variablesMap, m)
      BY <1>3, Stores
    <2> QED
      BY <1>2, <2>1 DEF Stored
  <1>5. DOMAIN m = Named(argv) \cup Named(p) \cup Defaulted
    BY <1>4 DEF CommandLineStored
  <1>6. \A n \in Named(p) \ Named(argv) : n \in Numbers => ValueOf(p, n) # NotANumber
    BY <1>1, <1>2 DEF Throws
  <1>7. /\ \A i \in DOMAIN p : \E l \in InForce : l.name = p[i].name /\ l.value = p[i].value
        /\ \A n \in Names : n \in Named(p) <=> \E l \in InForce : l.name = n
        /\ \A i \in DOMAIN p : IsOption(p[i])
    <2>1. ~\E o \in Range(argv) : o.name = "config" /\ o.value = ""
      BY ConfigValue
    <2> QED
      BY <1>1, <2>1, FileInForce
  <1>8. ASSUME NEW n \in Numbers PROVE m[n].value \in Int
    <2>1. CASE n \in Named(p) \ Named(argv)
      <3>1. PICK i \in DOMAIN p : p[i].name = n /\ p[i].value = ValueOf(p, n)
        BY <2>1, ValueGiven
      <3>2. IsOption(p[i])
        BY <1>7
      <3> QED
        BY <1>4, <1>6, <2>1, <3>1, <3>2 DEF IsOption
    <2>2. CASE n \notin Named(p) \ Named(argv)
      <3>1. n \in DOMAIN m_variablesMap
        BY DefaultNumbers DEF NumbersStored
      <3> QED
        BY <1>4, <2>2, <3>1 DEF NumbersStored
    <2> QED
      BY <2>1, <2>2
  <1>9. ASSUME NEW n \in Names
        PROVE  IF n \in DOMAIN m THEN Wanted(n, m[n].value)
               ELSE n \notin Named(argv) /\ ~\E l \in InForce : l.name = n
    <2>1. CASE n \in Named(argv)
      <3>1. m[n] = m_variablesMap[n]
        BY <1>4, <2>1 DEF CommandLineStored
      <3> QED
        BY <1>5, <2>1, <3>1, WantedGiven
    <2>2. CASE n \in Named(p) \ Named(argv)
      <3>1. PICK i \in DOMAIN p : p[i].name = n /\ p[i].value = ValueOf(p, n)
        BY <2>2, ValueGiven
      <3>2. \E l \in InForce : l.name = n /\ l.value = m[n].value
        <4>1. PICK l \in InForce : l.name = p[i].name /\ l.value = p[i].value
          BY <1>7
        <4>2. m[n].value = ValueOf(p, n)
          BY <1>4, <2>2
        <4> QED
          BY <3>1, <4>1, <4>2
      <3>3. ~\E o \in Range(argv) : o.name = n
        BY <2>2, CommandLine
      <3>4. Wanted(n, m[n].value)
        BY <3>2, <3>3 DEF Wanted
      <3> QED
        BY <1>5, <2>2, <3>4
    <2>3. CASE n \in Defaulted \ (Named(argv) \cup Named(p))
      <3>1. m[n].value = Defaults[n] /\ n \in Defaulted
        BY <1>4, <2>3 DEF CommandLineStored
      <3>2. ~\E o \in Range(argv) : o.name = n
        BY <2>3, CommandLine
      <3>3. ~\E l \in InForce : l.name = n
        BY <1>7, <2>3
      <3>4. Wanted(n, m[n].value)
        BY <3>1, <3>2, <3>3 DEF Wanted
      <3> QED
        BY <1>5, <2>3, <3>4
    <2>4. CASE n \notin Named(argv) \cup Named(p) \cup Defaulted
      BY <1>5, <1>7, <2>4
    <2> QED
      BY <2>1, <2>2, <2>3, <2>4
  <1>10. AsAsked'
    <2>1. InForce' = InForce /\ Named(argv)' = Named(argv)
      BY DEF InForce, Named
    <2>2. ASSUME NEW n, NEW v, Wanted(n, v) PROVE Wanted(n, v)'
      BY <2>1, <2>2 DEF Wanted
    <2> QED
      BY <1>1, <1>9, <2>1, <2>2 DEF AsAsked
  <1> QED
    BY <1>1, <1>5, <1>8, <1>10 DEF NumbersStored

----------------------------------------------------------------------------
(* The invariant.                                                          *)

\* What was asked for does not change while nothing that it is read from does.
LEMMA AsAskedKept ==
    ASSUME UNCHANGED <<argv, file, m_variablesMap>>, AsAsked, NumbersStored
    PROVE  AsAsked' /\ NumbersStored'
  <1>1. InForce' = InForce /\ Named(argv)' = Named(argv)
    BY DEF InForce, Named
  <1>2. ASSUME NEW n, NEW v, Wanted(n, v) PROVE Wanted(n, v)'
    BY <1>1, <1>2 DEF Wanted
  <1>3. AsAsked'
    BY <1>1, <1>2 DEF AsAsked
  <1> QED
    BY <1>3 DEF NumbersStored

LEMMA InitInv == Init => IInv
  BY DEF Init, IInv

LEMMA ParseCommandLineInv == IInv /\ parseCommandLine => IInv'
  <1> SUFFICES ASSUME IInv, parseCommandLine PROVE IInv'
    OBVIOUS
  <1>1. /\ argv \in CommandLines /\ file \in ConfigFiles /\ m_variablesMap = <<>>
        /\ UNCHANGED <<argv, file>>
    BY DEF IInv, parseCommandLine
  <1>2. CASE pc' = "aborted"
    BY <1>1, <1>2 DEF IInv
  <1>3. CASE ~Throws(argv, m_variablesMap)
    <2>1. pc' = "config" /\ m_variablesMap' = WithDefaults(store(argv, m_variablesMap))
      BY <1>3 DEF parseCommandLine, Store
    <2>2. CommandLineStored' /\ NumbersStored'
      BY <1>1, <1>3, <2>1, FirstStore
    <2> QED
      BY <1>1, <2>1, <2>2 DEF IInv
  <1> QED
    BY <1>2, <1>3 DEF parseCommandLine, Store, Throw

LEMMA ParseConfigInv == IInv /\ parseConfig => IInv'
  <1> SUFFICES ASSUME IInv, parseConfig PROVE IInv'
    OBVIOUS
  <1>1. /\ argv \in CommandLines /\ file \in ConfigFiles /\ UNCHANGED <<argv, file>>
        /\ CommandLineStored /\ NumbersStored
    BY DEF IInv, parseConfig
  <1>2. /\ "config" \in DOMAIN m_variablesMap
        /\ m_variablesMap["config"].value = "" <=>
              \E o \in Range(argv) : o.name = "config" /\ o.value = ""
    BY <1>1, ConfigValue
  <1>3. getValue("config", "") = m_variablesMap["config"].value
    BY <1>2 DEF getValue
  <1>4. SUFFICES ASSUME pc' = "expand" PROVE AsAsked' /\ NumbersStored'
    <2>1. pc' \in {"aborted", "expand"}
      BY DEF parseConfig, Store, Throw
    <2> QED
      BY <1>1, <1>4, <2>1 DEF IInv
  <1>5. \/ /\ m_variablesMap["config"].value # "" /\ file # Unreadable
           /\ ~Throws(parseConfigFile(file), m_variablesMap)
           /\ m_variablesMap' = WithDefaults(store(parseConfigFile(file), m_variablesMap))
        \/ /\ m_variablesMap["config"].value = "" \/ file = Unreadable
           /\ UNCHANGED m_variablesMap
    BY <1>3, <1>4 DEF parseConfig, Store, Throw
  <1>6. CASE m_variablesMap["config"].value # "" /\ file # Unreadable
    BY <1>1, <1>5, <1>6, SecondStore
  <1>7. CASE m_variablesMap["config"].value = "" \/ file = Unreadable
    <2>1. UNCHANGED m_variablesMap
      BY <1>5, <1>7
    <2>2. InForce = {}
      BY <1>2, <1>7 DEF InForce
    <2>3. AsAsked
      BY <1>1, <2>2, NoFile
    <2> QED
      BY <1>1, <2>1, <2>3, AsAskedKept
  <1> QED
    BY <1>6, <1>7

LEMMA ExpandInv == IInv /\ expand => IInv'
  <1> SUFFICES ASSUME IInv, expand PROVE IInv'
    OBVIOUS
  <1>1. /\ argv \in CommandLines /\ file \in ConfigFiles
        /\ UNCHANGED <<argv, file, m_variablesMap>> /\ AsAsked /\ NumbersStored
    BY DEF IInv, expand
  <1>2. AsAsked' /\ NumbersStored'
    BY <1>1, AsAskedKept
  <1>3. LogLevel' = LogLevel
    BY <1>1 DEF LogLevel
  <1>4. pc' = "exited" \/ (pc' = "main" /\ filter' = installLoggerLevel(LogLevel))
    BY DEF expand
  <1>5. installLoggerLevel(LogLevel)' = installLoggerLevel(LogLevel)
    BY <1>3 DEF installLoggerLevel
  <1> QED
    BY <1>1, <1>2, <1>4, <1>5 DEF IInv

LEMMA MainInv == IInv /\ main => IInv'
  <1> SUFFICES ASSUME IInv, main PROVE IInv'
    OBVIOUS
  <1>1. /\ argv \in CommandLines /\ file \in ConfigFiles
        /\ UNCHANGED <<argv, file, m_variablesMap, filter>> /\ AsAsked /\ NumbersStored
        /\ filter = installLoggerLevel(LogLevel)
    BY DEF IInv, main
  <1>2. AsAsked' /\ NumbersStored'
    BY <1>1, AsAskedKept
  <1>3. LogLevel' = LogLevel
    BY <1>1 DEF LogLevel
  <1>4. (filter = installLoggerLevel(LogLevel))'
    BY <1>1, <1>3 DEF installLoggerLevel
  <1>5. "port" \in DOMAIN m_variablesMap /\ "workers" \in DOMAIN m_variablesMap
    BY <1>1, DefaultNumbers DEF NumbersStored, Numbers
  <1>6. /\ port' = toShort(m_variablesMap["port"].value)
        /\ workers' = m_variablesMap["workers"].value
    BY <1>5 DEF main, ServerOptions, getValue
  <1>7. m_variablesMap["port"].value \in Int /\ m_variablesMap["workers"].value \in Int
    BY <1>1 DEF NumbersStored, Numbers
  <1>8. port' \in Int /\ workers' \in Int
    BY <1>6, <1>7 DEF toShort, SHRT_MAX, Shorts
  <1>9. /\ pc' \in {"failed", "crashed", "serving"}
        /\ pc' \in {"failed", "crashed"} => isGiven("fork") \/ workers' \notin 1..MaxWorkers \/ port' < 0
        /\ pc' = "serving" => workers' > 0 /\ port' >= 0
    BY <1>8, OptionsAssumption DEF main
  <1>10. isGiven("fork")' <=> isGiven("fork")
    BY <1>1 DEF isGiven
  <1>11. (port = toShort(m_variablesMap["port"].value))'
    BY <1>1, <1>6 DEF toShort
  <1>12. (workers = m_variablesMap["workers"].value)'
    BY <1>1, <1>6
  <1> QED
    BY <1>1, <1>2, <1>4, <1>9, <1>10, <1>11, <1>12 DEF IInv

LEMMA StutterInv == IInv /\ UNCHANGED vars => IInv'
  <1> SUFFICES ASSUME IInv, UNCHANGED vars PROVE IInv'
    OBVIOUS
  <1>1. UNCHANGED <<pc, argv, file, m_variablesMap, filter, port, workers>>
    BY DEF vars
  <1>2. AsAsked /\ NumbersStored => AsAsked' /\ NumbersStored'
    BY <1>1, AsAskedKept
  <1>3. CommandLineStored /\ NumbersStored => CommandLineStored' /\ NumbersStored'
    BY <1>1 DEF CommandLineStored, NumbersStored, Named
  <1>4. /\ isGiven("fork")' <=> isGiven("fork")
        /\ (filter = installLoggerLevel(LogLevel))' <=> filter = installLoggerLevel(LogLevel)
        /\ (port = toShort(m_variablesMap["port"].value))' <=>
              port = toShort(m_variablesMap["port"].value)
    BY <1>1 DEF isGiven, installLoggerLevel, LogLevel, toShort
  <1> QED
    BY <1>1, <1>2, <1>3, <1>4 DEF IInv

\* What each stage leaves to the next, from the first store to the server's
\* constructor (options.cpp:93-146, boostcached.cpp:21-40).
THEOREM Invariance == Spec => []IInv
  <1>1. IInv /\ [Next]_vars => IInv'
    BY ParseCommandLineInv, ParseConfigInv, ExpandInv, MainInv, StutterInv DEF Next
  <1> QED
    BY <1>1, InitInv, PTL DEF Spec

\* The command line wins over the file and the file over the defaults, in whatever
\* order and number the options are given (options.cpp:121-137).
THEOREM PrecedenceHolds == Spec => []Precedence
  <1>1. IInv => Precedence
    <2> SUFFICES ASSUME IInv, pc \in {"expand", "main", "serving"}, NEW n \in Names
                 PROVE  /\ n \in Named(argv) =>
                              /\ n \in DOMAIN m_variablesMap
                              /\ \E o \in Range(argv) :
                                    o.name = n /\ o.value = m_variablesMap[n].value
                        /\ n \notin Named(argv) /\ (\E i \in Sound : file[i].name = n) =>
                              /\ n \in DOMAIN m_variablesMap
                              /\ \E i \in FileLines :
                                    file[i].name = n /\ file[i].value = m_variablesMap[n].value
                        /\ n \notin Named(argv) /\ (\A i \in FileLines : file[i].name # n) =>
                              IF n \in Defaulted
                              THEN n \in DOMAIN m_variablesMap /\ m_variablesMap[n].value = Defaults[n]
                              ELSE n \notin DOMAIN m_variablesMap
      BY DEF Precedence
    <2>1. /\ argv \in CommandLines /\ file \in ConfigFiles /\ AsAsked
          /\ Defaulted \subseteq DOMAIN m_variablesMap
      BY DEF IInv, NumbersStored
    <2>2. n \in Named(argv) <=> \E o \in Range(argv) : o.name = n
      BY <2>1, CommandLine
    <2>3. /\ \A i \in Sound : file[i] \in InForce
          /\ \A l \in InForce : \E i \in FileLines : l = file[i]
      <3>1. CASE FileLines = {}
        <4>1. file = Unreadable \/ (\E o \in Range(argv) : o.name = "config" /\ o.value = "")
              \/ DOMAIN file = {}
          BY <3>1 DEF FileLines
        <4> QED
          BY <3>1, <4>1 DEF Sound, InForce
      <3>2. CASE FileLines # {}
        <4>1. /\ file # Unreadable
              /\ ~\E o \in Range(argv) : o.name = "config" /\ o.value = ""
              /\ FileLines = DOMAIN file
          BY <3>2 DEF FileLines
        <4>2. Len(file) \in Nat /\ DOMAIN file = 1..Len(file)
          BY <2>1, <4>1, OptionsAssumption
        <4>3. InForce = {file[i] : i \in {j \in DOMAIN file : \A k \in 1..(j - 1) : ~file[k].long}}
          BY <4>1 DEF InForce
        <4>4. ASSUME NEW i \in Sound PROVE file[i] \in InForce
          <5>1. i \in DOMAIN file /\ \A k \in 1..i : ~file[k].long
            BY <4>1 DEF Sound
          <5>2. \A k \in 1..(i - 1) : ~file[k].long
            BY <4>2, <5>1
          <5> QED
            BY <4>3, <5>1, <5>2
        <4> QED
          BY <4>1, <4>3, <4>4
      <3> QED
        BY <3>1, <3>2
    <2>4. CASE n \in Named(argv)
      <3>1. n \in DOMAIN m_variablesMap /\ Wanted(n, m_variablesMap[n].value)
        BY <2>1, <2>4 DEF AsAsked
      <3> QED
        BY <2>2, <2>4, <3>1 DEF Wanted
    <2>5. CASE n \notin Named(argv) /\ \E l \in InForce : l.name = n
      <3>1. n \in DOMAIN m_variablesMap /\ Wanted(n, m_variablesMap[n].value)
        BY <2>1, <2>5 DEF AsAsked
      <3>2. PICK l \in InForce : l.name = n /\ l.value = m_variablesMap[n].value
        BY <2>2, <2>5, <3>1 DEF Wanted
      <3>3. \E i \in FileLines : file[i].name = n /\ file[i].value = m_variablesMap[n].value
        BY <2>3, <3>2
      <3> QED
        BY <2>5, <3>1, <3>3
    <2>6. CASE n \notin Named(argv) /\ ~\E l \in InForce : l.name = n
      <3>1. ~\E i \in Sound : file[i].name = n
        BY <2>3, <2>6
      <3>2. ASSUME n \in DOMAIN m_variablesMap
            PROVE  n \in Defaulted /\ Defaults[n] = m_variablesMap[n].value
        <4>1. Wanted(n, m_variablesMap[n].value)
          BY <2>1, <3>2 DEF AsAsked
        <4> QED
          BY <2>2, <2>6, <4>1 DEF Wanted
      <3> QED
        BY <2>1, <2>6, <3>1, <3>2
    <2> QED
      BY <2>4, <2>5, <2>6
  <1> QED
    BY <1>1, Invariance, PTL

\* The verbosity in the map is the verbosity that was asked for.
LEMMA VerbosityGiven ==
    ASSUME AsAsked, argv \in CommandLines
    PROVE  DOMAIN Verbosity \cap DOMAIN m_variablesMap =
              DOMAIN Verbosity \cap (Named(argv) \cup {l.name : l \in InForce})
  <1>1. ASSUME NEW v \in DOMAIN Verbosity
        PROVE  v \in DOMAIN m_variablesMap <=> v \in Named(argv) \cup {l.name : l \in InForce}
    <2>1. v \in Names /\ v \notin Defaulted
      BY OptionsAssumption DEF Names, Defaulted
    <2>2. CASE v \in DOMAIN m_variablesMap
      <3>1. Wanted(v, m_variablesMap[v].value)
        BY <2>1, <2>2 DEF AsAsked
      <3>2. (\E o \in Range(argv) : o.name = v) \/ \E l \in InForce : l.name = v
        BY <2>1, <3>1 DEF Wanted
      <3>3. (\E o \in Range(argv) : o.name = v) => v \in Named(argv)
        BY CommandLine
      <3> QED
        BY <2>2, <3>2, <3>3
    <2>3. CASE v \notin DOMAIN m_variablesMap
      BY <2>1, <2>3 DEF AsAsked
    <2> QED
      BY <2>2, <2>3
  <1> QED
    BY <1>1

\* The filter of a level passes the level's number and one of the severities, the
\* highest ones.
LEMMA FilterOfLevel ==
    ASSUME NEW level \in Nat, NEW passed, passed = installLoggerLevel(level)
    PROVE  /\ Cardinality(passed) = IF level > 5 THEN 6 ELSE level + 1
           /\ \A low \in 0..5 \ passed, high \in passed : low < high
  <1>1. PICK c \in 0..5 : c = IF level > 5 THEN 5 ELSE level
    OBVIOUS
  <1>2. passed = {severity \in 0..5 : severity >= 5 - c}
    BY <1>1 DEF installLoggerLevel
  <1>3. passed = (5 - c)..5
    BY <1>2
  <1>4. Cardinality((5 - c)..5) = c + 1
    <2>1. 5 - c \in Int /\ 5 \in Int /\ ~(5 - c > 5)
      OBVIOUS
    <2>2. Cardinality((5 - c)..5) = 5 - (5 - c) + 1
      BY <2>1, FS_Interval
    <2> QED
      BY <2>2
  <1>5. Cardinality(passed) = IF level > 5 THEN 6 ELSE level + 1
    BY <1>1, <1>3, <1>4
  <1> QED
    BY <1>3, <1>5

\* However many of -v, -vv, ... there are and wherever they are given, the longest
\* counts, and it lets its number of severities and one through
\* (options.cpp:141-146, log.cpp:26-64).
THEOREM MostVerbose == Spec => []MostVerboseCounts
  <1>1. IInv => MostVerboseCounts
    <2> SUFFICES ASSUME IInv, pc \in {"main", "serving"} PROVE MostVerboseCounts
      BY DEF MostVerboseCounts
    <2>1. AsAsked /\ argv \in CommandLines /\ filter = installLoggerLevel(LogLevel)
      BY DEF IInv
    <2> DEFINE given == DOMAIN Verbosity \cap (Named(argv) \cup {l.name : l \in InForce})
               levels == {0} \cup {Verbosity[v] : v \in given}
    <2>2. LogLevel = Max(levels)
      BY <2>1, VerbosityGiven DEF LogLevel
    <2>3. levels # {} /\ \A x \in levels : x \in 0..20
      BY OptionsAssumption
    <2>4. Max(levels) \in Nat
      <3> HIDE DEF levels
      <3>1. PICK b \in Nat : b = 20
        OBVIOUS
      <3>2. Max(levels) \in levels
        BY <2>3, <3>1, Maximum
      <3> QED
        BY <2>3, <3>2
    <2> HIDE DEF levels
    <2>5. /\ Cardinality(filter) = IF Max(levels) > 5 THEN 6 ELSE Max(levels) + 1
          /\ \A low \in 0..5 \ filter, high \in filter : low < high
      BY <2>1, <2>2, <2>4, FilterOfLevel
    <2> QED
      BY <2>5 DEF MostVerboseCounts, levels
  <1> QED
    BY <1>1, Invariance, PTL

\* A short that is not negative is the int it was made of, but for multiples of
\* 65536; one that is negative was made of an int that a port below 32768 is not.
LEMMA ToShort ==
    ASSUME NEW n \in Int
    PROVE  /\ toShort(n) >= 0 => n % Shorts = toShort(n)
           /\ toShort(n) < 0 => n \notin 0..SHRT_MAX
  BY DEF toShort, SHRT_MAX, Shorts

\* A server that comes up has the workers and, but for multiples of 65536, the
\* port that were asked for; one that does not come up has a reason in what was
\* asked for (boostcached.cpp:27-40, commandserver.h:36).
THEOREM Serves == Spec => []ServesAsAsked
  <1>1. IInv => ServesAsAsked
    <2> SUFFICES ASSUME IInv PROVE ServesAsAsked
      OBVIOUS
    <2>1. ASSUME pc \in {"serving", "crashed", "failed"}
          PROVE  /\ AsAsked /\ NumbersStored
                 /\ port = toShort(m_variablesMap["port"].value)
                 /\ workers = m_variablesMap["workers"].value
      BY <2>1 DEF IInv
    <2>2. ASSUME pc \in {"serving", "crashed", "failed"}
          PROVE  /\ port >= 0 => m_variablesMap["port"].value % Shorts = port
                 /\ port < 0 => m_variablesMap["port"].value \notin 0..SHRT_MAX
      <3>1. PICK p \in Int : p = m_variablesMap["port"].value
        BY <2>1, <2>2 DEF NumbersStored, Numbers
      <3>2. port = toShort(p)
        BY <2>1, <2>2, <3>1
      <3>3. /\ port >= 0 => p % Shorts = port
            /\ port < 0 => p \notin 0..SHRT_MAX
        BY <3>2, ToShort
      <3> QED
        BY <3>1, <3>3, Zenon
    <2>3. ASSUME pc = "serving"
          PROVE  /\ Wanted("workers", workers)
                 /\ \E p \in {m_variablesMap["port"].value} : Wanted("port", p) /\ p % Shorts = port
      <3>1. AsAsked /\ NumbersStored /\ workers = m_variablesMap["workers"].value
        BY <2>1, <2>3
      <3>2. /\ "port" \in Names /\ "port" \in DOMAIN m_variablesMap
            /\ "workers" \in Names /\ "workers" \in DOMAIN m_variablesMap
        BY <3>1, DefaultNumbers DEF NumbersStored, Numbers, Names, Defaulted
      <3>3. /\ Wanted("port", m_variablesMap["port"].value)
            /\ Wanted("workers", m_variablesMap["workers"].value)
        BY <3>1, <3>2 DEF AsAsked
      <3>4. m_variablesMap["port"].value % Shorts = port
        <4>1. port >= 0
          BY <2>3 DEF IInv
        <4>2. pc \in {"serving", "crashed", "failed"}
          BY <2>3
        <4> QED
          BY <2>2, <4>1, <4>2, Zenon
      <3> QED
        BY <3>1, <3>3, <3>4, Zenon
    <2>4. ASSUME pc \in {"crashed", "failed"}
          PROVE  \/ m_variablesMap["port"].value \notin 0..SHRT_MAX
                 \/ m_variablesMap["workers"].value \notin 1..MaxWorkers
                 \/ isGiven("fork")
      <3>1. isGiven("fork") \/ workers \notin 1..MaxWorkers \/ port < 0
        BY <2>4 DEF IInv
      <3>2. pc \in {"serving", "crashed", "failed"}
        BY <2>4
      <3> QED
        BY <2>1, <2>2, <3>1, <3>2, Zenon
    <2> QED
      BY <2>3, <2>4, Zenon DEF ServesAsAsked
  <1> QED
    BY <1>1, Invariance, PTL

============================================================================
