------------------------ MODULE CommandHandlerProofs ------------------------
(***************************************************************************)
(* Whatever bytes a client sends, in reads of any size, and whatever the   *)
(* width of int: the parser keeps its types, its offset stays inside the   *)
(* buffer, its counters agree, and what it executes has a name.            *)
(***************************************************************************)
EXTENDS CommandHandler, FiniteSetTheorems, SequenceTheorems, WellFoundedInduction, TLAPS

(* Numbers, and functions defined by recursion on them.                    *)

\* A set of naturals that is not empty has a least element, and Min is it.
LEMMA Minimum ==
    ASSUME NEW T \in SUBSET Nat, T # {}
    PROVE  Min(T) \in T /\ \A y \in T : Min(T) <= y
  <1> DEFINE R == OpToRel(<, Nat)
  <1>1. IsWellFoundedOn(R, Nat)
    BY NatLessThanWellFounded
  <1>2. \A x, y \in Nat : <<y, x>> \in R <=> y < x
    BY DEF OpToRel
  <1> HIDE DEF R
  <1>3. PICK x \in T : \A y \in T : ~(<<y, x>> \in R)
    BY <1>1, WFMin
  <1>4. ASSUME NEW y \in T PROVE x <= y
    <2>1. ~(y < x)
      BY <1>2, <1>3
    <2> QED
      BY <2>1
  <1> QED
    BY <1>4 DEF Min

\* Induction on an interval, for a property that is a set.
LEMMA UpTo ==
    ASSUME NEW a \in Nat, NEW b \in Nat, NEW T, a \in T,
           \A i \in (a + 1)..b : i - 1 \in T => i \in T
    PROVE  a..b \subseteq T
  <1> DEFINE D == {i \in a..b : i \notin T}
  <1>1. SUFFICES ASSUME D # {} PROVE FALSE
    OBVIOUS
  <1>2. D \in SUBSET Nat
    OBVIOUS
  <1>3. PICK m \in D : \A y \in D : m <= y
    BY <1>1, <1>2, Minimum
  <1>4. m \in (a + 1)..b /\ m - 1 \in a..b /\ m - 1 \notin D
    BY <1>3
  <1> QED
    BY <1>3, <1>4

\* f is the function on a..b that recursion from base by the steps g gives.
Recursive(f, a, b, base, g) ==
    \A i \in a..b : f[i] = IF i = a THEN base ELSE g[i][f[i - 1]]

\* A function on an interval may be defined by recursion.
LEMMA Recursion ==
    ASSUME NEW a \in Nat, NEW b \in Nat, a <= b, NEW S, NEW base \in S, NEW g \in [a..b -> [S -> S]]
    PROVE  \E f \in [a..b -> S] : Recursive(f, a, b, base, g)
  <1> DEFINE T == {n \in a..b : \E f \in [a..n -> S] :
                                   \A i \in a..n : f[i] = IF i = a THEN base ELSE g[i][f[i - 1]]}
  <1>1. a \in T
    <2> DEFINE f == [i \in a..a |-> base]
    <2>1. f \in [a..a -> S] /\ \A i \in a..a : f[i] = IF i = a THEN base ELSE g[i][f[i - 1]]
      OBVIOUS
    <2> HIDE DEF f
    <2> QED
      BY <2>1
  <1>2. ASSUME NEW n \in (a + 1)..b, n - 1 \in T PROVE n \in T
    <2>1. PICK f \in [a..(n - 1) -> S] :
             \A i \in a..(n - 1) : f[i] = IF i = a THEN base ELSE g[i][f[i - 1]]
      BY <1>2
    <2> DEFINE h == [i \in a..n |-> IF i = n THEN g[n][f[n - 1]] ELSE f[i]]
    <2>2. n \in a..b /\ n - 1 \in a..(n - 1) /\ n # a
      OBVIOUS
    <2>3. g[n][f[n - 1]] \in S
      BY <2>2
    <2>4. h \in [a..n -> S]
      BY <2>3
    <2>5. ASSUME NEW i \in a..n PROVE h[i] = IF i = a THEN base ELSE g[i][h[i - 1]]
      <3>1. CASE i = n
        <4>1. h[n - 1] = f[n - 1] /\ h[n] = g[n][f[n - 1]]
          BY <2>2
        <4> QED
          BY <2>2, <3>1, <4>1
      <3>2. CASE i # n
        <4>1. i \in a..(n - 1)
          BY <3>2
        <4>2. h[i] = f[i]
          BY <3>2
        <4>3. i # a => h[i - 1] = f[i - 1]
          BY <4>1
        <4> QED
          BY <2>1, <4>1, <4>2, <4>3
      <3> QED
        BY <3>1, <3>2
    <2> HIDE DEF h
    <2> QED
      BY <2>2, <2>4, <2>5
  <1>3. b \in T
    <2> HIDE DEF T
    <2>1. a..b \subseteq T
      BY <1>1, <1>2, UpTo
    <2> QED
      BY <2>1
  <1> QED
    BY <1>3 DEF Recursive

----------------------------------------------------------------------------
(* The operators of the parser.                                            *)

\* An int computed in any way is an int.
LEMMA WrapType == \A n \in Int : Wrap(n) \in CInt
  BY ParserAssumption DEF Wrap, CInt

\* Chars and ints are numbers.
LEMMA Numbers == CInt \subseteq Int /\ Char \subseteq Int
  BY ParserAssumption DEF CInt, Char

\* memchr finds a character if there is one, and then its first position.
LEMMA Memchr ==
    ASSUME TypeOK, NEW from \in Nat \ {0}, NEW ch
    PROVE  /\ memchr(from, ch) \subseteq from..Len(m_commandString)
           /\ \A i \in memchr(from, ch) : m_commandString[i] = ch
           /\ (\E i \in from..Len(m_commandString) : m_commandString[i] = ch) => memchr(from, ch) # {}
  <1> DEFINE T == {i \in from..Len(m_commandString) : m_commandString[i] = ch}
  <1>0. Len(m_commandString) \in Nat
    BY DEF TypeOK
  <1>1. ASSUME T # {} PROVE memchr(from, ch) # {}
    <2>1. T \in SUBSET Nat
      BY <1>0
    <2>2. PICK i \in T : \A j \in T : i <= j
      BY <1>1, <2>1, Minimum
    <2>3. i \in memchr(from, ch)
      BY <1>0, <2>2 DEF memchr
    <2> QED
      BY <2>3
  <1> QED
    BY <1>1 DEF memchr

\* num is what toInt computes from begin on, up to the position b.
Reads(num, begin, b) ==
    \A i \in (begin - 1)..b :
       num[i] = IF i < begin THEN 0 ELSE Wrap(num[i - 1] * 10 + (m_commandString[i] - ZERO))

\* toInt reads no further than the first CR (commandhandler.cpp:248-262).
LEMMA ToIntReads ==
    ASSUME TypeOK, NEW begin \in Nat \ {0, 1}, NEW end \in begin..Len(m_commandString),
           m_commandString[begin - 1] # CR, m_commandString[end - 1] = CR
    PROVE  \E cr, num :
              /\ cr \in memchr(begin, CR)
              /\ Reads(num, begin, cr - 1)
              /\ \A i \in (begin - 1)..(cr - 1) : num[i] \in CInt
              /\ toInt(begin, end) = num[cr - 1]
  <1> DEFINE cr == CHOOSE i \in memchr(begin, CR) : TRUE
             W(x, i) == Wrap(x * 10 + (m_commandString[i] - ZERO))
             Is(num) == num = [i \in (begin - 1)..(cr - 1) |-> IF i < begin THEN 0 ELSE W(num[i - 1], i)]
             n == CHOOSE num : Is(num)
  <1>0. m_commandString \in Seq(Char) /\ Len(m_commandString) \in Nat /\ -1 \in CInt /\ 0 \in CInt
    BY ParserAssumption DEF TypeOK, CInt
  <1>1. cr \in memchr(begin, CR) /\ cr \in begin..Len(m_commandString)
    <2>1. end - 1 \in begin..Len(m_commandString)
      OBVIOUS
    <2>2. memchr(begin, CR) # {}
      BY <2>1, Memchr
    <2> QED
      BY <2>2, Memchr
  <1> HIDE DEF cr
  <1>2. begin - 1 \in Nat /\ cr - 1 \in Nat /\ begin - 1 <= cr - 1
    BY <1>0, <1>1
  <1>3. ASSUME NEW i \in begin..(cr - 1), NEW x \in CInt PROVE W(x, i) \in CInt
    <2>1. i \in 1..Len(m_commandString)
      BY <1>0, <1>1
    <2>2. m_commandString[i] \in Char
      BY <1>0, <2>1, LenProperties
    <2>3. m_commandString[i] \in Int /\ x \in Int
      BY <2>2, Numbers
    <2>4. x * 10 + (m_commandString[i] - ZERO) \in Int
      BY <2>3 DEF ZERO
    <2> QED
      BY <2>4, WrapType
  <1> HIDE DEF W
  <1>4. \E num : Is(num)
    <2> DEFINE a == begin - 1
               b == cr - 1
               g == [i \in a..b |-> [x \in CInt |-> IF i = a THEN 0 ELSE W(x, i)]]
    <2>1. g \in [a..b -> [CInt -> CInt]]
      BY <1>0, <1>2, <1>3
    <2>2. \A i \in a..b, x \in CInt : i # a => g[i][x] = W(x, i)
      OBVIOUS
    <2>3. a \in Nat /\ b \in Nat /\ a <= b /\ begin = a + 1
      BY <1>2
    <2> HIDE DEF g, a, b
    <2>4. PICK f \in [a..b -> CInt] : Recursive(f, a, b, 0, g)
      BY <1>0, <2>1, <2>3, Recursion
    <2>5. ASSUME NEW i \in a..b PROVE f[i] = IF i < begin THEN 0 ELSE W(f[i - 1], i)
      <3>1. CASE i = a
        BY <2>3, <2>4, <3>1 DEF Recursive
      <3>2. CASE i # a
        <4>1. i - 1 \in a..b /\ ~(i < begin)
          BY <2>3, <3>2
        <4> QED
          BY <2>2, <2>4, <3>2, <4>1 DEF Recursive
      <3> QED
        BY <3>1, <3>2
    <2>6. f = [i \in a..b |-> IF i < begin THEN 0 ELSE W(f[i - 1], i)]
      BY <2>5
    <2> QED
      BY <2>6 DEF a, b
  <1>5. Is(n)
    <2> HIDE DEF Is
    <2> QED
      BY <1>4
  <1> HIDE DEF n
  <1>6. (begin - 1)..(cr - 1) \subseteq {i \in (begin - 1)..(cr - 1) : n[i] \in CInt}
    <2> DEFINE a == begin - 1
               b == cr - 1
               T == {i \in a..b : n[i] \in CInt}
    <2>1. \A i \in a..b : n[i] = IF i < begin THEN 0 ELSE W(n[i - 1], i)
      BY <1>5
    <2>2. a \in Nat /\ b \in Nat /\ a <= b /\ begin = a + 1
      BY <1>2
    <2> HIDE DEF a, b
    <2>3. a \in T
      BY <1>0, <2>1, <2>2
    <2>4. ASSUME NEW i \in (a + 1)..b, i - 1 \in T PROVE i \in T
      <3>1. i \in begin..(cr - 1) /\ ~(i < begin) /\ i \in a..b
        BY <2>2 DEF b
      <3> QED
        BY <1>3, <2>1, <2>4, <3>1
    <2> HIDE DEF T
    <2>5. a..b \subseteq T
      BY <2>2, <2>3, <2>4, UpTo
    <2> QED
      BY <2>5 DEF T, a, b
  <1>7. toInt(begin, end) = n[cr - 1]
    BY DEF toInt, n, cr, W
  <1>8. Reads(n, begin, cr - 1)
    BY <1>5 DEF Reads, W
  <1> QED
    BY <1>1, <1>6, <1>7, <1>8

\* toInt gives an int whatever the bytes are.
LEMMA ToIntType ==
    ASSUME TypeOK, NEW begin \in Nat \ {0, 1}, NEW end \in begin..Len(m_commandString),
           m_commandString[begin - 1] # CR
    PROVE  toInt(begin, end) \in CInt
  <1>1. CASE m_commandString[end - 1] # CR
    BY <1>1, ParserAssumption DEF toInt, CInt
  <1>2. CASE m_commandString[end - 1] = CR
    <2>1. PICK cr, num :
             /\ cr \in memchr(begin, CR)
             /\ \A i \in (begin - 1)..(cr - 1) : num[i] \in CInt
             /\ toInt(begin, end) = num[cr - 1]
      BY <1>2, ToIntReads
    <2>2. cr \in begin..Len(m_commandString)
      BY <2>1, Memchr
    <2>3. cr - 1 \in (begin - 1)..(cr - 1)
      BY <2>2
    <2> QED
      BY <2>1, <2>3
  <1> QED
    BY <1>1, <1>2

\* split gives words of the buffer (commandhandler.cpp:226-246).
LEMMA SplitType ==
    ASSUME TypeOK, NEW begin \in Nat \ {0}, NEW end \in begin..Len(m_commandString), NEW delimiter
    PROVE  split(begin, end, delimiter) \in Seq(Seq(Char))
  <1> DEFINE starts == {begin} \cup {i \in (begin + 1)..(end - 1) :
                                        /\ m_commandString[i] # delimiter
                                        /\ m_commandString[i - 1] = delimiter}
             k == Cardinality(starts)
             found(i) == Min({j \in i..(end - 1) : m_commandString[j] = delimiter} \cup {end})
             After(i) == Min({j \in starts : j > i} \cup {end})
             Is(f) == f = [n \in 1..k |-> IF n = 1 THEN begin ELSE After(f[n - 1])]
             start == CHOOSE f : Is(f)
             word(i) == SubSeq(m_commandString, i, found(i) - 1)
  <1>0. m_commandString \in Seq(Char) /\ Len(m_commandString) \in Nat /\ end \in Nat
    BY DEF TypeOK
  <1>1. k \in Nat \ {0}
    <2>1. IsFiniteSet(begin..end)
      BY <1>0, FS_Interval
    <2>2. starts \in SUBSET (begin..end) /\ starts # {}
      BY <1>0
    <2> HIDE DEF starts
    <2>3. IsFiniteSet(starts)
      BY <2>1, <2>2, FS_Subset
    <2> QED
      BY <2>2, <2>3, FS_CardinalityType, FS_EmptySet
  <1>2. ASSUME NEW i \in begin..end PROVE After(i) \in begin..end
    <2> DEFINE T == {j \in starts : j > i} \cup {end}
    <2>1. T \in SUBSET Nat /\ T # {} /\ T \subseteq begin..end
      BY <1>0
    <2> HIDE DEF T
    <2>2. Min(T) \in T
      BY <2>1, Minimum
    <2> QED
      BY <2>1, <2>2 DEF T
  <1>3. ASSUME NEW i \in begin..end PROVE word(i) \in Seq(Char)
    <2> DEFINE T == {j \in i..(end - 1) : m_commandString[j] = delimiter} \cup {end}
    <2>1. T \in SUBSET Nat /\ T # {} /\ T \subseteq i..end
      BY <1>0
    <2> HIDE DEF T
    <2>2. Min(T) \in T
      BY <2>1, Minimum
    <2>3. found(i) \in i..end
      BY <2>1, <2>2 DEF T
    <2> HIDE DEF found
    <2>4. i \in Int /\ found(i) - 1 \in Int
      BY <1>0, <2>3
    <2>5. \A j \in i..(found(i) - 1) : j \in 1..Len(m_commandString)
      BY <1>0, <2>3
    <2>6. \A j \in i..(found(i) - 1) : m_commandString[j] \in Char
      BY <1>0, <2>5, LenProperties
    <2> QED
      BY <2>4, <2>6, SubSeqProperties
  <1> HIDE DEF After, word
  <1>4. \E f : Is(f)
    <2> DEFINE g == [n \in 1..k |-> [i \in begin..end |-> After(i)]]
    <2> HIDE DEF k
    <2>1. g \in [1..k -> [begin..end -> begin..end]]
      BY <1>2
    <2>2. \A n \in 1..k, i \in begin..end : g[n][i] = After(i)
      OBVIOUS
    <2> HIDE DEF g
    <2>3. 1 \in Nat /\ k \in Nat /\ 1 <= k /\ begin \in begin..end
      BY <1>0, <1>1
    <2>4. PICK f \in [1..k -> begin..end] : Recursive(f, 1, k, begin, g)
      BY <2>1, <2>3, Recursion
    <2>5. ASSUME NEW n \in 1..k PROVE f[n] = IF n = 1 THEN begin ELSE After(f[n - 1])
      <3>1. n # 1 => n - 1 \in 1..k
        BY <2>3
      <3> QED
        BY <2>2, <2>4, <3>1 DEF Recursive
    <2>6. f = [n \in 1..k |-> IF n = 1 THEN begin ELSE After(f[n - 1])]
      BY <2>5
    <2> QED
      BY <2>6
  <1>5. Is(start)
    <2> HIDE DEF Is
    <2> QED
      BY <1>4
  <1> HIDE DEF start
  <1>6. 1..k \subseteq {n \in 1..k : start[n] \in begin..end}
    <2> DEFINE T == {n \in 1..k : start[n] \in begin..end}
    <2>1. \A n \in 1..k : start[n] = IF n = 1 THEN begin ELSE After(start[n - 1])
      BY <1>5
    <2> HIDE DEF k
    <2>2. 1 \in T
      BY <1>0, <1>1, <2>1
    <2>3. ASSUME NEW n \in (1 + 1)..k, n - 1 \in T PROVE n \in T
      <3>1. n \in 1..k /\ n # 1
        BY <1>1
      <3> QED
        BY <1>2, <2>1, <2>3, <3>1
    <2> HIDE DEF T
    <2>4. 1..k \subseteq T
      BY <1>1, <2>2, <2>3, UpTo
    <2> QED
      BY <2>4 DEF T
  <1>7. split(begin, end, delimiter) = [n \in 1..k |-> word(start[n])]
    BY DEF split, word, start, After
  <1>8. \A n \in 1..k : word(start[n]) \in Seq(Char)
    BY <1>3, <1>6
  <1> HIDE DEF k
  <1> QED
    BY <1>1, <1>7, <1>8

----------------------------------------------------------------------------
(* Types and counters.                                                     *)

\* A reset leaves the parser as a new one, from any state (commandhandler.cpp:214).
LEMMA ResetInv ==
    ASSUME reset, client' \in Clients, input' \in Seq(Char), executed' \in Seq(Seq(Seq(Char)))
    PROVE  TypeOK' /\ CountersAgree'
  <1>1. -1 \in CInt
    BY ParserAssumption DEF CInt
  <1>2. TypeOK'
    BY <1>1 DEF reset, TypeOK
  <1>3. CountersAgree'
    BY DEF reset, CountersAgree
  <1> QED
    BY <1>2, <1>3

\* A line that memchr finds is inside the buffer, behind what is parsed.
LEMMA Line ==
    ASSUME TypeOK, CountersAgree, NEW lf \in memchr(Cursor, LF)
    PROVE  /\ Cursor \in Nat \ {0} /\ Cursor = m_commandOffset + 1 /\ Len(m_commandString) \in Nat
           /\ lf \in Cursor..Len(m_commandString) /\ m_commandString[lf] = LF
  <1>1. Cursor \in Nat \ {0} /\ Cursor = m_commandOffset + 1 /\ Len(m_commandString) \in Nat
    BY DEF TypeOK, Cursor
  <1> QED
    BY <1>1, Memchr

\* What is read is appended: nothing that was fed and not reset is lost.
LEMMA FeedStep ==
    ASSUME TypeOK, CountersAgree, NEW size \in ReadSizes[client], feed(size)
    PROVE  TypeOK' /\ CountersAgree'
  <1> DEFINE n == IF size <= Len(input) THEN size ELSE Len(input)
  <1>1. size \in Nat \ {0} /\ input \in Seq(Char) /\ Len(input) \in Nat \ {0} /\ m_commandString \in Seq(Char)
    BY ParserAssumption DEF TypeOK, feed
  <1>2. n \in 1..Len(input)
    BY <1>1
  <1>3. /\ m_commandString' = m_commandString \o SubSeq(input, 1, n)
        /\ input' = SubSeq(input, n + 1, Len(input))
    BY DEF feed
  <1> HIDE DEF n
  <1>4. /\ SubSeq(input, 1, n) \in Seq(Char) /\ Len(SubSeq(input, 1, n)) = n
        /\ SubSeq(input, n + 1, Len(input)) \in Seq(Char)
    <2>1. \A i \in 1..Len(input) : input[i] \in Char
      BY <1>1, LenProperties
    <2>2. \A i \in 1..n : input[i] \in Char
      BY <1>1, <1>2, <2>1
    <2>3. \A i \in (n + 1)..Len(input) : input[i] \in Char
      BY <1>1, <1>2, <2>1
    <2> QED
      BY <1>1, <1>2, <2>2, <2>3, SubSeqProperties
  <1>5. /\ m_commandString' \in Seq(Char) /\ Len(m_commandString') = Len(m_commandString) + n
        /\ Len(m_commandString) \in Nat /\ Len(m_commandString') > 0
    BY <1>1, <1>2, <1>3, <1>4, ConcatProperties
  <1>6. TypeOK'
    BY <1>3, <1>4, <1>5 DEF TypeOK, feed
  <1>7. CountersAgree'
    <2>1. m_commandString' # <<>> /\ m_commandOffset <= Len(m_commandString')
      BY <1>2, <1>5 DEF TypeOK, CountersAgree
    <2>2. /\ pc = "read" /\ pc' = IF m_numberOfArguments < 0 THEN "command" ELSE "arguments"
          /\ UNCHANGED <<m_type, m_commandOffset, m_numberOfArguments, m_numberOfArgumentsLeft, m_commandArguments>>
      BY DEF feed
    <2>3. m_numberOfArguments \in Int
      BY Numbers DEF TypeOK
    <2> QED
      BY <2>1, <2>2, <2>3 DEF CountersAgree
  <1> QED
    BY <1>6, <1>7

\* An inline command is executed with the words of its line.
LEMMA InlineStep ==
    ASSUME TypeOK, CountersAgree, parseInline
    PROVE  TypeOK' /\ CountersAgree'
  <1>0. /\ pc = "command" /\ m_numberOfArguments = -1 /\ m_numberOfArgumentsLeft = -1 /\ m_commandOffset = 0
        /\ UNCHANGED <<client, input, request, executed>>
    BY ParserAssumption DEF CountersAgree, parseInline, TypeOK, CInt
  <1>1. CASE reset
    BY <1>0, <1>1, ResetInv DEF TypeOK
  <1>2. ASSUME NEW lf \in memchr(Cursor, LF), NEW arguments,
               arguments = split(Cursor, IF lf > Cursor /\ m_commandString[lf - 1] = CR THEN lf - 1 ELSE lf, SP),
               arguments # <<>>, arguments[1] # <<>>,
               m_type' = "INLINE", m_commandOffset' = m_commandOffset + (lf - Cursor),
               m_commandArguments' = arguments, pc' = "execute",
               UNCHANGED <<m_commandString, m_numberOfArguments, m_numberOfArgumentsLeft, m_lastArgumentLength>>
        PROVE  TypeOK' /\ CountersAgree'
    <2> DEFINE end == IF lf > Cursor /\ m_commandString[lf - 1] = CR THEN lf - 1 ELSE lf
    <2>1. /\ Cursor \in Nat \ {0} /\ Cursor = m_commandOffset + 1 /\ Len(m_commandString) \in Nat
          /\ lf \in Cursor..Len(m_commandString)
      BY Line
    <2>2. end \in Cursor..Len(m_commandString)
      BY <2>1
    <2>3. arguments \in Seq(Seq(Char))
      <3> HIDE DEF end
      <3>1. split(Cursor, end, SP) \in Seq(Seq(Char))
        BY <2>1, <2>2, SplitType
      <3> QED
        BY <1>2, <3>1 DEF end
    <2>4. m_commandOffset' \in Nat /\ m_commandOffset' <= Len(m_commandString)
      BY <1>0, <1>2, <2>1
    <2>5. TypeOK'
      BY <1>0, <1>2, <2>3, <2>4 DEF TypeOK
    <2>6. CountersAgree'
      BY <1>0, <1>2, <2>4 DEF CountersAgree
    <2> QED
      BY <2>5, <2>6
  <1> QED
    BY <1>1, <1>2 DEF parseInline

\* The count of a multi-bulk request is an int that is not zero, or it is refused.
LEMMA NumberStep ==
    ASSUME TypeOK, CountersAgree, parseNumberOfArguments
    PROVE  TypeOK' /\ CountersAgree'
  <1>0. /\ pc = "command" /\ m_numberOfArguments = -1 /\ m_numberOfArgumentsLeft = -1
        /\ m_commandOffset = 0 /\ m_commandArguments = <<>> /\ m_commandString[Cursor] = STAR
        /\ UNCHANGED <<client, input, request, executed>>
    BY ParserAssumption DEF CountersAgree, parseNumberOfArguments, TypeOK, CInt
  <1>1. CASE reset
    BY <1>0, <1>1, ResetInv DEF TypeOK
  <1>2. CASE Die
    BY <1>0, <1>2 DEF TypeOK, CountersAgree, Die, parser
  <1>3. CASE /\ m_type' = "MULTI_BULK" /\ pc' = "read"
             /\ UNCHANGED <<m_commandString, m_commandOffset, m_numberOfArguments,
                            m_numberOfArgumentsLeft, m_lastArgumentLength, m_commandArguments>>
    BY <1>0, <1>3 DEF TypeOK, CountersAgree
  <1>4. ASSUME NEW lf \in memchr(Cursor, LF), NEW num, num = toInt(Cursor + 1, lf), num > 0,
               m_type' = "MULTI_BULK", m_numberOfArguments' = num, m_numberOfArgumentsLeft' = num,
               m_commandOffset' = m_commandOffset + (lf + 1 - Cursor), pc' = "arguments",
               UNCHANGED <<m_commandString, m_lastArgumentLength, m_commandArguments>>
        PROVE  TypeOK' /\ CountersAgree'
    <2>1. /\ Cursor \in Nat \ {0} /\ Cursor = m_commandOffset + 1 /\ Len(m_commandString) \in Nat
          /\ lf \in Cursor..Len(m_commandString) /\ m_commandString[lf] = LF
      BY Line
    <2>2. Cursor + 1 \in Nat \ {0, 1} /\ lf \in (Cursor + 1)..Len(m_commandString)
      BY <1>0, <2>1 DEF STAR, LF
    <2>3. num \in CInt
      BY <1>0, <1>4, <2>1, <2>2, ToIntType DEF STAR, CR
    <2>4. m_commandOffset' \in Nat /\ m_commandOffset' <= Len(m_commandString) /\ m_commandOffset' > 0
      BY <1>0, <1>4, <2>1
    <2>5. m_commandString # <<>> /\ Len(m_commandArguments) = 0 /\ num \in Int
      BY <1>0, <2>1, <2>3, Numbers
    <2>6. TypeOK'
      BY <1>0, <1>4, <2>3, <2>4 DEF TypeOK
    <2>7. CountersAgree'
      BY <1>0, <1>4, <2>4, <2>5 DEF CountersAgree
    <2> QED
      BY <2>6, <2>7
  <1> QED
    BY <1>1, <1>2, <1>3, <1>4 DEF parseNumberOfArguments

\* No argument is lost or counted twice, and none is empty.
LEMMA SaveStep ==
    ASSUME TypeOK, CountersAgree, pc = "arguments", m_numberOfArgumentsLeft # 0,
           NEW lf \in memchr(Cursor, LF), NEW length \in CInt, length > 0,
           length + 2 <= Len(m_commandString) - lf, SaveArgument(lf, length),
           UNCHANGED <<client, input, request, executed>>
    PROVE  TypeOK' /\ CountersAgree'
  <1>1. /\ Len(m_commandString) \in Nat /\ lf \in 1..Len(m_commandString) /\ length \in Nat \ {0}
        /\ m_commandString \in Seq(Char) /\ m_commandArguments \in Seq(Seq(Char))
    BY Line, Numbers DEF TypeOK
  <1> DEFINE argument == SubSeq(m_commandString, lf + 1, lf + length)
  <1>2. argument \in Seq(Char) /\ Len(argument) = length
    <2>1. \A i \in (lf + 1)..(lf + length) : i \in 1..Len(m_commandString)
      BY <1>1
    <2>2. \A i \in (lf + 1)..(lf + length) : m_commandString[i] \in Char
      BY <1>1, <2>1, LenProperties
    <2> QED
      BY <1>1, <2>2, SubSeqProperties
  <1> HIDE DEF argument
  <1>3. argument # <<>>
    BY <1>1, <1>2
  <1>4. /\ m_numberOfArguments \in Int /\ m_numberOfArguments > 0 /\ m_numberOfArguments <= INT_MAX
        /\ m_numberOfArgumentsLeft \in Nat \ {0} /\ m_numberOfArgumentsLeft <= INT_MAX
        /\ m_numberOfArguments = Len(m_commandArguments) + m_numberOfArgumentsLeft
        /\ \A i \in 1..Len(m_commandArguments) : m_commandArguments[i] # <<>>
        /\ Len(m_commandArguments) \in Nat /\ m_type = "MULTI_BULK"
    <2>1. m_numberOfArguments \in Int /\ m_numberOfArguments <= INT_MAX
      BY ParserAssumption DEF TypeOK, CInt
    <2>2. m_numberOfArguments > 0
      BY <2>1 DEF CountersAgree
    <2>3. m_numberOfArgumentsLeft \in Int /\ m_numberOfArgumentsLeft <= INT_MAX
      BY ParserAssumption DEF TypeOK, CInt
    <2> QED
      BY <1>1, <2>1, <2>2, <2>3 DEF CountersAgree
  <1>5. /\ m_commandArguments' = Append(m_commandArguments, argument)
        /\ m_numberOfArgumentsLeft' = m_numberOfArgumentsLeft - 1
        /\ m_commandOffset' = lf + length + 2
        /\ m_lastArgumentLength' = -1
        /\ UNCHANGED <<pc, m_type, m_commandString, m_numberOfArguments>>
    BY DEF SaveArgument, argument
  <1>6. /\ m_commandArguments' \in Seq(Seq(Char))
        /\ Len(m_commandArguments') = Len(m_commandArguments) + 1
        /\ \A i \in 1..Len(m_commandArguments') : m_commandArguments'[i] # <<>>
    <2>1. /\ m_commandArguments' \in Seq(Seq(Char))
          /\ Len(m_commandArguments') = Len(m_commandArguments) + 1
          /\ \A i \in 1..Len(m_commandArguments) : m_commandArguments'[i] = m_commandArguments[i]
          /\ m_commandArguments'[Len(m_commandArguments) + 1] = argument
      BY <1>1, <1>2, <1>5, AppendProperties
    <2>2. \A i \in 1..(Len(m_commandArguments) + 1) :
             i \in 1..Len(m_commandArguments) \/ i = Len(m_commandArguments) + 1
      BY <1>4
    <2>3. \A i \in 1..(Len(m_commandArguments) + 1) : m_commandArguments'[i] # <<>>
      BY <1>3, <1>4, <2>1, <2>2
    <2> QED
      BY <2>1, <2>3
  <1>7. /\ m_numberOfArgumentsLeft' \in CInt /\ m_numberOfArgumentsLeft' >= 0 /\ -1 \in CInt
        /\ m_commandOffset' \in Nat /\ m_commandOffset' > 0 /\ m_commandOffset' <= Len(m_commandString)
    BY <1>1, <1>4, <1>5, ParserAssumption DEF CInt
  <1>8. TypeOK'
    BY <1>5, <1>6, <1>7 DEF TypeOK
  <1>9. CountersAgree'
    BY <1>4, <1>5, <1>6, <1>7 DEF CountersAgree
  <1> QED
    BY <1>8, <1>9

\* Each turn of the loop of parseArguments, and its end.
LEMMA ArgumentsStep ==
    ASSUME TypeOK, CountersAgree, parseArguments
    PROVE  TypeOK' /\ CountersAgree'
  <1>0. /\ pc = "arguments" /\ UNCHANGED <<client, input, request, executed>>
        /\ m_numberOfArguments \in Int /\ m_numberOfArguments > 0
    <2>1. pc = "arguments" /\ m_numberOfArguments \in Int
      BY Numbers DEF parseArguments, TypeOK
    <2> QED
      BY <2>1 DEF CountersAgree, parseArguments
  <1>1. CASE reset
    BY <1>0, <1>1, ResetInv DEF TypeOK
  <1>2. CASE Die
    BY <1>0, <1>2 DEF TypeOK, CountersAgree, Die, parser
  <1>3. CASE m_numberOfArgumentsLeft = 0 /\ pc' = "execute" /\ UNCHANGED parser
    <2>1. /\ m_commandArguments \in Seq(Seq(Char)) /\ Len(m_commandArguments) > 0
          /\ m_commandArguments[1] # <<>>
      BY <1>0, <1>3 DEF TypeOK, CountersAgree
    <2>2. TypeOK'
      BY <1>0, <1>3 DEF TypeOK, parser
    <2>3. CountersAgree'
      BY <1>0, <1>3, <2>1 DEF CountersAgree, parser
    <2> QED
      BY <2>2, <2>3
  <1>4. ASSUME NEW length \in CInt, m_numberOfArgumentsLeft # 0, NeedMore(length)
        PROVE  TypeOK' /\ CountersAgree'
    <2>1. TypeOK'
      BY <1>0, <1>4 DEF TypeOK, NeedMore
    <2>2. m_numberOfArgumentsLeft \in Int
      BY Numbers DEF TypeOK
    <2>3. CountersAgree'
      BY <1>0, <1>4, <2>2 DEF CountersAgree, NeedMore
    <2> QED
      BY <2>1, <2>3
  <1>5. ASSUME NEW lf \in memchr(Cursor, LF), m_commandString[Cursor] = DOLLAR, m_numberOfArgumentsLeft # 0,
               NEW length, length = toInt(Cursor + 1, lf), ReadArgument(lf, length)
        PROVE  TypeOK' /\ CountersAgree'
    <2>1. /\ Cursor \in Nat \ {0} /\ lf \in Cursor..Len(m_commandString) /\ m_commandString[lf] = LF
          /\ Len(m_commandString) \in Nat
      BY Line
    <2>2. Cursor + 1 \in Nat \ {0, 1} /\ lf \in (Cursor + 1)..Len(m_commandString)
      BY <1>5, <2>1 DEF DOLLAR, LF
    <2>3. length \in CInt
      BY <1>5, <2>1, <2>2, ToIntType DEF DOLLAR, CR
    <2>4. CASE length > 0 /\ length + 2 <= Len(m_commandString) - lf /\ SaveArgument(lf, length)
      BY <1>0, <1>5, <2>3, <2>4, SaveStep
    <2> QED
      BY <1>1, <1>2, <1>4, <1>5, <2>3, <2>4 DEF ReadArgument
  <1>6. m_lastArgumentLength \in CInt
    BY DEF TypeOK
  <1> QED
    BY <1>1, <1>3, <1>4, <1>5, <1>6 DEF parseArguments

\* TypeOK and CountersAgree are inductive together.
LEMMA ParserInductive == TypeOK /\ CountersAgree /\ [Next]_vars => TypeOK' /\ CountersAgree'
  <1> SUFFICES ASSUME TypeOK, CountersAgree, [Next]_vars PROVE TypeOK' /\ CountersAgree'
    OBVIOUS
  <1>1. CASE executeCommand
    <2>1. executed' \in Seq(Seq(Seq(Char)))
      BY <1>1, AppendProperties DEF TypeOK, executeCommand
    <2> QED
      BY <1>1, <2>1, ResetInv DEF TypeOK, executeCommand
  <1>2. CASE Send
    <2>1. input' \in Seq(Char)
      BY <1>2, ParserAssumption DEF TypeOK, Send
    <2> QED
      BY <1>2, <2>1 DEF TypeOK, CountersAgree, Send, parser
  <1>3. CASE Disconnect
    BY <1>3, ResetInv DEF Disconnect
  <1>4. CASE UNCHANGED vars
    BY <1>4 DEF TypeOK, CountersAgree, vars, parser
  <1> QED
    BY <1>1, <1>2, <1>3, <1>4, FeedStep, InlineStep, NumberStep, ArgumentsStep DEF Next, Parse

\* A new handler (commandhandler.h:81-84).
LEMMA ParserInit == Init => TypeOK /\ CountersAgree
  <1> SUFFICES ASSUME Init PROVE TypeOK /\ CountersAgree
    OBVIOUS
  <1>1. -1 \in CInt
    BY ParserAssumption DEF CInt
  <1> QED
    BY <1>1 DEF Init, TypeOK, CountersAgree

\* Whatever a client sends and however int overflows, the offset stays inside the
\* buffer, the counters agree with the arguments taken, and a command that is
\* executed has a name (commandhandler.cpp:136-196).
THEOREM ParserCounters == Spec => []ParserInv
  <1>1. ParserInv <=> TypeOK /\ CountersAgree
    BY DEF ParserInv
  <1> QED
    BY <1>1, ParserInit, ParserInductive, PTL DEF Spec

----------------------------------------------------------------------------
(* Multi-bulk requests: the numbers in their lines.                        *)

AreDigits(w, from, to) == \A i \in from..to : w[i] \in ZERO..(ZERO + 9)

\* value is what the digits from..to of w stand for, and each of their beginnings.
Values(value, w, from, to) ==
    \A i \in (from - 1)..to :
       /\ value[i] \in Nat
       /\ value[i] = IF i < from THEN 0 ELSE value[i - 1] * 10 + (w[i] - ZERO)

\* Digits stand for a natural number, and so do the first of them.
LEMMA DecimalReads ==
    ASSUME NEW w, NEW from \in Nat \ {0}, NEW to \in Nat, from <= to,
           AreDigits(w, from, to)
    PROVE  \E value : Values(value, w, from, to) /\ Decimal(w, from, to) = value[to]
  <1> DEFINE W(x, i) == x * 10 + (w[i] - ZERO)
             Is(f) == f = [i \in (from - 1)..to |-> IF i < from THEN 0 ELSE W(f[i - 1], i)]
             value == CHOOSE f : Is(f)
  <1>1. ASSUME NEW i \in from..to, NEW x \in Nat PROVE W(x, i) \in Nat
    <2>1. w[i] - ZERO \in Nat
      BY DEF ZERO, AreDigits
    <2> QED
      BY <2>1
  <1>2. Decimal(w, from, to) = value[to]
    BY DEF Decimal
  <1> DEFINE a == from - 1
  <1>3. a \in Nat /\ a <= to /\ from = a + 1
    OBVIOUS
  <1> HIDE DEF W, a
  <1>4. \E f : Is(f)
    <2> DEFINE g == [i \in a..to |-> [x \in Nat |-> IF i = a THEN 0 ELSE W(x, i)]]
    <2>1. g \in [a..to -> [Nat -> Nat]]
      BY <1>1, <1>3
    <2>2. \A i \in a..to, x \in Nat : i # a => g[i][x] = W(x, i)
      OBVIOUS
    <2> HIDE DEF g
    <2>3. PICK f \in [a..to -> Nat] : Recursive(f, a, to, 0, g)
      BY <1>3, <2>1, Recursion
    <2>4. ASSUME NEW i \in a..to PROVE f[i] = IF i < from THEN 0 ELSE W(f[i - 1], i)
      <3>1. CASE i = a
        BY <1>3, <2>3, <3>1 DEF Recursive
      <3>2. CASE i # a
        <4>1. i - 1 \in a..to /\ ~(i < from)
          BY <1>3, <3>2
        <4> QED
          BY <2>2, <2>3, <3>2, <4>1 DEF Recursive
      <3> QED
        BY <3>1, <3>2
    <2>5. f = [i \in a..to |-> IF i < from THEN 0 ELSE W(f[i - 1], i)]
      BY <2>4
    <2> QED
      BY <2>5 DEF a
  <1>5. Is(value)
    <2> HIDE DEF Is
    <2> QED
      BY <1>4
  <1> HIDE DEF value
  <1>6. \A i \in a..to : value[i] = IF i < from THEN 0 ELSE W(value[i - 1], i)
    BY <1>5 DEF a
  <1>7. a..to \subseteq {i \in a..to : value[i] \in Nat}
    <2> DEFINE T == {i \in a..to : value[i] \in Nat}
    <2>1. a \in T
      BY <1>3, <1>6
    <2>2. ASSUME NEW i \in (a + 1)..to, i - 1 \in T PROVE i \in T
      <3>1. i \in from..to /\ ~(i < from) /\ i \in a..to
        BY <1>3
      <3> QED
        BY <1>1, <1>6, <2>2, <3>1
    <2> HIDE DEF T
    <2>3. a..to \subseteq T
      BY <1>3, <2>1, <2>2, UpTo
    <2> QED
      BY <2>3 DEF T
  <1> QED
    BY <1>2, <1>6, <1>7 DEF a, W, Values

\* An int that fits is not changed by the width of int.
LEMMA WrapFits == \A n \in Nat : n <= INT_MAX => Wrap(n) = n
  <1> SUFFICES ASSUME NEW n \in Nat, n <= INT_MAX PROVE Wrap(n) = n
    OBVIOUS
  <1>1. PICK m \in Nat : m = INT_MAX + 1
    BY ParserAssumption
  <1>2. n + m \in m..(2 * m - 1)
    BY <1>1, ParserAssumption
  <1>3. (n + m) % (2 * m) = n + m
    BY <1>2
  <1> QED
    BY <1>1, <1>3, ParserAssumption DEF Wrap

\* toInt gives the number of a line that is all there, if an int can hold it: no
\* part of it is more than the whole, so nothing overflows on the way.
LEMMA ToIntOfLine ==
    ASSUME TypeOK, NEW w, NEW from \in Nat \ {0}, NEW to \in Nat, to <= Len(m_commandString),
           NEW sign, sign # CR, NEW n \in Nat, n <= INT_MAX, IsNumberLine(w, from, to, sign, n),
           \A i \in 1..to : m_commandString[i] = w[i]
    PROVE  toInt(from + 1, to) = n
  <1>1. /\ from + 3 <= to /\ w[from] = sign /\ w[to - 1] = CR /\ Decimal(w, from + 1, to - 2) = n
        /\ \A i \in (from + 1)..(to - 2) : w[i] \in ZERO..(ZERO + 9)
    BY DEF IsNumberLine
  <1>2. m_commandString[from] # CR /\ m_commandString[to - 1] = CR
    BY <1>1
  <1>0. Len(m_commandString) \in Nat
    BY DEF TypeOK
  <1>3. PICK begin \in Nat \ {0, 1} : begin = from + 1
    OBVIOUS
  <1>4. to \in begin..Len(m_commandString) /\ m_commandString[begin - 1] # CR
    BY <1>0, <1>1, <1>2, <1>3
  <1>5. PICK cr, num :
           /\ cr \in memchr(begin, CR)
           /\ Reads(num, begin, cr - 1)
           /\ toInt(begin, to) = num[cr - 1]
    BY <1>2, <1>4, ToIntReads
  <1>6. cr = to - 1
    <2>1. /\ cr \in begin..Len(m_commandString) /\ m_commandString[cr] = CR
          /\ \A j \in begin..(cr - 1) : m_commandString[j] # CR
      BY <1>5 DEF memchr
    <2>2. ~(to - 1 \in begin..(cr - 1))
      BY <1>2, <2>1
    <2>3. cr <= to - 1
      BY <1>0, <1>1, <1>3, <2>1, <2>2
    <2>4. ASSUME cr # to - 1 PROVE FALSE
      <3>1. cr \in (from + 1)..(to - 2) /\ cr \in 1..to
        BY <1>0, <1>3, <2>1, <2>3, <2>4
      <3>2. w[cr] \in ZERO..(ZERO + 9) /\ w[cr] = CR
        BY <1>1, <2>1, <3>1
      <3> QED
        BY <3>2 DEF ZERO, CR
    <2> QED
      BY <2>4
  <1>7. PICK last \in Nat : last = to - 2 /\ begin <= last
    BY <1>1, <1>3
  <1>8. PICK value : Values(value, w, begin, last) /\ n = value[last]
    <2>1. Decimal(w, begin, last) = n /\ AreDigits(w, begin, last)
      BY <1>1, <1>3, <1>7 DEF AreDigits
    <2>2. begin \in Nat \ {0}
      OBVIOUS
    <2> QED
      BY <1>7, <2>1, <2>2, DecimalReads
  <1>9. /\ \A i \in (begin - 1)..last :
              /\ value[i] \in Nat
              /\ value[i] = IF i < begin THEN 0 ELSE value[i - 1] * 10 + (w[i] - ZERO)
        /\ n = value[last]
    BY <1>8 DEF Values
  <1> DEFINE a == begin - 1
  <1>10. a \in Nat /\ a <= last /\ begin = a + 1
    BY <1>7
  <1>11. \A i \in a..last : num[i] = IF i < begin THEN 0
                                     ELSE Wrap(num[i - 1] * 10 + (m_commandString[i] - ZERO))
    BY <1>5, <1>6, <1>7 DEF Reads
  <1>12. \A i \in begin..last : w[i] - ZERO \in 0..9 /\ m_commandString[i] = w[i]
    BY <1>1, <1>3, <1>7 DEF ZERO
  <1> HIDE DEF a
  <1>13. ASSUME NEW i \in a..last PROVE value[i] <= n
    <2> DEFINE m == last - a
               T == {j \in 0..m : value[last - j] <= n}
    <2>1. m \in Nat /\ 0 \in T
      BY <1>9, <1>10 DEF a
    <2>2. ASSUME NEW j \in (0 + 1)..m, j - 1 \in T PROVE j \in T
      <3>1. PICK l \in begin..last : l = last - (j - 1)
        BY <1>10
      <3>2. l \in (begin - 1)..last /\ l - 1 \in (begin - 1)..last /\ ~(l < begin) /\ l - 1 = last - j
        BY <1>10, <3>1
      <3>3. /\ value[l] = value[l - 1] * 10 + (w[l] - ZERO)
            /\ value[l] \in Nat /\ value[l - 1] \in Nat /\ value[l] <= n
        BY <1>9, <2>2, <3>1, <3>2
      <3>4. value[l - 1] <= n
        <4>1. PICK d \in 0..9 : d = w[l] - ZERO
          BY <1>12
        <4>2. PICK x, y \in Nat : x = value[l - 1] /\ y = value[l]
          BY <3>3
        <4>3. y = x * 10 + d /\ y <= n
          BY <3>3, <4>1, <4>2
        <4>4. x <= n
          BY <4>3
        <4> QED
          BY <4>2, <4>4
      <3> QED
        BY <3>2, <3>4
    <2> HIDE DEF T
    <2>3. 0..m \subseteq T
      BY <2>1, <2>2, UpTo
    <2>4. last - i \in 0..m /\ last - (last - i) = i
      BY <1>10
    <2> QED
      BY <2>3, <2>4 DEF T
  <1>14. a..last \subseteq {i \in a..last : num[i] = value[i]}
    <2> DEFINE T == {i \in a..last : num[i] = value[i]}
    <2>1. a \in T
      BY <1>9, <1>10, <1>11
    <2>2. ASSUME NEW i \in (a + 1)..last, i - 1 \in T PROVE i \in T
      <3>1. i \in begin..last /\ i \in a..last /\ ~(i < begin) /\ i \in (begin - 1)..last
        BY <1>10
      <3>2. num[i - 1] = value[i - 1]
        BY <2>2
      <3>3. num[i] = Wrap(value[i - 1] * 10 + (w[i] - ZERO))
        BY <1>11, <1>12, <3>1, <3>2
      <3>4. value[i] = value[i - 1] * 10 + (w[i] - ZERO) /\ value[i] \in Nat
        BY <1>9, <3>1
      <3>5. value[i] <= INT_MAX
        BY <1>13, <3>1, <3>4, ParserAssumption
      <3> QED
        BY <3>1, <3>3, <3>4, <3>5, WrapFits
    <2> HIDE DEF T
    <2>3. a..last \subseteq T
      BY <1>10, <2>1, <2>2, UpTo
    <2> QED
      BY <2>3 DEF T
  <1> QED
    BY <1>3, <1>5, <1>6, <1>7, <1>9, <1>10, <1>14

----------------------------------------------------------------------------
(* Multi-bulk requests: the steps of the parser.                           *)

\* The buffer is the beginning of what was sent.
LEMMA Prefix ==
    ASSUME TypeOK, NEW w, m_commandString \o input = w
    PROVE  /\ Len(m_commandString) \in Nat /\ Len(input) \in Nat
           /\ Len(w) = Len(m_commandString) + Len(input)
           /\ \A i \in 1..Len(m_commandString) : m_commandString[i] = w[i]
  <1>1. m_commandString \in Seq(Char) /\ input \in Seq(Char)
    BY DEF TypeOK
  <1> QED
    BY <1>1, ConcatProperties

\* The request that is being parsed is one of the client's.
LEMMA IsRequest ==
    ASSUME client \in MultiBulkClients, request \in Requests[client]
    PROVE  IsMultiBulk(request) /\ request.wire \in Seq(Char)
  BY ParserAssumption DEF MultiBulkClients

\* A number line that begins at the cursor: memchr finds its end, if it is there.
LEMMA NumberLine ==
    ASSUME TypeOK, CountersAgree, NEW w, m_commandString \o input = w, NEW from, from = Cursor,
           NEW to \in Nat, NEW sign, sign \in {STAR, DOLLAR}, NEW n \in Nat, n <= INT_MAX,
           IsNumberLine(w, from, to, sign, n)
    PROVE  /\ memchr(Cursor, LF) = {} => Len(m_commandString) < to
           /\ \A lf \in memchr(Cursor, LF) :
                 lf = to /\ toInt(Cursor + 1, lf) = n /\ m_commandString[Cursor] = sign
  <1>1. /\ Len(m_commandString) \in Nat
        /\ \A i \in 1..Len(m_commandString) : m_commandString[i] = w[i]
    BY Prefix
  <1>2. Cursor \in Nat \ {0}
    BY DEF Cursor, TypeOK
  <1>3. /\ from + 3 <= to /\ w[from] = sign /\ w[to - 1] = CR /\ w[to] = LF
        /\ \A i \in (from + 1)..(to - 2) : w[i] \in ZERO..(ZERO + 9)
    BY DEF IsNumberLine
  <1>4. ASSUME to <= Len(m_commandString) PROVE m_commandString[to] = LF /\ to \in Cursor..Len(m_commandString)
    BY <1>1, <1>2, <1>3, <1>4
  <1>5. memchr(Cursor, LF) = {} => Len(m_commandString) < to
    <2>1. ASSUME to <= Len(m_commandString) PROVE memchr(Cursor, LF) # {}
      <3>1. \E i \in Cursor..Len(m_commandString) : m_commandString[i] = LF
        BY <1>4, <2>1
      <3> QED
        BY <1>2, <3>1, Memchr
    <2> QED
      BY <1>1, <2>1
  <1>6. ASSUME NEW lf \in memchr(Cursor, LF)
        PROVE  lf = to /\ toInt(Cursor + 1, lf) = n /\ m_commandString[Cursor] = sign
    <2>1. /\ lf \in Cursor..Len(m_commandString) /\ m_commandString[lf] = LF
          /\ \A j \in Cursor..(lf - 1) : m_commandString[j] # LF
      BY DEF memchr
    <2>2. w[lf] = LF
      BY <1>1, <1>2, <2>1
    <2>3. ~(lf < to)
      <3>1. ASSUME lf = from PROVE FALSE
        BY <1>3, <2>2, <3>1 DEF LF, STAR, DOLLAR
      <3>2. ASSUME lf = to - 1 PROVE FALSE
        BY <1>3, <2>2, <3>2 DEF LF, CR
      <3>3. ASSUME lf \in (from + 1)..(to - 2) PROVE FALSE
        <4>1. w[lf] \in ZERO..(ZERO + 9)
          BY <1>3, <3>3
        <4> QED
          BY <2>2, <4>1 DEF LF, ZERO
      <3> QED
        BY <1>1, <1>2, <1>3, <2>1, <3>1, <3>2, <3>3
    <2>4. lf = to
      <3>1. ASSUME to < lf PROVE FALSE
        <4>1. to \in Cursor..(lf - 1) /\ to <= Len(m_commandString)
          BY <1>1, <1>2, <1>3, <2>1, <3>1
        <4> QED
          BY <1>4, <2>1, <4>1
      <3> QED
        BY <1>1, <1>2, <2>1, <2>3, <3>1
    <2>5. toInt(from + 1, to) = n
      <3>1. to <= Len(m_commandString) /\ \A i \in 1..to : m_commandString[i] = w[i]
        BY <1>1, <1>2, <2>1, <2>4
      <3>2. sign # CR
        BY DEF STAR, DOLLAR, CR
      <3> QED
        BY <1>2, <3>1, <3>2, ToIntOfLine
    <2>6. m_commandString[Cursor] = sign
      BY <1>1, <1>2, <1>3, <2>1
    <2> QED
      BY <2>4, <2>5, <2>6
  <1> QED
    BY <1>5, <1>6

\* What is fed is behind what was fed before.
LEMMA BulkFeed ==
    ASSUME TypeOK, CountersAgree, client \in MultiBulkClients, Fresh \/ Underway,
           NEW size \in ReadSizes[client], feed(size)
    PROVE  Underway'
  <1> DEFINE n == IF size <= Len(input) THEN size ELSE Len(input)
  <1>1. /\ size \in Nat \ {0} /\ input \in Seq(Char) /\ Len(input) \in Nat \ {0}
        /\ m_commandString \in Seq(Char) /\ Underway
    BY ParserAssumption DEF TypeOK, feed, Fresh
  <1>2. n \in 1..Len(input)
    BY <1>1
  <1>3. /\ m_commandString' = m_commandString \o SubSeq(input, 1, n)
        /\ input' = SubSeq(input, n + 1, Len(input))
    BY DEF feed
  <1> HIDE DEF n
  <1>4. SubSeq(input, 1, n) \in Seq(Char) /\ SubSeq(input, n + 1, Len(input)) \in Seq(Char)
    <2>1. \A i \in 1..Len(input) : input[i] \in Char
      BY <1>1, LenProperties
    <2>2. \A i \in 1..n : input[i] \in Char
      BY <1>1, <1>2, <2>1
    <2>3. \A i \in (n + 1)..Len(input) : input[i] \in Char
      BY <1>1, <1>2, <2>1
    <2> QED
      BY <1>1, <1>2, <2>2, <2>3, SubSeqProperties
  <1>5. SubSeq(input, 1, n) \o SubSeq(input, n + 1, Len(input)) = input
    <2>1. 1 \in 1..(Len(input) + 1) /\ n \in (1 - 1)..Len(input) /\ Len(input) \in n..Len(input)
      BY <1>1, <1>2
    <2>2. SubSeq(input, 1, n) \o SubSeq(input, n + 1, Len(input)) = SubSeq(input, 1, Len(input))
      BY <1>1, <2>1, ConcatAdjacentSubSeq
    <2>3. SubSeq(input, 1, Len(input)) = input
      BY <1>1, SubSeqFull
    <2> QED
      BY <2>2, <2>3
  <1>6. m_commandString' \o input' = m_commandString \o input
    <2>1. PICK a, b \in Seq(Char) : a = SubSeq(input, 1, n) /\ b = SubSeq(input, n + 1, Len(input))
      BY <1>4
    <2>2. (m_commandString \o a) \o b = m_commandString \o (a \o b)
      BY <1>1, ConcatAssociative
    <2> QED
      BY <1>3, <1>5, <2>1, <2>2
  <1>7. /\ pc = "read" /\ pc' = IF m_numberOfArguments < 0 THEN "command" ELSE "arguments"
        /\ UNCHANGED <<m_commandOffset, m_numberOfArguments, m_commandArguments, client, request, executed>>
    BY DEF feed
  <1>8. CASE InFirstLine
    <2>1. InFirstLine'
      BY <1>7, <1>8 DEF InFirstLine
    <2> QED
      BY <1>1, <1>6, <1>7, <2>1 DEF Underway
  <1>9. CASE InArguments
    <2>1. pc' = "arguments"
      <3>1. m_numberOfArguments = Len(request.commands[1])
        BY <1>9 DEF InArguments
      <3>2. Len(request.commands[1]) \in Nat
        BY <1>1, IsRequest DEF Underway, IsMultiBulk
      <3> QED
        BY <1>7, <3>1, <3>2
    <2>2. InArguments'
      BY <1>7, <1>9, <2>1 DEF InArguments
    <2> QED
      BY <1>1, <1>6, <1>7, <2>2 DEF Underway
  <1> QED
    BY <1>1, <1>8, <1>9 DEF Underway

\* A multi-bulk request is not taken for an inline one.
LEMMA BulkNotInline ==
    ASSUME TypeOK, CountersAgree, client \in MultiBulkClients, Fresh \/ Underway, pc = "command"
    PROVE  Underway /\ InFirstLine /\ Cursor = 1 /\ m_commandString[Cursor] = STAR
  <1>1. Underway /\ InFirstLine /\ m_commandString # <<>>
    BY DEF Fresh, Underway, InArguments, CountersAgree
  <1>2. Cursor = 1
    BY <1>1 DEF InFirstLine, Cursor
  <1>3. request.wire[1] = STAR
    <2>1. IsNumberLine(request.wire, 1, request.to[1], STAR, Len(request.commands[1]))
      BY <1>1, IsRequest DEF Underway, IsMultiBulk
    <2> QED
      BY <2>1 DEF IsNumberLine
  <1>4. m_commandString[1] = request.wire[1]
    <2>1. Len(m_commandString) \in Nat /\ Len(m_commandString) # 0
      BY <1>1, EmptySeq DEF TypeOK
    <2>2. 1 \in 1..Len(m_commandString)
      BY <2>1
    <2> QED
      BY <1>1, <2>2, Prefix DEF Underway
  <1> QED
    BY <1>1, <1>2, <1>3, <1>4

\* The first line is parsed when it is there, and more is read when it is not.
LEMMA BulkNumber ==
    ASSUME TypeOK, CountersAgree, client \in MultiBulkClients, Fresh \/ Underway,
           parseNumberOfArguments
    PROVE  Underway'
  <1>1. /\ pc = "command" /\ UNCHANGED <<client, input, request, executed>>
        /\ Underway /\ InFirstLine /\ Cursor = 1
    BY BulkNotInline DEF parseNumberOfArguments
  <1>2. PICK args, n : args = request.commands[1] /\ n = Len(args)
    OBVIOUS
  <1>3. /\ n \in 1..MaxReserve /\ n <= INT_MAX /\ request.to[1] \in 1..Len(request.wire)
        /\ request.from[2] = request.to[1] + 1
        /\ IsNumberLine(request.wire, 1, request.to[1], STAR, n)
    <2>1. IsMultiBulk(request)
      BY <1>1, IsRequest DEF Underway
    <2>2. /\ n \in 1..MaxReserve /\ n <= INT_MAX
          /\ request.to \in [1..(n + 1) -> 1..Len(request.wire)]
          /\ request.from[2] = request.to[1] + 1
          /\ IsNumberLine(request.wire, 1, request.to[1], STAR, n)
      BY <1>2, <2>1 DEF IsMultiBulk
    <2>3. 1 \in 1..(n + 1)
      BY <2>2, ParserAssumption
    <2> QED
      BY <2>2, <2>3
  <1>4. /\ Len(m_commandString) \in Nat /\ Len(input) \in Nat
        /\ Len(request.wire) = Len(m_commandString) + Len(input)
    BY <1>1, Prefix DEF Underway
  <1>5. /\ memchr(Cursor, LF) = {} => Len(m_commandString) < request.to[1]
        /\ \A lf \in memchr(Cursor, LF) : lf = request.to[1] /\ toInt(Cursor + 1, lf) = n
    <2>1. n \in Nat /\ request.to[1] \in Nat /\ m_commandString \o input = request.wire
      BY <1>1, <1>3, <1>4, ParserAssumption DEF Underway
    <2>2. IsNumberLine(request.wire, Cursor, request.to[1], STAR, n)
      BY <1>1, <1>3
    <2> QED
      BY <1>3, <2>1, <2>2, NumberLine
  <1>6. CASE memchr(Cursor, LF) = {}
    <2>1. /\ pc' = "read"
          /\ UNCHANGED <<m_commandString, m_commandOffset, m_numberOfArguments, m_commandArguments>>
      BY <1>6 DEF parseNumberOfArguments
    <2>2. InFirstLine'
      BY <1>1, <1>5, <1>6, <2>1 DEF InFirstLine
    <2> QED
      BY <1>1, <2>1, <2>2 DEF Underway
  <1>7. CASE memchr(Cursor, LF) # {}
    <2> DEFINE Steps(num, lf) ==
                  \/ num <= 0 /\ reset
                  \/ num > MaxReserve /\ Die
                  \/ /\ num > 0
                     /\ m_type' = "MULTI_BULK"
                     /\ m_numberOfArguments' = num
                     /\ m_numberOfArgumentsLeft' = num
                     /\ m_commandOffset' = m_commandOffset + (lf + 1 - Cursor)
                     /\ pc' = "arguments"
                     /\ UNCHANGED <<m_commandString, m_lastArgumentLength, m_commandArguments>>
    <2>0. \E lf \in memchr(Cursor, LF) : \E num \in {toInt(Cursor + 1, lf)} : Steps(num, lf)
      BY <1>7, Zenon DEF parseNumberOfArguments
    <2> HIDE DEF Steps
    <2>1. PICK lf, num : lf \in memchr(Cursor, LF) /\ num = toInt(Cursor + 1, lf) /\ Steps(num, lf)
      BY <2>0
    <2> USE DEF Steps
    <2>2. lf = request.to[1] /\ num = n
      BY <1>5, <2>1
    <2>3. ~(num <= 0) /\ ~(num > MaxReserve)
      BY <1>3, <2>2, ParserAssumption
    <2>4. /\ m_numberOfArguments' = n /\ m_commandOffset' = request.from[2] - 1 /\ pc' = "arguments"
          /\ UNCHANGED <<m_commandString, m_commandArguments>>
      <3>1. m_commandOffset = 0 /\ Cursor = 1 /\ lf \in Nat
        BY <1>1, <1>3, <1>4, <2>2 DEF InFirstLine
      <3> QED
        BY <1>3, <2>1, <2>2, <2>3, <3>1
    <2>5. Len(m_commandArguments) = 0
      BY <1>1 DEF InFirstLine
    <2>6. InArguments'
      <3>1. 0 <= n /\ 0 + 2 = 2
        BY <1>3, ParserAssumption
      <3> QED
        BY <1>1, <1>2, <2>4, <2>5, <3>1 DEF InArguments
    <2> QED
      BY <1>1, <2>4, <2>6 DEF Underway
  <1> QED
    BY <1>6, <1>7

\* Where the lines of a request begin and end.
LEMMA Layout ==
    ASSUME NEW args, NEW n, args = request.commands[1], n = Len(args), IsMultiBulk(request)
    PROVE  /\ request.commands = <<args>> /\ args \in Seq(Seq(Char)) /\ n \in 1..MaxReserve
           /\ request.from \in [1..(n + 2) -> 1..(Len(request.wire) + 1)]
           /\ request.to \in [1..(n + 1) -> 1..Len(request.wire)]
           /\ request.from[n + 2] = Len(request.wire) + 1
  BY DEF IsMultiBulk

\* The argument that is next: its line and its bytes.
LEMMA NextArgument ==
    ASSUME NEW args, NEW n, args = request.commands[1], n = Len(args), IsMultiBulk(request),
           NEW k \in Nat, k < n
    PROVE  /\ request.to[k + 2] \in 1..Len(request.wire)
           /\ IsNumberLine(request.wire, request.from[k + 2], request.to[k + 2], DOLLAR, Len(args[k + 1]))
           /\ Len(args[k + 1]) \in Nat \ {0} /\ Len(args[k + 1]) + 2 <= INT_MAX
           /\ request.from[k + 3] \in 1..(Len(request.wire) + 1)
           /\ request.from[k + 3] = request.to[k + 2] + Len(args[k + 1]) + 3
           /\ args[k + 1] = SubSeq(request.wire, request.to[k + 2] + 1, request.to[k + 2] + Len(args[k + 1]))
           /\ request.wire[request.to[k + 2] + Len(args[k + 1]) + 1] = CR
           /\ request.wire[request.to[k + 2] + Len(args[k + 1]) + 2] = LF
  <1>1. /\ n \in 1..MaxReserve /\ args \in Seq(Seq(Char))
        /\ request.from \in [1..(n + 2) -> 1..(Len(request.wire) + 1)]
        /\ request.to \in [1..(n + 1) -> 1..Len(request.wire)]
    BY DEF IsMultiBulk
  <1>2. \A i \in 1..n :
           /\ IsNumberLine(request.wire, request.from[i + 1], request.to[i + 1], DOLLAR, Len(args[i]))
           /\ Len(args[i]) > 0 /\ Len(args[i]) + 2 <= INT_MAX
           /\ request.from[i + 2] = request.to[i + 1] + Len(args[i]) + 3
           /\ args[i] = SubSeq(request.wire, request.to[i + 1] + 1, request.to[i + 1] + Len(args[i]))
           /\ request.wire[request.to[i + 1] + Len(args[i]) + 1] = CR
           /\ request.wire[request.to[i + 1] + Len(args[i]) + 2] = LF
    BY DEF IsMultiBulk
  <1>3. PICK i \in 1..n : i = k + 1
    BY <1>1, ParserAssumption
  <1>4. k + 2 = i + 1 /\ k + 3 = i + 2 /\ i + 1 \in 1..(n + 1) /\ i + 2 \in 1..(n + 2)
    BY <1>1, <1>3, ParserAssumption
  <1>5. Len(args[i]) \in Nat \ {0}
    <2>1. args[i] \in Seq(Char)
      BY <1>1, LenProperties
    <2>2. Len(args[i]) \in Nat
      BY <2>1
    <2> QED
      BY <1>2, <2>2
  <1> QED
    BY <1>1, <1>2, <1>3, <1>4, <1>5

\* An argument that is there in full is saved; more is read when it is not, and
\* the command is executed when it is complete.
LEMMA BulkArguments ==
    ASSUME TypeOK, CountersAgree, client \in MultiBulkClients, Fresh \/ Underway, parseArguments
    PROVE  Underway'
  <1>1. /\ pc = "arguments" /\ UNCHANGED <<client, input, request, executed>>
        /\ Underway /\ InArguments
    BY DEF parseArguments, Fresh, Underway, InFirstLine
  <1>2. PICK args, n, k : args = request.commands[1] /\ n = Len(args) /\ k = Len(m_commandArguments)
    OBVIOUS
  <1>3. IsMultiBulk(request) /\ m_commandString \o input = request.wire
    BY <1>1, IsRequest DEF Underway
  <1>4. /\ n \in Nat /\ n > 0 /\ k \in Nat /\ k <= n /\ m_numberOfArguments = n
        /\ m_commandArguments \in Seq(Seq(Char)) /\ m_commandOffset = request.from[k + 2] - 1
        /\ \A i \in 1..k : m_commandArguments[i] = args[i]
    <2>1. n \in 1..MaxReserve
      BY <1>2, <1>3 DEF IsMultiBulk
    <2>2. k \in Nat /\ m_commandArguments \in Seq(Seq(Char))
      BY <1>2 DEF TypeOK
    <2> QED
      BY <1>1, <1>2, <2>1, <2>2, ParserAssumption DEF InArguments
  <1>5. m_numberOfArgumentsLeft = n - k
    <2>1. m_numberOfArgumentsLeft \in Int
      BY Numbers DEF TypeOK
    <2> QED
      BY <1>2, <1>4, <2>1 DEF CountersAgree
  <1>6. /\ Len(m_commandString) \in Nat /\ Len(input) \in Nat
        /\ Len(request.wire) = Len(m_commandString) + Len(input)
        /\ \A i \in 1..Len(m_commandString) : m_commandString[i] = request.wire[i]
    BY <1>3, Prefix
  <1>7. CASE k = n
    <2>1. pc' = "execute" /\ UNCHANGED <<m_commandString, m_commandOffset, m_numberOfArguments, m_commandArguments>>
      BY <1>4, <1>5, <1>7 DEF parseArguments, parser
    <2>2. InArguments'
      BY <1>1, <1>2, <1>4, <1>7, <2>1 DEF InArguments
    <2> QED
      BY <1>1, <2>1, <2>2 DEF Underway
  <1>8. CASE k # n
    <2>1. k < n /\ m_numberOfArgumentsLeft # 0
      BY <1>4, <1>5, <1>8
    <2>2. PICK arg, to, length : arg = args[k + 1] /\ to = request.to[k + 2] /\ length = Len(arg)
      OBVIOUS
    <2>3. /\ to \in 1..Len(request.wire)
          /\ IsNumberLine(request.wire, request.from[k + 2], to, DOLLAR, length)
          /\ length \in Nat \ {0} /\ length + 2 <= INT_MAX
          /\ request.from[k + 3] = to + length + 3
          /\ arg = SubSeq(request.wire, to + 1, to + length)
          /\ request.wire[to + length + 1] = CR
          /\ request.wire[to + length + 2] = LF
      <3>1. /\ request.to[k + 2] \in 1..Len(request.wire)
            /\ IsNumberLine(request.wire, request.from[k + 2], request.to[k + 2], DOLLAR, Len(args[k + 1]))
            /\ Len(args[k + 1]) \in Nat \ {0} /\ Len(args[k + 1]) + 2 <= INT_MAX
            /\ request.from[k + 3] = request.to[k + 2] + Len(args[k + 1]) + 3
            /\ args[k + 1] = SubSeq(request.wire, request.to[k + 2] + 1, request.to[k + 2] + Len(args[k + 1]))
            /\ request.wire[request.to[k + 2] + Len(args[k + 1]) + 1] = CR
            /\ request.wire[request.to[k + 2] + Len(args[k + 1]) + 2] = LF
        <4>1. args = request.commands[1] /\ n = Len(args) /\ k \in Nat /\ k < n
          BY <1>2, <1>4, <2>1
        <4> QED
          BY ONLY <1>3, <4>1, NextArgument, Zenon
      <3> QED
        BY ONLY <2>2, <3>1, Zenon
    <2>4. to \in Nat \ {0} /\ length \in Nat \ {0} /\ length <= INT_MAX /\ INT_MAX \in Nat
      <3>1. Len(request.wire) \in Nat
        BY <1>6
      <3>2. to \in 1..Len(request.wire) /\ length \in Nat \ {0} /\ length + 2 <= INT_MAX
        BY ONLY <2>3, Zenon
      <3> QED
        BY ONLY <3>1, <3>2, ParserAssumption
    <2>5. Cursor = request.from[k + 2]
      <3>1. request.from[k + 2] \in Int
        <4>1. request.from \in [1..(n + 2) -> 1..(Len(request.wire) + 1)]
          BY ONLY <1>2, <1>3, Layout, Zenon
        <4>2. k + 2 \in 1..(n + 2)
          BY <1>4
        <4>3. Len(request.wire) \in Nat
          BY <1>6
        <4>4. request.from[k + 2] \in 1..(Len(request.wire) + 1)
          BY ONLY <4>1, <4>2, Zenon
        <4> QED
          BY ONLY <4>3, <4>4
      <3> QED
        BY <1>4, <3>1 DEF Cursor
    <2>6. /\ memchr(Cursor, LF) = {} => Len(m_commandString) < to
          /\ \A lf \in memchr(Cursor, LF) :
                lf = to /\ toInt(Cursor + 1, lf) = length /\ m_commandString[Cursor] = DOLLAR
      <3>1. IsNumberLine(request.wire, Cursor, to, DOLLAR, length) /\ length \in Nat
        BY <2>3, <2>5
      <3> QED
        BY <1>3, <2>4, <3>1, NumberLine
    <2>7. ASSUME NEW l, NeedMore(l), Len(m_commandString) < to + length + 2 PROVE Underway'
      <3>1. pc' = "read" /\ UNCHANGED <<m_commandString, m_commandOffset, m_numberOfArguments, m_commandArguments>>
        BY <2>7 DEF NeedMore
      <3>2. Len(m_commandString) < request.from[k + 3] - 1
        BY <1>6, <2>3, <2>4, <2>7
      <3>3. InArguments'
        BY <1>1, <1>2, <1>4, <2>1, <3>1, <3>2 DEF InArguments
      <3> QED
        BY <1>1, <3>1, <3>3 DEF Underway
    <2>8. CASE memchr(Cursor, LF) = {}
      <3>1. NeedMore(m_lastArgumentLength)
        BY <2>1, <2>8 DEF parseArguments
      <3>2. Len(m_commandString) < to + length + 2
        BY <1>6, <2>3, <2>4, <2>6, <2>8
      <3> QED
        BY <2>7, <3>1, <3>2
    <2>9. CASE memchr(Cursor, LF) # {}
      <3>1. ReadArgument(to, length)
        BY <2>1, <2>6, <2>9 DEF parseArguments
      <3>2. CASE length + 2 > Len(m_commandString) - to
        <4>1. NeedMore(length)
          BY <1>6, <2>3, <2>4, <3>1, <3>2 DEF ReadArgument
        <4>2. Len(m_commandString) < to + length + 2
          BY <1>6, <2>3, <2>4, <3>2
        <4> QED
          BY <2>7, <4>1, <4>2
      <3>3. CASE ~(length + 2 > Len(m_commandString) - to)
        <4>1. to + length + 2 <= Len(m_commandString)
          BY <1>6, <2>3, <2>4, <3>3
        <4>2. to + length + 1 \in 1..Len(m_commandString) /\ to + length + 2 \in 1..Len(m_commandString)
          BY <1>6, <2>3, <2>4, <4>1
        <4>3. CrLfAt(to + length + 1)
          <5>1. (to + length + 1) + 1 = to + length + 2
            BY <2>3, <2>4
          <5> QED
            BY <1>6, <2>3, <4>2, <5>1 DEF CrLfAt
        <4>4. SaveArgument(to, length)
          BY <1>6, <2>3, <2>4, <3>1, <3>3, <4>3 DEF ReadArgument
        <4>5. SubSeq(m_commandString, to + 1, to + length) = arg
          <5>1. to + 1 \in 1..Len(m_commandString) /\ to + length \in 1..Len(m_commandString)
            <6>1. Len(m_commandString) \in Nat
              BY <1>6
            <6> QED
              BY ONLY <2>4, <4>1, <6>1
          <5>2. m_commandString \in Seq(Char) /\ input \in Seq(Char)
            BY DEF TypeOK
          <5>3. SubSeq(m_commandString \o input, to + 1, to + length) = SubSeq(m_commandString, to + 1, to + length)
            BY <5>1, <5>2, SubSeqOfConcat1
          <5> QED
            BY <1>3, <2>3, <5>3
        <4>6. /\ m_commandArguments' = Append(m_commandArguments, arg)
              /\ m_commandOffset' = to + length + 2
              /\ UNCHANGED <<pc, m_commandString, m_numberOfArguments>>
          BY <4>4, <4>5 DEF SaveArgument
        <4>7. /\ Len(m_commandArguments') = k + 1
              /\ \A i \in 1..(k + 1) : m_commandArguments'[i] = args[i]
          <5>1. arg \in Seq(Char)
            <6>1. args \in Seq(Seq(Char))
              BY ONLY <1>2, <1>3, Layout, Zenon
            <6>2. k + 1 \in 1..Len(args)
              BY <1>2, <1>4, <2>1
            <6> QED
              BY <2>2, <6>1, <6>2, LenProperties
          <5>2. /\ Len(m_commandArguments') = k + 1
                /\ \A i \in 1..k : m_commandArguments'[i] = m_commandArguments[i]
                /\ m_commandArguments'[k + 1] = arg
            BY <1>2, <1>4, <4>6, <5>1, AppendProperties
          <5> QED
            BY <1>4, <2>2, <5>2
        <4>8. m_commandOffset' = request.from[(k + 1) + 2] - 1
          <5>1. (k + 1) + 2 = k + 3
            BY <1>4
          <5> QED
            BY <2>3, <2>4, <4>6, <5>1
        <4>9. InArguments'
          <5>1. k + 1 <= n
            BY <1>4, <2>1
          <5> QED
            BY <1>1, <1>2, <1>4, <4>6, <4>7, <4>8, <5>1 DEF InArguments
        <4> QED
          BY <1>1, <4>6, <4>9 DEF Underway
      <3> QED
        BY <3>2, <3>3
    <2> QED
      BY <2>8, <2>9
  <1> QED
    BY <1>7, <1>8

\* What is executed is what was sent, and all of it has been read.
LEMMA BulkExecute ==
    ASSUME TypeOK, CountersAgree, client \in MultiBulkClients, Fresh \/ Underway, executeCommand
    PROVE  Fresh'
  <1>1. /\ pc = "execute" /\ UNCHANGED <<client, input, request>> /\ reset
        /\ executed' = Append(executed, m_commandArguments)
        /\ Underway /\ InArguments
    BY DEF executeCommand, Fresh, Underway, InFirstLine
  <1>2. PICK args, n : args = request.commands[1] /\ n = Len(args)
    OBVIOUS
  <1>3. IsMultiBulk(request) /\ m_commandString \o input = request.wire /\ executed = <<>>
    BY <1>1, IsRequest DEF Underway
  <1>4. /\ request.commands = <<args>> /\ args \in Seq(Seq(Char)) /\ n \in 1..MaxReserve
        /\ request.from[n + 2] = Len(request.wire) + 1
    BY ONLY <1>2, <1>3, Layout, Zenon
  <1>5. /\ Len(m_commandArguments) = n /\ m_commandOffset = request.from[n + 2] - 1
        /\ \A i \in 1..n : m_commandArguments[i] = args[i]
    BY <1>1, <1>2 DEF InArguments
  <1>6. m_commandArguments = args
    <2>1. m_commandArguments \in Seq(Seq(Char))
      BY DEF TypeOK
    <2> QED
      BY <1>2, <1>4, <1>5, <2>1, SeqEqual
  <1>7. input = <<>>
    <2>1. Len(m_commandString) \in Nat /\ Len(input) \in Nat /\ Len(request.wire) = Len(m_commandString) + Len(input)
      BY <1>3, Prefix
    <2>2. m_commandOffset = Len(request.wire)
      BY <1>4, <1>5, <2>1
    <2>3. Len(input) = 0
      BY <2>1, <2>2 DEF CountersAgree
    <2> QED
      BY <2>3, EmptySeq DEF TypeOK
  <1>8. executed' = request.commands'
    BY <1>1, <1>3, <1>4, <1>6
  <1> QED
    BY <1>1, <1>7, <1>8 DEF reset, Fresh

\* More is read only in the middle of a request.
LEMMA BulkReads ==
    ASSUME TypeOK, client \in MultiBulkClients, Underway, pc = "read", input = <<>>
    PROVE  FALSE
  <1>1. IsMultiBulk(request) /\ m_commandString \o input = request.wire
    BY IsRequest DEF Underway
  <1>2. /\ Len(m_commandString) \in Nat /\ Len(input) = 0
        /\ Len(request.wire) = Len(m_commandString) + Len(input)
    BY <1>1, Prefix
  <1>3. PICK args, n : args = request.commands[1] /\ n = Len(args)
    OBVIOUS
  <1>4. /\ args \in Seq(Seq(Char)) /\ n \in 1..MaxReserve
        /\ request.from \in [1..(n + 2) -> 1..(Len(request.wire) + 1)]
        /\ request.to \in [1..(n + 1) -> 1..Len(request.wire)]
    BY ONLY <1>1, <1>3, Layout, Zenon
  <1>5. n \in Nat \ {0}
    BY <1>4, ParserAssumption
  <1>6. CASE InFirstLine
    <2>1. Len(m_commandString) < request.to[1]
      BY <1>6 DEF InFirstLine
    <2>2. request.to[1] \in 1..Len(request.wire)
      BY <1>4, <1>5
    <2> QED
      BY ONLY <1>2, <2>1, <2>2
  <1>7. CASE InArguments
    <2>1. PICK k : k = Len(m_commandArguments)
      OBVIOUS
    <2>2. k < n /\ Len(m_commandString) < request.from[k + 3] - 1
      BY <1>3, <1>7, <2>1 DEF InArguments
    <2>3. k \in Nat
      BY <2>1 DEF TypeOK
    <2>4. k + 3 \in 1..(n + 2)
      BY ONLY <1>5, <2>2, <2>3
    <2>5. request.from[k + 3] \in 1..(Len(request.wire) + 1)
      BY ONLY <1>4, <2>4, Zenon
    <2> QED
      BY ONLY <1>2, <2>2, <2>5
  <1> QED
    BY <1>6, <1>7 DEF Underway

\* The next request is sent only when the last one has been executed.
LEMMA BulkSend ==
    ASSUME TypeOK, CountersAgree, client \in MultiBulkClients, Fresh \/ Underway, Send
    PROVE  Underway'
  <1>1. /\ pc = "read" /\ input = <<>> /\ executed' = <<>>
        /\ \E r \in Requests[client] : request' = r /\ input' = r.wire
        /\ UNCHANGED <<pc, parser, client>>
    BY DEF Send
  <1>2. ~Underway
    BY <1>1, BulkReads
  <1>3. PICK r \in Requests[client] : request' = r /\ input' = r.wire
    BY <1>1
  <1>4. IsMultiBulk(r) /\ r.wire \in Seq(Char)
    BY ParserAssumption DEF MultiBulkClients
  <1>5. /\ m_commandString' = <<>> /\ m_commandOffset' = 0 /\ pc' = "read" /\ client' = client
        /\ m_numberOfArguments' = -1 /\ m_commandArguments' = <<>>
    BY <1>1, <1>2 DEF Fresh, parser
  <1>6. m_commandString' \o input' = request'.wire
    BY <1>3, <1>4, <1>5, ConcatEmptySeq
  <1>7. InFirstLine'
    <2>1. r.to[1] \in Nat \ {0}
      <3>1. PICK n : n = Len(r.commands[1])
        OBVIOUS
      <3>2. n \in 1..MaxReserve /\ r.to \in [1..(n + 1) -> 1..Len(r.wire)]
        BY <1>4, <3>1 DEF IsMultiBulk
      <3>3. 1 \in 1..(n + 1)
        BY <3>2, ParserAssumption
      <3>4. r.to[1] \in 1..Len(r.wire)
        BY ONLY <3>2, <3>3, Zenon
      <3>5. Len(r.wire) \in Nat
        BY <1>4
      <3> QED
        BY ONLY <3>4, <3>5
    <2>2. Len(<<>>) = 0
      OBVIOUS
    <2> QED
      BY <1>3, <1>5, <2>1, <2>2 DEF InFirstLine
  <1> QED
    BY <1>1, <1>3, <1>5, <1>6, <1>7 DEF Underway

\* MultiBulkInv is preserved by every step, for it follows from it and from what
\* holds of every client.
LEMMA BulkInductive ==
    TypeOK /\ CountersAgree /\ MultiBulkInv /\ [Next]_vars => MultiBulkInv'
  <1> SUFFICES ASSUME TypeOK, CountersAgree, MultiBulkInv, [Next]_vars, client' \in MultiBulkClients
               PROVE  Fresh' \/ Underway'
    BY DEF MultiBulkInv
  <1>1. CASE Disconnect
    BY <1>1 DEF Disconnect, reset, NoRequest, Fresh
  <1>2. CASE UNCHANGED vars
    <2>1. Fresh \/ Underway
      BY <1>2 DEF MultiBulkInv, vars
    <2> QED
      BY <1>2, <2>1 DEF vars, parser, Fresh, Underway, InFirstLine, InArguments
  <1>3. ASSUME NEW size \in ReadSizes[client], feed(size) PROVE Underway'
    <2>1. client' = client
      BY <1>3 DEF feed
    <2> QED
      BY <1>3, <2>1, BulkFeed DEF MultiBulkInv
  <1>4. CASE parseInline
    <2>1. client' = client /\ pc = "command" /\ m_commandString[Cursor] # STAR
      BY <1>4 DEF parseInline
    <2> QED
      BY <2>1, BulkNotInline DEF MultiBulkInv
  <1>5. CASE parseNumberOfArguments
    <2>1. client' = client
      BY <1>5 DEF parseNumberOfArguments
    <2> QED
      BY <1>5, <2>1, BulkNumber DEF MultiBulkInv
  <1>6. CASE parseArguments
    <2>1. client' = client
      BY <1>6 DEF parseArguments
    <2> QED
      BY <1>6, <2>1, BulkArguments DEF MultiBulkInv
  <1>7. CASE executeCommand
    <2>1. client' = client
      BY <1>7 DEF executeCommand
    <2> QED
      BY <1>7, <2>1, BulkExecute DEF MultiBulkInv
  <1>8. CASE Send
    <2>1. client' = client
      BY <1>8 DEF Send
    <2> QED
      BY <1>8, <2>1, BulkSend DEF MultiBulkInv
  <1> QED
    BY <1>1, <1>2, <1>3, <1>4, <1>5, <1>6, <1>7, <1>8 DEF Next, Parse

\* However a multi-bulk request without empty arguments is cut into reads, the
\* parser is at one place of it, with nothing lost and nothing executed, or it has
\* executed it and is as new (CommandHandler::feedAndParseCommand, commandhandler.cpp:42-196).
THEOREM MultiBulkHolds == Spec => []MultiBulkInv
  <1>1. Init => MultiBulkInv
    BY DEF Init, NoRequest, MultiBulkInv, Fresh
  <1>2. ParserInv => TypeOK /\ CountersAgree
    BY DEF ParserInv
  <1> QED
    BY <1>1, <1>2, BulkInductive, ParserCounters, PTL DEF Spec

\* Where the clients that send whole requests send multi-bulk ones, none of them
\* with an empty argument, each request is executed once, with the arguments that
\* were sent, and nothing else is, whatever the requests, their number and the
\* sizes of the reads (executeCommand, commandhandler.cpp:177-196).
THEOREM MultiBulkExecuted ==
    ASSUME Whole \subseteq MultiBulkClients
    PROVE  Spec => []ExecutesWhatWasSent
  <1>1. TypeOK /\ CountersAgree /\ MultiBulkInv => ExecutesWhatWasSent
    <2> SUFFICES ASSUME TypeOK, CountersAgree, Fresh \/ Underway, client \in Whole, client \in MultiBulkClients
                 PROVE  /\ IsPrefix(executed, request.commands)
                        /\ pc = "read" /\ input = <<>> =>
                              executed = request.commands /\ m_commandString = <<>>
      BY DEF ExecutesWhatWasSent, MultiBulkInv
    <2>1. CASE Fresh
      <3>1. executed = request.commands /\ m_commandString = <<>>
        BY <2>1 DEF Fresh
      <3>2. executed \in Seq(Seq(Seq(Char)))
        BY DEF TypeOK
      <3>3. IsPrefix(executed, executed)
        BY <3>2 DEF IsPrefix
      <3> QED
        BY <3>1, <3>3
    <2>2. CASE Underway
      <3>1. executed = <<>> /\ request.commands = <<request.commands[1]>>
        BY <2>2, IsRequest DEF Underway, IsMultiBulk
      <3>2. IsPrefix(<<>>, <<request.commands[1]>>)
        BY DEF IsPrefix
      <3>3. ~(pc = "read" /\ input = <<>>)
        BY <2>2, BulkReads
      <3> QED
        BY <3>1, <3>2, <3>3
    <2> QED
      BY <2>1, <2>2
  <1>2. ParserInv => TypeOK /\ CountersAgree
    BY DEF ParserInv
  <1> QED
    BY <1>1, <1>2, MultiBulkHolds, ParserCounters, PTL

\* Under the same hypothesis, in the middle of a request what was fed of it is
\* still there for the next call of feedAndParseCommand to complete
\* (commandhandler.h:91-94).
THEOREM MultiBulkKept ==
    ASSUME Whole \subseteq MultiBulkClients
    PROVE  Spec => []FedBytesKept
  <1>1. MultiBulkInv => FedBytesKept
    BY DEF MultiBulkInv, FedBytesKept, Fresh, Underway
  <1> QED
    BY <1>1, MultiBulkHolds, PTL

=============================================================================
