-------------------------- MODULE MCCommandHandler --------------------------
(* Clients of one connection: well-formed multi-bulk requests in reads of  *)
(* any size; inline, blank and malformed requests; any mixture of pieces.  *)
EXTENDS CommandHandler

x == 120
y == 121
CRLF == <<CR, LF>>

\* A number in decimal digits.
Digits(n) == IF n < 10 THEN <<ZERO + n>> ELSE <<ZERO + (n \div 10), ZERO + (n % 10)>>

Bulk(arg) == <<DOLLAR>> \o Digits(Len(arg)) \o CRLF \o arg \o CRLF

\* A command, the multi-bulk request that stands for it, and where the lines
\* with its numbers begin and end.
MultiBulk(args) ==
    LET n      == Len(args)
        header == <<STAR>> \o Digits(n) \o CRLF
        from[k \in 1..(n + 2)] == CASE k = 1 -> 1
                                    [] k = 2 -> Len(header) + 1
                                    [] OTHER -> from[k - 1] + Len(Bulk(args[k - 2]))
    IN  [wire     |-> header \o FlattenSeq([i \in DOMAIN args |-> Bulk(args[i])]),
         commands |-> <<args>>,
         from     |-> from,
         to       |-> [k \in 1..(n + 1) |->
                         from[k] + Len(Digits(IF k = 1 THEN n ELSE Len(args[k - 1]))) + 2]]

\* Arguments that look like the protocol's own syntax, and a long one.
Tricky == {<<x>>, <<DOLLAR, ZERO + 1>> \o CRLF, CRLF, <<LF>>, <<STAR, CR>>}
Long == [i \in 1..12 |-> IF i % 5 = 0 THEN LF ELSE x]

BulkRequests ==
    {MultiBulk(args) : args \in UNION {[1..n -> Tricky] : n \in 1..3} \cup {<<<<x>>, Long>>}}

Inline(wire, args) == [wire |-> wire, commands |-> <<args>>]
Nothing(wire) == [wire |-> wire, commands |-> <<>>]

\* The words of a line, put together character by character.
Words(line) ==
    FoldLeft(LAMBDA acc, c :
                IF c = SP THEN [acc EXCEPT !.inWord = FALSE]
                ELSE [inWord |-> TRUE,
                      words  |-> IF acc.inWord
                                 THEN Front(acc.words) \o <<Append(Last(acc.words), c)>>
                                 ELSE Append(acc.words, <<c>>)],
             [words |-> <<>>, inWord |-> FALSE], line).words

\* Every short line, with either line end: a blank line or one that starts with
\* a space has no command.
Lines ==
    {IF line = <<>> \/ line[1] = SP THEN Nothing(line \o eol) ELSE Inline(line \o eol, Words(line)) :
        line \in UNION {[1..n -> {x, SP}] : n \in 0..5}, eol \in {<<LF>>, CRLF}}

WholeRequests ==
    Lines \cup
    {MultiBulk(<<<<x>>, <<y, SP>>>>),
     Inline(<<x, CR, SP, DOLLAR, LF>>, <<<<x, CR>>, <<DOLLAR>>>>),
     Nothing(<<STAR>> \o CRLF),
     Nothing(<<STAR, LF>>),
     Nothing(<<STAR, ZERO>> \o CRLF),
     Nothing(<<STAR, ZERO + 1, LF>>),
     Nothing(<<STAR, ZERO + 9, ZERO + 9, ZERO + 9>> \o CRLF),
     Nothing(<<STAR, ZERO + 1>> \o CRLF \o <<DOLLAR, ZERO>> \o CRLF \o CRLF),
     Nothing(<<STAR, ZERO + 1>> \o CRLF \o <<x>> \o CRLF),
     Nothing(<<STAR, ZERO + 1>> \o CRLF \o <<DOLLAR, ZERO + 1>> \o CRLF \o <<x, y>> \o CRLF),
     Nothing(<<STAR, ZERO + 2>> \o CRLF \o Bulk(<<x>>) \o <<LF>>)}

\* Inline requests alone, for reads that cut them.
InlineRequests == {Inline(<<x, SP, y>> \o CRLF, <<<<x>>, <<y>>>>)}

\* Pieces of requests, sent in any order.  The length 127 is the largest int of
\* this instance, the count 72 ('x') more than it can always allocate.
Pieces ==
    {Nothing(p) : p \in {<<STAR, ZERO + 1>> \o CRLF, <<STAR, ZERO + 2>> \o CRLF, <<STAR>>,
                         <<STAR, x>> \o CRLF,
                         <<DOLLAR, ZERO + 1>> \o CRLF, <<DOLLAR, ZERO + 2>> \o CRLF,
                         <<DOLLAR, ZERO>> \o CRLF \o CRLF,
                         <<DOLLAR, ZERO + 1, ZERO + 2, ZERO + 7>> \o CRLF,
                         <<x>> \o CRLF, <<x>>, <<CR>>, <<LF>>}}

\* The clients: what they send, and how it is cut into reads.
MCRequests ==
    [bulk |-> BulkRequests, whole |-> WholeRequests, pieces |-> Pieces,
     inline |-> InlineRequests]
MCReadSizes ==
    [bulk |-> {1, 2, 3, 4, 7, 11, 16, 32}, whole |-> {32}, pieces |-> 1..6,
     inline |-> 1..5]

\* The client that cuts its requests sends what the protocol calls for.
ASSUME BulkIsMultiBulk == "bulk" \in Clients => "bulk" \in MultiBulkClients

=============================================================================
