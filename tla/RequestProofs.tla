---------------------------- MODULE RequestProofs ----------------------------
(***************************************************************************)
(* Proofs about the parser and the router, for every text and every list   *)
(* of routes: what a read leaves of the parser, that the cuts of a request *)
(* into reads do not matter, that the parser says good of the complete     *)
(* requests and of nothing else, with the parts that are written in them,  *)
(* that it stays undecided only where a request can still come, that the   *)
(* tree of the routes is their list, and that the loop over the headers    *)
(* takes what they say.                                                    *)
(***************************************************************************)
EXTENDS RequestHeaders, Router, TextsProofs

-----------------------------------------------------------------------------
(* consume *)

States == {"method_start", "method", "uri", "http_version_h", "http_version_t_1",
    "http_version_t_2", "http_version_p", "http_version_slash",
    "http_version_major_start", "http_version_major", "http_version_minor_start",
    "http_version_minor", "expecting_newline_1", "header_line_start", "header_lws",
    "header_name", "space_before_header_value", "header_value", "expecting_newline_2",
    "expecting_newline_3"}

Results == {"indeterminate", "good", "bad"}

Parsers == [state : States, result : Results, at : Nat, method : Seq(Chars),
            uri : Seq(Chars), headers : Seq([name : Seq(Chars), value : Seq(Chars)])]

\* The states in which consume uses headers.back()
InHeader == {"header_lws", "header_name", "space_before_header_value", "header_value"}

\* A parser that can be: within a header there is one.
Sound == {p \in Parsers : p.state \in InHeader => p.headers # <<>>}

LEMMA MovesOf ==
    ASSUME NEW p
    PROVE  /\ p.state \in DOMAIN MethodMoves => Moves(p) = MethodMoves[p.state]
           /\ p.state \in DOMAIN VersionMoves => Moves(p) = VersionMoves[p.state]
           /\ p.state \in DOMAIN HeaderMoves(TRUE) =>
                    Moves(p) = HeaderMoves(p.headers # <<>>)[p.state]
BY DEF Moves, MethodMoves, VersionMoves, HeaderMoves

\* Where a character leads
LEMMA Follows ==
    ASSUME NEW p, p.state \in States, NEW c
    PROVE  LET to == Follow(p, c) IN
           /\ to \in States \cup {"good", "bad"}
           /\ to \in InHeader => \/ p.state \in InHeader
                                 \/ p.state = "header_line_start" /\ to = "header_name"
                                 \/ p.state = "header_line_start" /\ p.headers # <<>>
<1> DEFINE Fine(to) ==
           /\ to \in States \cup {"good"}
           /\ to \in InHeader => \/ p.state \in InHeader
                                 \/ p.state = "header_line_start" /\ to = "header_name"
                                 \/ p.state = "header_line_start" /\ p.headers # <<>>
<1>1. \A m \in Moves(p) : c \in m[1] => Fine(m[2])
    <2>1. CASE p.state \in DOMAIN MethodMoves
        <3>1. Moves(p) = MethodMoves[p.state]
            BY <2>1, MovesOf
        <3> QED
            BY <2>1, <3>1 DEF MethodMoves, States, InHeader
    <2>2. CASE p.state \in DOMAIN VersionMoves
        <3>1. Moves(p) = VersionMoves[p.state]
            BY <2>2, MovesOf
        <3>2. CASE p.state \in {"http_version_h", "http_version_t_1", "http_version_t_2",
                    "http_version_p", "http_version_slash"}
            BY <3>1, <3>2 DEF VersionMoves, States, InHeader
        <3>3. CASE p.state \in {"http_version_major_start", "http_version_major",
                    "http_version_minor_start", "http_version_minor", "expecting_newline_1"}
            BY <3>1, <3>3 DEF VersionMoves, States, InHeader
        <3> QED
            BY <2>2, <3>2, <3>3 DEF VersionMoves
    <2>3. CASE p.state \in DOMAIN HeaderMoves(TRUE)
        <3>1. Moves(p) = HeaderMoves(p.headers # <<>>)[p.state]
            BY <2>3, MovesOf
        <3>2. CASE p.state = "header_line_start"
            BY <3>1, <3>2 DEF HeaderMoves, States, InHeader
        <3>3. CASE p.state \in {"header_lws", "header_name"}
            BY <3>1, <3>3 DEF HeaderMoves, States, InHeader
        <3>4. CASE p.state \in {"space_before_header_value", "header_value"}
            BY <3>1, <3>4 DEF HeaderMoves, States, InHeader
        <3>5. CASE p.state \in {"expecting_newline_2", "expecting_newline_3"}
            BY <3>1, <3>5 DEF HeaderMoves, States, InHeader
        <3> QED
            BY <2>3, <3>2, <3>3, <3>4, <3>5 DEF HeaderMoves
    <2> QED
        BY <2>1, <2>2, <2>3 DEF MethodMoves, VersionMoves, HeaderMoves, States
<1> HIDE DEF Fine
<1>2. Follow(p, c) = "bad" \/ Fine(Follow(p, c))
    BY <1>1 DEF Follow
<1> QED
    BY <1>2 DEF Fine, InHeader


LEMMA PushHeaderType ==
    ASSUME NEW p \in Sound, NEW c \in Chars, NEW to,
           to \in InHeader => \/ p.state \in InHeader
                              \/ p.state = "header_line_start" /\ to = "header_name"
                              \/ p.state = "header_line_start" /\ p.headers # <<>>
    PROVE  /\ PushHeader(p, c, to) \in Seq([name : Seq(Chars), value : Seq(Chars)])
           /\ to \in InHeader => PushHeader(p, c, to) # <<>>
<1> DEFINE H == [name : Seq(Chars), value : Seq(Chars)]
           hs == p.headers
           last == Len(hs)
           push == PushHeader(p, c, to)
<1>1. hs \in Seq(H) /\ (p.state \in InHeader => hs # <<>>)
    BY DEF Sound, Parsers
<1>2. ASSUME hs # <<>>
      PROVE  /\ last \in 1 .. Len(hs)
             /\ [hs[last] EXCEPT !.name = Append(@, c)] \in H
             /\ [hs[last] EXCEPT !.value = Append(@, c)] \in H
    <2>1. last \in 1 .. Len(hs) /\ hs[last] \in H
        <3> HIDE DEF H, hs
        <3>1. Len(hs) \in Nat \ {0}
            BY <1>1, <1>2, EmptySeq
        <3> QED
            BY <1>1, <3>1, ElementOfSeq
    <2>2. Append(hs[last].name, c) \in Seq(Chars) /\ Append(hs[last].value, c) \in Seq(Chars)
        BY <2>1, AppendProperties
    <2> QED
        BY <2>1, <2>2
<1>3. CASE to = "header_name" /\ p.state = "header_line_start"
    <2>1. push = Append(hs, [name |-> <<c>>, value |-> <<>>])
        BY <1>3 DEF PushHeader
    <2>2. [name |-> <<c>>, value |-> <<>>] \in H
        OBVIOUS
    <2> HIDE DEF H, hs, push
    <2> QED
        BY <1>1, <2>1, <2>2, AppendProperties DEF H, push
<1>4. CASE to = "header_name" /\ p.state # "header_line_start"
    <2>1. push = [hs EXCEPT ![last] = [hs[last] EXCEPT !.name = Append(@, c)]]
        BY <1>4 DEF PushHeader
    <2>2. hs # <<>>
        BY <1>1, <1>4 DEF InHeader
    <2> HIDE DEF H, hs, push
    <2>3. push \in Seq(H) /\ Len(push) = Len(hs)
        BY <1>1, <1>2, <2>1, <2>2, ExceptSeq
    <2>4. push # <<>>
        BY <1>1, <2>2, <2>3
    <2> QED
        BY <2>3, <2>4 DEF H, push
<1>5. CASE to = "header_value" /\ p.state # "space_before_header_value"
    <2>1. push = [hs EXCEPT ![last] = [hs[last] EXCEPT !.value = Append(@, c)]]
        BY <1>5 DEF PushHeader
    <2>2. hs # <<>>
        BY <1>1, <1>5 DEF InHeader
    <2> HIDE DEF H, hs, push
    <2>3. push \in Seq(H) /\ Len(push) = Len(hs)
        BY <1>1, <1>2, <2>1, <2>2, ExceptSeq
    <2>4. push # <<>>
        BY <1>1, <2>2, <2>3
    <2> QED
        BY <2>3, <2>4 DEF H, push
<1>6. CASE /\ to # "header_name"
           /\ to = "header_value" => p.state = "space_before_header_value"
    <2>1. push = hs
        BY <1>6 DEF PushHeader
    <2> QED
        BY <1>1, <1>6, <2>1 DEF InHeader
<1> QED
    BY <1>3, <1>4, <1>5, <1>6

\* consume keeps a parser sound, and counts what it takes.
LEMMA ConsumeSound ==
    ASSUME NEW p \in Sound, NEW c \in Chars
    PROVE  /\ Consume(p, c) \in Sound
           /\ p.result # "indeterminate" => Consume(p, c) = p
           /\ p.result = "indeterminate" => Consume(p, c).at = p.at + 1
<1> DEFINE to == Follow(p, c)
           ends == to \in {"good", "bad"}
           push == PushHeader(p, c, to)
           q == [state |-> IF ends THEN p.state ELSE to,
                 result |-> IF ends THEN to ELSE "indeterminate",
                 at |-> p.at + 1,
                 method |-> IF to = "method" THEN Append(p.method, c) ELSE p.method,
                 uri |-> IF to = "uri" /\ p.state = "uri" THEN Append(p.uri, c) ELSE p.uri,
                 headers |-> push]
<1>1. Consume(p, c) = IF p.result # "indeterminate" THEN p ELSE q
    BY DEF Consume
<1>2. p \in Parsers /\ (p.state \in InHeader => p.headers # <<>>)
    BY DEF Sound
<1>3. /\ to \in States \cup {"good", "bad"}
      /\ to \in InHeader => \/ p.state \in InHeader
                            \/ p.state = "header_line_start" /\ to = "header_name"
                            \/ p.state = "header_line_start" /\ p.headers # <<>>
    BY <1>2, Follows DEF Parsers
<1>4. /\ push \in Seq([name : Seq(Chars), value : Seq(Chars)])
      /\ to \in InHeader => push # <<>>
      /\ PushHeader(p, c, "bad") = p.headers /\ PushHeader(p, c, "good") = p.headers
    BY <1>3, PushHeaderType DEF PushHeader
<1>5. Append(p.method, c) \in Seq(Chars) /\ Append(p.uri, c) \in Seq(Chars)
    BY <1>2, AppendProperties DEF Parsers
<1>6. p.state \in States /\ p.at \in Nat /\ p.method \in Seq(Chars) /\ p.uri \in Seq(Chars)
    BY <1>2 DEF Parsers
<1>7. q.state \in InHeader => push # <<>>
    BY <1>2, <1>4
<1> HIDE DEF to, push
<1>8. q \in Parsers
    BY <1>3, <1>4, <1>5, <1>6 DEF Parsers, Results
<1>9. q \in Sound
    BY <1>7, <1>8 DEF Sound
<1> QED
    BY <1>1, <1>9

-----------------------------------------------------------------------------
(* parse *)

\* The parser after the first n characters, for each n
ParseSteps(p, s, f) ==
    /\ f[0] = [p EXCEPT !.result = "indeterminate"]
    /\ \A n \in 1 .. Len(s) : f[n] = Consume(f[n - 1], s[n])

LEMMA RestartSound ==
    ASSUME NEW p \in Sound
    PROVE  [p EXCEPT !.result = "indeterminate"] \in Sound
<1> DEFINE q == [p EXCEPT !.result = "indeterminate"]
<1>1. p \in Parsers /\ (p.state \in InHeader => p.headers # <<>>)
    BY DEF Sound
<1>2. q \in Parsers /\ q.state = p.state /\ q.headers = p.headers
    BY <1>1 DEF Parsers, Results
<1> QED
    BY <1>1, <1>2 DEF Sound

LEMMA ParseExists ==
    ASSUME NEW p \in Sound, NEW s \in Seq(Chars)
    PROVE  \E f : /\ ParseSteps(p, s, f) /\ Parse(p, s) = f[Len(s)]
                  /\ \A n \in 0 .. Len(s) : f[n] \in Sound
<1> DEFINE N == Len(s)
           first == [p EXCEPT !.result = "indeterminate"]
           g == [z \in Sound \X (1 .. N) |-> Consume(z[1], s[z[2]])]
           Is(f) == f = [n \in 0 .. N |-> IF n = 0 THEN first ELSE Consume(f[n - 1], s[n])]
           h == CHOOSE f : Is(f)
<1>1. first \in Sound /\ N \in Nat
    BY RestartSound
<1>2. StaysIn(Sound, N, g)
    <2>1. ASSUME NEW z \in Sound \X (1 .. N) PROVE Consume(z[1], s[z[2]]) \in Sound
        <3>1. z[1] \in Sound /\ s[z[2]] \in Chars
            OBVIOUS
        <3> QED
            BY <3>1, ConsumeSound
    <2> QED
        BY <2>1 DEF StaysIn
<1>3. \A q \in Sound, n \in 1 .. N : g[<<q, n>>] = Consume(q, s[n])
    OBVIOUS
<1> HIDE DEF g
<1>4. PICK f : Takes(Sound, first, N, g, f)
    <2> HIDE DEF first, N
    <2> QED
        BY <1>1, <1>2, Recursion
<1>5. f \in [0 .. N -> Sound] /\ f[0] = first /\ \A n \in 1 .. N : f[n] = Consume(f[n - 1], s[n])
    <2>1. \A n \in 1 .. N : f[n - 1] \in Sound
        BY <1>1, <1>4 DEF Takes
    <2> QED
        BY <1>3, <1>4, <2>1 DEF Takes
<1>6. Is(f)
    <2> HIDE DEF first
    <2>1. f = [n \in 0 .. N |-> f[n]]
        BY <1>5
    <2>2. \A n \in 0 .. N : f[n] = IF n = 0 THEN first ELSE Consume(f[n - 1], s[n])
        BY <1>1, <1>5
    <2> QED
        BY <2>1, <2>2
<1>7. Is(h)
    BY <1>6
<1>8. Parse(p, s) = h[N]
    BY DEF Parse
<1> HIDE DEF h, first
<1>9. h[0] = first /\ \A n \in 1 .. N : h[n] = Consume(h[n - 1], s[n])
    BY <1>1, <1>7
<1> HIDE DEF N, Is
<1> DEFINE P == {n \in 0 .. N : h[n] = f[n]}
<1>10. 0 \in P /\ \A n \in 1 .. N : n - 1 \in P => n \in P
    BY <1>1, <1>5, <1>9
<1>11. 0 .. N \subseteq P
    <2> HIDE DEF P
    <2> QED
        BY <1>1, <1>10, UpTo
<1>12. ParseSteps(p, s, h)
    BY <1>9 DEF ParseSteps, N, first
<1>13. \A n \in 0 .. N : h[n] \in Sound
    BY <1>5, <1>11
<1> QED
    BY <1>8, <1>12, <1>13 DEF N

LEMMA ParseSound ==
    ASSUME NEW p \in Sound, NEW s \in Seq(Chars)
    PROVE  Parse(p, s) \in Sound
BY ParseExists

LEMMA ParseEmpty ==
    ASSUME NEW p \in Sound
    PROVE  Parse(p, <<>>) = [p EXCEPT !.result = "indeterminate"]
<1>1. <<>> \in Seq(Chars) /\ Len(<<>>) = 0
    OBVIOUS
<1>2. PICK f : ParseSteps(p, <<>>, f) /\ Parse(p, <<>>) = f[Len(<<>>)]
    BY <1>1, ParseExists
<1> QED
    BY <1>1, <1>2 DEF ParseSteps

LEMMA ParseAppend ==
    ASSUME NEW p \in Sound, NEW s \in Seq(Chars), NEW x \in Chars
    PROVE  Parse(p, Append(s, x)) = Consume(Parse(p, s), x)
<1> DEFINE t == Append(s, x)
<1>1. t \in Seq(Chars) /\ Len(t) = Len(s) + 1 /\ t[Len(t)] = x
      /\ \A n \in 1 .. Len(s) : t[n] = s[n]
    OBVIOUS
<1> HIDE DEF t
<1>2. PICK f : ParseSteps(p, s, f) /\ Parse(p, s) = f[Len(s)]
    BY ParseExists
<1>3. PICK h : ParseSteps(p, t, h) /\ Parse(p, t) = h[Len(t)]
    BY <1>1, ParseExists
<1> DEFINE P == {n \in 0 .. Len(s) : h[n] = f[n]}
<1>4. 0 \in P /\ \A n \in 1 .. Len(s) : n - 1 \in P => n \in P
    BY <1>1, <1>2, <1>3 DEF ParseSteps
<1>5. h[Len(s)] = f[Len(s)]
    <2> HIDE DEF P
    <2>1. Len(s) \in Nat
        OBVIOUS
    <2>2. 0 .. Len(s) \subseteq P
        BY <1>4, <2>1, UpTo
    <2> QED
        BY <2>1, <2>2 DEF P
<1>6. h[Len(t)] = Consume(h[Len(t) - 1], t[Len(t)])
    <2>1. Len(t) \in 1 .. Len(t)
        BY <1>1
    <2> QED
        BY <1>3, <2>1 DEF ParseSteps
<1> QED
    BY <1>1, <1>2, <1>3, <1>5, <1>6 DEF t

-----------------------------------------------------------------------------
(* Requests cut into reads *)

LEMMA NewParserSound == NewParser \in Sound
BY DEF NewParser, Sound, Parsers, States, Results, InHeader

\* After a part that leaves the parser undecided, the next read is parsed as if
\* it had come with that part.
LEMMA ParseOnwards ==
    ASSUME NEW p \in Sound, NEW s \in Seq(Chars), NEW r \in Seq(Chars),
           Parse(p, s).result = "indeterminate"
    PROVE  Parse(Parse(p, s), r) = Parse(p, s \o r)
<1> DEFINE q == Parse(p, s)
           P == {u \in Seq(Chars) : Parse(q, u) = Parse(p, s \o u)}
<1>1. q \in Sound /\ q.result = "indeterminate"
    BY ParseSound
<1> HIDE DEF q
<1>2. <<>> \in P
    <2>1. [q EXCEPT !.result = "indeterminate"] = q
        BY <1>1 DEF Sound, Parsers
    <2>2. s \o <<>> = s
        BY ConcatEmptySeq
    <2>3. <<>> \in Seq(Chars)
        OBVIOUS
    <2> QED
        BY <1>1, <2>1, <2>2, <2>3, ParseEmpty DEF q
<1>3. ASSUME NEW u \in Seq(Chars), NEW x \in Chars, u \in P PROVE Append(u, x) \in P
    <2>1. s \o u \in Seq(Chars) /\ s \o Append(u, x) = Append(s \o u, x)
        OBVIOUS
    <2>2. Parse(q, Append(u, x)) = Consume(Parse(q, u), x)
        BY <1>1, ParseAppend
    <2>3. Parse(p, Append(s \o u, x)) = Consume(Parse(p, s \o u), x)
        BY <2>1, ParseAppend
    <2>4. Append(u, x) \in Seq(Chars)
        OBVIOUS
    <2> QED
        BY <1>3, <2>1, <2>2, <2>3, <2>4
<1>4. Seq(Chars) \subseteq P
    <2> HIDE DEF P
    <2> QED
        BY <1>2, <1>3, SeqInduction
<1>5. r \in P
    BY <1>4
<1> QED
    BY <1>5 DEF q

\* What comes after a part that was good or bad is not looked at.
LEMMA ParseStops ==
    ASSUME NEW p \in Sound, NEW s \in Seq(Chars), NEW r \in Seq(Chars),
           Parse(p, s).result # "indeterminate"
    PROVE  Parse(p, s \o r) = Parse(p, s)
<1> DEFINE q == Parse(p, s)
           P == {u \in Seq(Chars) : Parse(p, s \o u) = q}
<1>1. q \in Sound /\ q.result # "indeterminate"
    BY ParseSound
<1> HIDE DEF q
<1>2. <<>> \in P
    <2>1. s \o <<>> = s /\ <<>> \in Seq(Chars)
        BY ConcatEmptySeq
    <2> QED
        BY <2>1 DEF q
<1>3. ASSUME NEW u \in Seq(Chars), NEW x \in Chars, u \in P PROVE Append(u, x) \in P
    <2>1. s \o u \in Seq(Chars) /\ s \o Append(u, x) = Append(s \o u, x)
        OBVIOUS
    <2>2. Parse(p, Append(s \o u, x)) = Consume(Parse(p, s \o u), x)
        BY <2>1, ParseAppend
    <2>3. Consume(q, x) = q
        BY <1>1, ConsumeSound
    <2>4. Append(u, x) \in Seq(Chars)
        OBVIOUS
    <2> QED
        BY <1>3, <2>1, <2>2, <2>3, <2>4
<1>4. Seq(Chars) \subseteq P
    <2> HIDE DEF P
    <2> QED
        BY <1>2, <1>3, SeqInduction
<1>5. r \in P
    BY <1>4
<1> QED
    BY <1>5 DEF q

\* Whatever a parser has read before, it counts on by what it is given.
LEMMA ParseCountsOn ==
    ASSUME NEW p \in Sound, NEW s \in Seq(Chars)
    PROVE  Parse(p, s).at \in p.at .. p.at + Len(s)
<1> DEFINE P == {u \in Seq(Chars) : Parse(p, u).at \in p.at .. p.at + Len(u)}
<1>1. p.at \in Nat
    BY DEF Sound, Parsers
<1>2. <<>> \in P
    <2>1. Parse(p, <<>>).at = p.at
        BY ParseEmpty DEF Sound, Parsers
    <2> QED
        BY <1>1, <2>1
<1>3. ASSUME NEW u \in Seq(Chars), NEW x \in Chars, u \in P PROVE Append(u, x) \in P
    <2> DEFINE q == Parse(p, u)
    <2>1. Parse(p, Append(u, x)) = Consume(q, x)
        BY ParseAppend
    <2>2. q \in Sound /\ q.at \in p.at .. p.at + Len(u)
        BY <1>3, ParseSound
    <2> HIDE DEF q
    <2>3. Consume(q, x).at \in {q.at, q.at + 1}
        BY <2>2, ConsumeSound
    <2>4. Append(u, x) \in Seq(Chars) /\ Len(Append(u, x)) = Len(u) + 1 /\ Len(u) \in Nat
        OBVIOUS
    <2> QED
        BY <1>1, <2>1, <2>2, <2>3, <2>4
<1> HIDE DEF P
<1>4. Seq(Chars) \subseteq P
    BY <1>2, <1>3, SeqInduction
<1> QED
    BY <1>4 DEF P

\* Once the headers have ended, a parser keeps its state, its method and its uri,
\* whatever comes.
AtEnd(p, q) ==
    /\ q.state = "expecting_newline_3"
    /\ q.method = p.method /\ q.uri = p.uri

LEMMA ParseAtEnd ==
    ASSUME NEW p \in Sound, p.state = "expecting_newline_3", NEW s \in Seq(Chars)
    PROVE  AtEnd(p, Parse(p, s))
<1> DEFINE P == {u \in Seq(Chars) : AtEnd(p, Parse(p, u))}
<1>1. <<>> \in P
    <2>1. Parse(p, <<>>) = [p EXCEPT !.result = "indeterminate"] /\ p \in Parsers
        BY ParseEmpty DEF Sound
    <2>2. AtEnd(p, Parse(p, <<>>)) /\ <<>> \in Seq(Chars)
        BY <2>1 DEF AtEnd, Parsers
    <2> QED
        BY <2>2
<1>2. ASSUME NEW u \in Seq(Chars), NEW x \in Chars, u \in P PROVE Append(u, x) \in P
    <2> DEFINE q == Parse(p, u)
    <2>1. Parse(p, Append(u, x)) = Consume(q, x)
        BY ParseAppend
    <2>2. q \in Sound /\ AtEnd(p, q)
        BY <1>2, ParseSound
    <2> HIDE DEF q
    <2>3. Moves(q) = {<<{LF}, "good">>}
        BY <2>2 DEF AtEnd, Moves, MethodMoves, VersionMoves, HeaderMoves
    <2>4. Follow(q, x) \in {"good", "bad"}
        <3>1. \A m \in Moves(q) : m[2] = "good"
            BY <2>3
        <3>2. (\E m \in Moves(q) : x \in m[1])
                => (CHOOSE m \in Moves(q) : x \in m[1]) \in Moves(q)
            OBVIOUS
        <3> QED
            BY <3>1, <3>2 DEF Follow
    <2>5. AtEnd(q, Consume(q, x))
        BY <2>2, <2>4 DEF AtEnd, Consume
    <2> QED
        BY <2>1, <2>2, <2>5 DEF AtEnd
<1> HIDE DEF P
<1>3. Seq(Chars) \subseteq P
    BY <1>1, <1>2, SeqInduction
<1> QED
    BY <1>3 DEF P

\* The count is that of the characters looked at: all, while the parser is
\* undecided.
LEMMA ParseCounts ==
    ASSUME NEW s \in Seq(Chars)
    PROVE  LET q == Parse(NewParser, s) IN
           /\ q.at \in 0 .. Len(s)
           /\ q.result = "indeterminate" => q.at = Len(s)
           /\ Parse(NewParser, SubSeq(s, 1, q.at)) = q
<1> DEFINE Q(u) == Parse(NewParser, u)
           Counts(u) == /\ Q(u).at \in 0 .. Len(u)
                        /\ Q(u).result = "indeterminate" => Q(u).at = Len(u)
                        /\ Q(SubSeq(u, 1, Q(u).at)) = Q(u)
           P == {u \in Seq(Chars) : Counts(u)}
<1>1. \A u \in Seq(Chars) : Q(u) \in Sound
    BY NewParserSound, ParseSound
<1>2. \A u \in Seq(Chars), x \in Chars : Q(Append(u, x)) = Consume(Q(u), x)
    BY NewParserSound, ParseAppend
<1>3. <<>> \in P
    <2>1. Q(<<>>) = NewParser
        BY NewParserSound, ParseEmpty DEF NewParser
    <2>2. <<>> \in Seq(Chars) /\ Len(<<>>) = 0 /\ SubSeq(<<>>, 1, 0) = <<>>
        OBVIOUS
    <2>3. NewParser.at = 0
        BY DEF NewParser
    <2> HIDE DEF Q
    <2>4. Q(<<>>).at = 0
        BY <2>1, <2>3
    <2>5. Q(SubSeq(<<>>, 1, Q(<<>>).at)) = Q(<<>>)
        BY <2>2, <2>4
    <2> QED
        BY <2>2, <2>4, <2>5
<1> HIDE DEF Q
<1>4. ASSUME NEW u \in Seq(Chars), NEW x \in Chars, u \in P PROVE Append(u, x) \in P
    <2> DEFINE q == Q(u)
               v == Append(u, x)
    <2>1. v \in Seq(Chars) /\ Len(v) = Len(u) + 1 /\ Len(u) \in Nat
          /\ \A n \in 0 .. Len(u) : SubSeq(v, 1, n) = SubSeq(u, 1, n)
        OBVIOUS
    <2>2. q \in Sound /\ q.at \in 0 .. Len(u) /\ Q(SubSeq(u, 1, q.at)) = q
          /\ (q.result = "indeterminate" => q.at = Len(u))
        BY <1>1, <1>4
    <2>3. Q(v) = Consume(q, x)
        BY <1>2
    <2>4. SubSeq(v, 1, Len(v)) = v
        BY <2>1, SubSeqFull
    <2> HIDE DEF q, v
    <2>5. ASSUME q.result # "indeterminate" PROVE Counts(v)
        <3>1. Q(v) = q
            BY <2>2, <2>3, <2>5, ConsumeSound
        <3>2. SubSeq(v, 1, q.at) = SubSeq(u, 1, q.at) /\ q.at \in 0 .. Len(v)
            BY <2>1, <2>2
        <3> QED
            BY <2>2, <2>5, <3>1, <3>2
    <2>6. ASSUME q.result = "indeterminate" PROVE Counts(v)
        <3>1. Q(v).at = Len(v)
            BY <2>1, <2>2, <2>3, <2>6, ConsumeSound
        <3>2. Len(v) \in 0 .. Len(v)
            BY <2>1
        <3> QED
            BY <2>4, <3>1, <3>2
    <2>7. v \in P
        BY <2>1, <2>5, <2>6
    <2> QED
        BY <2>7 DEF v
<1>5. Seq(Chars) \subseteq P
    <2> HIDE DEF P
    <2> QED
        BY <1>3, <1>4, SeqInduction
<1>6. s \in P
    BY <1>5
<1> QED
    BY <1>6 DEF Q

-----------------------------------------------------------------------------
(* The moves *)

\* The character c leads from the state of p to to.
Goes(p, c, to) == \E m \in Moves(p) : c \in m[1] /\ to = m[2]

LEMMA FollowGoes ==
    ASSUME NEW p, NEW c, p.state \in States
    PROVE  /\ Follow(p, c) # "bad" => Goes(p, c, Follow(p, c))
           /\ Follow(p, c) = "bad" => \A to : ~Goes(p, c, to)
<1>1. \A m \in Moves(p) : c \in m[1] => m[2] # "bad"
    <2>1. CASE p.state \in DOMAIN MethodMoves
        <3>1. Moves(p) = MethodMoves[p.state]
            BY <2>1, MovesOf
        <3> QED
            BY <2>1, <3>1 DEF MethodMoves
    <2>2. CASE p.state \in DOMAIN VersionMoves
        <3>1. Moves(p) = VersionMoves[p.state]
            BY <2>2, MovesOf
        <3> QED
            BY <2>2, <3>1 DEF VersionMoves
    <2>3. CASE p.state \in DOMAIN HeaderMoves(TRUE)
        <3>1. Moves(p) = HeaderMoves(p.headers # <<>>)[p.state]
            BY <2>3, MovesOf
        <3> QED
            BY <2>3, <3>1 DEF HeaderMoves
    <2> QED
        BY <2>1, <2>2, <2>3 DEF MethodMoves, VersionMoves, HeaderMoves, States
<1>2. CASE \E m \in Moves(p) : c \in m[1]
    <2> DEFINE m == CHOOSE m \in Moves(p) : c \in m[1]
    <2>1. m \in Moves(p) /\ c \in m[1]
        BY <1>2
    <2>2. Follow(p, c) = m[2]
        BY <1>2 DEF Follow
    <2> HIDE DEF m
    <2> QED
        BY <1>1, <2>1, <2>2 DEF Goes
<1>3. CASE ~\E m \in Moves(p) : c \in m[1]
    BY <1>3 DEF Follow, Goes
<1> QED
    BY <1>2, <1>3

LEMMA GoesFromMethod ==
    ASSUME NEW p, NEW c, NEW to
    PROVE  /\ p.state = "method_start" =>
                (Goes(p, c, to) <=> c \in NameChars /\ to = "method")
           /\ p.state = "method" =>
                (Goes(p, c, to) <=> \/ c = SP /\ to = "uri"
                                    \/ c \in NameChars /\ to = "method")
           /\ p.state = "uri" =>
                (Goes(p, c, to) <=> \/ c = SP /\ to = "http_version_h"
                                    \/ c \in TextChars \ {SP} /\ to = "uri")
<1>1. ASSUME p.state = "method_start"
      PROVE  Goes(p, c, to) <=> c \in NameChars /\ to = "method"
    <2>1. p.state \in DOMAIN MethodMoves
        BY <1>1 DEF MethodMoves
    <2>2. Moves(p) = MethodMoves["method_start"]
        BY <1>1, <2>1, MovesOf
    <2>3. Moves(p) = {<<NameChars, "method">>}
        BY <2>2 DEF MethodMoves
    <2> QED
        BY <2>3 DEF Goes
<1>2. ASSUME p.state = "method"
      PROVE  Goes(p, c, to) <=> \/ c = SP /\ to = "uri"
                                \/ c \in NameChars /\ to = "method"
    <2>1. p.state \in DOMAIN MethodMoves
        BY <1>2 DEF MethodMoves
    <2>2. Moves(p) = MethodMoves["method"]
        BY <1>2, <2>1, MovesOf
    <2>3. Moves(p) = {<<{SP}, "uri">>,
                      <<NameChars, "method">>}
        BY <2>2 DEF MethodMoves
    <2> QED
        BY <2>3 DEF Goes
<1>3. ASSUME p.state = "uri"
      PROVE  Goes(p, c, to) <=> \/ c = SP /\ to = "http_version_h"
                                \/ c \in TextChars \ {SP} /\ to = "uri"
    <2>1. p.state \in DOMAIN MethodMoves
        BY <1>3 DEF MethodMoves
    <2>2. Moves(p) = MethodMoves["uri"]
        BY <1>3, <2>1, MovesOf
    <2>3. Moves(p) = {<<{SP}, "http_version_h">>,
                      <<TextChars \ {SP}, "uri">>}
        BY <2>2 DEF MethodMoves
    <2> QED
        BY <2>3 DEF Goes
<1> QED
    BY <1>1, <1>2, <1>3

LEMMA GoesFromVersion ==
    ASSUME NEW p, NEW c, NEW to
    PROVE  /\ p.state = "http_version_h" =>
                (Goes(p, c, to) <=> c = "H" /\ to = "http_version_t_1")
           /\ p.state = "http_version_t_1" =>
                (Goes(p, c, to) <=> c = "T" /\ to = "http_version_t_2")
           /\ p.state = "http_version_t_2" =>
                (Goes(p, c, to) <=> c = "T" /\ to = "http_version_p")
           /\ p.state = "http_version_p" =>
                (Goes(p, c, to) <=> c = "P" /\ to = "http_version_slash")
           /\ p.state = "http_version_slash" =>
                (Goes(p, c, to) <=> c = "/" /\ to = "http_version_major_start")
           /\ p.state = "http_version_major_start" =>
                (Goes(p, c, to) <=> c \in Digits /\ to = "http_version_major")
           /\ p.state = "http_version_major" =>
                (Goes(p, c, to) <=> \/ c = "." /\ to = "http_version_minor_start"
                                    \/ c \in Digits /\ to = "http_version_major")
           /\ p.state = "http_version_minor_start" =>
                (Goes(p, c, to) <=> c \in Digits /\ to = "http_version_minor")
           /\ p.state = "http_version_minor" =>
                (Goes(p, c, to) <=> \/ c = CR /\ to = "expecting_newline_1"
                                    \/ c \in Digits /\ to = "http_version_minor")
           /\ p.state = "expecting_newline_1" =>
                (Goes(p, c, to) <=> c = LF /\ to = "header_line_start")
<1>1. ASSUME p.state = "http_version_h"
      PROVE  Goes(p, c, to) <=> c = "H" /\ to = "http_version_t_1"
    <2>1. p.state \in DOMAIN VersionMoves
        BY <1>1 DEF VersionMoves
    <2>2. Moves(p) = VersionMoves["http_version_h"]
        BY <1>1, <2>1, MovesOf
    <2>3. Moves(p) = {<<{"H"}, "http_version_t_1">>}
        BY <2>2 DEF VersionMoves
    <2> QED
        BY <2>3 DEF Goes
<1>2. ASSUME p.state = "http_version_t_1"
      PROVE  Goes(p, c, to) <=> c = "T" /\ to = "http_version_t_2"
    <2>1. p.state \in DOMAIN VersionMoves
        BY <1>2 DEF VersionMoves
    <2>2. Moves(p) = VersionMoves["http_version_t_1"]
        BY <1>2, <2>1, MovesOf
    <2>3. Moves(p) = {<<{"T"}, "http_version_t_2">>}
        BY <2>2 DEF VersionMoves
    <2> QED
        BY <2>3 DEF Goes
<1>3. ASSUME p.state = "http_version_t_2"
      PROVE  Goes(p, c, to) <=> c = "T" /\ to = "http_version_p"
    <2>1. p.state \in DOMAIN VersionMoves
        BY <1>3 DEF VersionMoves
    <2>2. Moves(p) = VersionMoves["http_version_t_2"]
        BY <1>3, <2>1, MovesOf
    <2>3. Moves(p) = {<<{"T"}, "http_version_p">>}
        BY <2>2 DEF VersionMoves
    <2> QED
        BY <2>3 DEF Goes
<1>4. ASSUME p.state = "http_version_p"
      PROVE  Goes(p, c, to) <=> c = "P" /\ to = "http_version_slash"
    <2>1. p.state \in DOMAIN VersionMoves
        BY <1>4 DEF VersionMoves
    <2>2. Moves(p) = VersionMoves["http_version_p"]
        BY <1>4, <2>1, MovesOf
    <2>3. Moves(p) = {<<{"P"}, "http_version_slash">>}
        BY <2>2 DEF VersionMoves
    <2> QED
        BY <2>3 DEF Goes
<1>5. ASSUME p.state = "http_version_slash"
      PROVE  Goes(p, c, to) <=> c = "/" /\ to = "http_version_major_start"
    <2>1. p.state \in DOMAIN VersionMoves
        BY <1>5 DEF VersionMoves
    <2>2. Moves(p) = VersionMoves["http_version_slash"]
        BY <1>5, <2>1, MovesOf
    <2>3. Moves(p) = {<<{"/"}, "http_version_major_start">>}
        BY <2>2 DEF VersionMoves
    <2> QED
        BY <2>3 DEF Goes
<1>6. ASSUME p.state = "http_version_major_start"
      PROVE  Goes(p, c, to) <=> c \in Digits /\ to = "http_version_major"
    <2>1. p.state \in DOMAIN VersionMoves
        BY <1>6 DEF VersionMoves
    <2>2. Moves(p) = VersionMoves["http_version_major_start"]
        BY <1>6, <2>1, MovesOf
    <2>3. Moves(p) = {<<Digits, "http_version_major">>}
        BY <2>2 DEF VersionMoves
    <2> QED
        BY <2>3 DEF Goes
<1>7. ASSUME p.state = "http_version_major"
      PROVE  Goes(p, c, to) <=> \/ c = "." /\ to = "http_version_minor_start"
                                \/ c \in Digits /\ to = "http_version_major"
    <2>1. p.state \in DOMAIN VersionMoves
        BY <1>7 DEF VersionMoves
    <2>2. Moves(p) = VersionMoves["http_version_major"]
        BY <1>7, <2>1, MovesOf
    <2>3. Moves(p) = {<<{"."}, "http_version_minor_start">>,
                      <<Digits, "http_version_major">>}
        BY <2>2 DEF VersionMoves
    <2> QED
        BY <2>3 DEF Goes
<1>8. ASSUME p.state = "http_version_minor_start"
      PROVE  Goes(p, c, to) <=> c \in Digits /\ to = "http_version_minor"
    <2>1. p.state \in DOMAIN VersionMoves
        BY <1>8 DEF VersionMoves
    <2>2. Moves(p) = VersionMoves["http_version_minor_start"]
        BY <1>8, <2>1, MovesOf
    <2>3. Moves(p) = {<<Digits, "http_version_minor">>}
        BY <2>2 DEF VersionMoves
    <2> QED
        BY <2>3 DEF Goes
<1>9. ASSUME p.state = "http_version_minor"
      PROVE  Goes(p, c, to) <=> \/ c = CR /\ to = "expecting_newline_1"
                                \/ c \in Digits /\ to = "http_version_minor"
    <2>1. p.state \in DOMAIN VersionMoves
        BY <1>9 DEF VersionMoves
    <2>2. Moves(p) = VersionMoves["http_version_minor"]
        BY <1>9, <2>1, MovesOf
    <2>3. Moves(p) = {<<{CR}, "expecting_newline_1">>,
                      <<Digits, "http_version_minor">>}
        BY <2>2 DEF VersionMoves
    <2> QED
        BY <2>3 DEF Goes
<1>10. ASSUME p.state = "expecting_newline_1"
      PROVE  Goes(p, c, to) <=> c = LF /\ to = "header_line_start"
    <2>1. p.state \in DOMAIN VersionMoves
        BY <1>10 DEF VersionMoves
    <2>2. Moves(p) = VersionMoves["expecting_newline_1"]
        BY <1>10, <2>1, MovesOf
    <2>3. Moves(p) = {<<{LF}, "header_line_start">>}
        BY <2>2 DEF VersionMoves
    <2> QED
        BY <2>3 DEF Goes
<1> QED
    BY <1>1, <1>2, <1>3, <1>4, <1>5, <1>6, <1>7, <1>8, <1>9, <1>10

LEMMA GoesFromHeader ==
    ASSUME NEW p, NEW c, NEW to
    PROVE  /\ p.state = "header_line_start" =>
                (Goes(p, c, to) <=> \/ c = CR /\ to = "expecting_newline_3"
                                    \/ c \in NameChars /\ to = "header_name"
                                    \/ p.headers # <<>> /\ c \in {SP, HT} /\ to = "header_lws")
           /\ p.state = "header_lws" =>
                (Goes(p, c, to) <=> \/ c = CR /\ to = "expecting_newline_2"
                                    \/ c \in {SP, HT} /\ to = "header_lws"
                                    \/ c \in TextChars \ {SP} /\ to = "header_value")
           /\ p.state = "header_name" =>
                (Goes(p, c, to) <=> \/ c = ":" /\ to = "space_before_header_value"
                                    \/ c \in NameChars /\ to = "header_name")
           /\ p.state = "space_before_header_value" =>
                (Goes(p, c, to) <=> c = SP /\ to = "header_value")
           /\ p.state = "header_value" =>
                (Goes(p, c, to) <=> \/ c = CR /\ to = "expecting_newline_2"
                                    \/ c \in TextChars /\ to = "header_value")
           /\ p.state = "expecting_newline_2" =>
                (Goes(p, c, to) <=> c = LF /\ to = "header_line_start")
           /\ p.state = "expecting_newline_3" =>
                (Goes(p, c, to) <=> c = LF /\ to = "good")
<1>1. ASSUME p.state = "header_line_start"
      PROVE  Goes(p, c, to) <=> \/ c = CR /\ to = "expecting_newline_3"
                                \/ c \in NameChars /\ to = "header_name"
                                \/ p.headers # <<>> /\ c \in {SP, HT} /\ to = "header_lws"
    <2>1. p.state \in DOMAIN HeaderMoves(TRUE)
        BY <1>1 DEF HeaderMoves
    <2>2. Moves(p) = HeaderMoves(p.headers # <<>>)["header_line_start"]
        BY <1>1, <2>1, MovesOf
    <2>3. Moves(p) = {<<{CR}, "expecting_newline_3">>,
                      <<NameChars, "header_name">>,
                      <<IF p.headers # <<>> THEN {SP, HT} ELSE {}, "header_lws">>}
        BY <2>2 DEF HeaderMoves
    <2> QED
        BY <2>3 DEF Goes
<1>2. ASSUME p.state = "header_lws"
      PROVE  Goes(p, c, to) <=> \/ c = CR /\ to = "expecting_newline_2"
                                \/ c \in {SP, HT} /\ to = "header_lws"
                                \/ c \in TextChars \ {SP} /\ to = "header_value"
    <2>1. p.state \in DOMAIN HeaderMoves(TRUE)
        BY <1>2 DEF HeaderMoves
    <2>2. Moves(p) = HeaderMoves(p.headers # <<>>)["header_lws"]
        BY <1>2, <2>1, MovesOf
    <2>3. Moves(p) = {<<{CR}, "expecting_newline_2">>,
                      <<{SP, HT}, "header_lws">>,
                      <<TextChars \ {SP}, "header_value">>}
        BY <2>2 DEF HeaderMoves
    <2> QED
        BY <2>3 DEF Goes
<1>3. ASSUME p.state = "header_name"
      PROVE  Goes(p, c, to) <=> \/ c = ":" /\ to = "space_before_header_value"
                                \/ c \in NameChars /\ to = "header_name"
    <2>1. p.state \in DOMAIN HeaderMoves(TRUE)
        BY <1>3 DEF HeaderMoves
    <2>2. Moves(p) = HeaderMoves(p.headers # <<>>)["header_name"]
        BY <1>3, <2>1, MovesOf
    <2>3. Moves(p) = {<<{":"}, "space_before_header_value">>,
                      <<NameChars, "header_name">>}
        BY <2>2 DEF HeaderMoves
    <2> QED
        BY <2>3 DEF Goes
<1>4. ASSUME p.state = "space_before_header_value"
      PROVE  Goes(p, c, to) <=> c = SP /\ to = "header_value"
    <2>1. p.state \in DOMAIN HeaderMoves(TRUE)
        BY <1>4 DEF HeaderMoves
    <2>2. Moves(p) = HeaderMoves(p.headers # <<>>)["space_before_header_value"]
        BY <1>4, <2>1, MovesOf
    <2>3. Moves(p) = {<<{SP}, "header_value">>}
        BY <2>2 DEF HeaderMoves
    <2> QED
        BY <2>3 DEF Goes
<1>5. ASSUME p.state = "header_value"
      PROVE  Goes(p, c, to) <=> \/ c = CR /\ to = "expecting_newline_2"
                                \/ c \in TextChars /\ to = "header_value"
    <2>1. p.state \in DOMAIN HeaderMoves(TRUE)
        BY <1>5 DEF HeaderMoves
    <2>2. Moves(p) = HeaderMoves(p.headers # <<>>)["header_value"]
        BY <1>5, <2>1, MovesOf
    <2>3. Moves(p) = {<<{CR}, "expecting_newline_2">>,
                      <<TextChars, "header_value">>}
        BY <2>2 DEF HeaderMoves
    <2> QED
        BY <2>3 DEF Goes
<1>6. ASSUME p.state = "expecting_newline_2"
      PROVE  Goes(p, c, to) <=> c = LF /\ to = "header_line_start"
    <2>1. p.state \in DOMAIN HeaderMoves(TRUE)
        BY <1>6 DEF HeaderMoves
    <2>2. Moves(p) = HeaderMoves(p.headers # <<>>)["expecting_newline_2"]
        BY <1>6, <2>1, MovesOf
    <2>3. Moves(p) = {<<{LF}, "header_line_start">>}
        BY <2>2 DEF HeaderMoves
    <2> QED
        BY <2>3 DEF Goes
<1>7. ASSUME p.state = "expecting_newline_3"
      PROVE  Goes(p, c, to) <=> c = LF /\ to = "good"
    <2>1. p.state \in DOMAIN HeaderMoves(TRUE)
        BY <1>7 DEF HeaderMoves
    <2>2. Moves(p) = HeaderMoves(p.headers # <<>>)["expecting_newline_3"]
        BY <1>7, <2>1, MovesOf
    <2>3. Moves(p) = {<<{LF}, "good">>}
        BY <2>2 DEF HeaderMoves
    <2> QED
        BY <2>3 DEF Goes
<1> QED
    BY <1>1, <1>2, <1>3, <1>4, <1>5, <1>6, <1>7

\* What consume does of a character, while the parser is undecided
LEMMA ConsumeFields ==
    ASSUME NEW p, NEW c, p.result = "indeterminate"
    PROVE  LET to == Follow(p, c)
               ends == to \in {"good", "bad"}
               q == Consume(p, c)
           IN  /\ q.state = IF ends THEN p.state ELSE to
               /\ q.result = IF ends THEN to ELSE "indeterminate"
               /\ q.method = IF to = "method" THEN Append(p.method, c) ELSE p.method
               /\ q.uri = IF to = "uri" /\ p.state = "uri" THEN Append(p.uri, c) ELSE p.uri
               /\ q.headers = PushHeader(p, c, to)
BY DEF Consume

\* What a character makes of the pieces
LEMMA PiecesGrow ==
    ASSUME NEW S, NEW s \in Seq(S), NEW x \in S, NEW c
    PROVE  LET w == Split(s, c)
               v == Split(Append(s, x), c)
               n == Len(w)
           IN  /\ n \in Nat \ {0} /\ w \in Seq(Seq(S)) /\ v \in Seq(Seq(S))
               /\ x = c => /\ Len(v) = n + 1 /\ v[n + 1] = <<>>
                           /\ \A i \in 1 .. n : v[i] = w[i]
               /\ x # c => /\ Len(v) = n /\ v[n] = Append(w[n], x)
                           /\ \A i \in 1 .. n : i # n => v[i] = w[i]
<1> DEFINE T == Seq(S)
           w == Split(s, c)
           v == Split(Append(s, x), c)
           n == Len(w)
<1>1. w \in Seq(T) /\ w # <<>> /\ v = SplitStep(w, x, c)
    BY SplitType, SplitAppend
<1>2. v \in Seq(T)
    <2>1. Append(s, x) \in Seq(S)
        OBVIOUS
    <2> QED
        BY <2>1, SplitType
<1> HIDE DEF w, v
<1>3. n \in Nat \ {0} /\ w[n] \in T /\ <<>> \in T
    BY <1>1
<1>4. Append(w[n], x) \in T
    BY <1>3
<1> HIDE DEF T
<1>5. ASSUME x = c
      PROVE  Len(v) = n + 1 /\ v[n + 1] = <<>> /\ \A i \in 1 .. n : v[i] = w[i]
    <2>1. v = Append(w, <<>>)
        BY <1>1, <1>5 DEF SplitStep
    <2> QED
        BY <1>1, <1>3, <2>1, AppendProperties
<1>6. ASSUME x # c
      PROVE  /\ Len(v) = n /\ v[n] = Append(w[n], x)
             /\ \A i \in 1 .. n : i # n => v[i] = w[i]
    <2>1. v = [w EXCEPT ![Len(w)] = Append(w[n], x)]
        BY <1>1, <1>6 DEF SplitStep
    <2> QED
        BY <1>1, <1>4, <2>1, LastReplaced
<1> QED
    BY <1>1, <1>2, <1>3, <1>5, <1>6 DEF w, v, T

-----------------------------------------------------------------------------
(* The method and the uri *)

\* The parser has taken them from the pieces between the spaces.
Words(q, s) ==
    LET w == Split(s, SP) IN
    /\ q.state = "method_start" => s = <<>> /\ q.method = <<>> /\ q.uri = <<>>
    /\ q.state = "method" => Len(w) = 1 /\ w[1] = q.method /\ q.uri = <<>>
    /\ q.state = "uri" => Len(w) = 2 /\ w[1] = q.method /\ w[2] = q.uri
    /\ q.state \notin {"method_start", "method", "uri"} =>
            Len(w) > 2 /\ w[1] = q.method /\ w[2] = q.uri
    /\ q.result = "good" => q.state = "expecting_newline_3"

LEMMA WordsGrow ==
    ASSUME NEW q \in Sound, NEW s \in Seq(Chars), NEW x \in Chars, Words(q, s),
           q.result # "bad", Consume(q, x).result # "bad"
    PROVE  Words(Consume(q, x), Append(s, x))
<1> DEFINE r == Consume(q, x)
           to == Follow(q, x)
           w == Split(s, SP)
           v == Split(Append(s, x), SP)
           n == Len(w)
<1>1. /\ n \in Nat \ {0} /\ w \in Seq(Seq(Chars)) /\ v \in Seq(Seq(Chars))
      /\ x = SP => Len(v) = n + 1 /\ v[n + 1] = <<>> /\ \A i \in 1 .. n : v[i] = w[i]
      /\ x # SP => /\ Len(v) = n /\ v[n] = Append(w[n], x)
                   /\ \A i \in 1 .. n : i # n => v[i] = w[i]
    BY PiecesGrow
<1>2. /\ q.state \in States /\ q.result \in Results /\ q.method \in Seq(Chars)
      /\ q.uri \in Seq(Chars)
    BY DEF Sound, Parsers
<1>3. SP \notin NameChars
    BY DEF NameChars, Tspecials
<1>4. /\ q.state = "method_start" => Len(w) = 1 /\ w[1] = <<>> /\ q.method = <<>> /\ q.uri = <<>>
      /\ q.state = "method" => Len(w) = 1 /\ w[1] = q.method /\ q.uri = <<>>
      /\ q.state = "uri" => Len(w) = 2 /\ w[1] = q.method /\ w[2] = q.uri
      /\ q.state \notin {"method_start", "method", "uri"} =>
            Len(w) > 2 /\ w[1] = q.method /\ w[2] = q.uri
      /\ q.result = "good" => q.state = "expecting_newline_3"
    BY SplitEmpty DEF Words
<1>5. SUFFICES
        /\ r.state # "method_start"
        /\ r.state = "method" => Len(v) = 1 /\ v[1] = r.method /\ r.uri = <<>>
        /\ r.state = "uri" => Len(v) = 2 /\ v[1] = r.method /\ v[2] = r.uri
        /\ r.state \notin {"method", "uri"} => Len(v) > 2 /\ v[1] = r.method /\ v[2] = r.uri
        /\ r.result = "good" => r.state = "expecting_newline_3"
    BY DEF Words
<1>6. n > 2 => Len(v) > 2 /\ v[1] = w[1] /\ v[2] = w[2]
    <2>1. CASE x = SP
        BY <1>1, <2>1
    <2>2. CASE x # SP
        BY <1>1, <2>2
    <2> QED
        BY <2>1, <2>2
<1>7. CASE q.result = "good"
    <2>1. r = q
        BY <1>7, ConsumeSound
    <2> QED
        BY <1>4, <1>6, <1>7, <2>1
<1>8. CASE q.result = "indeterminate"
    <2>1. /\ r.state = IF to \in {"good", "bad"} THEN q.state ELSE to
          /\ r.result = IF to \in {"good", "bad"} THEN to ELSE "indeterminate"
          /\ r.method = IF to = "method" THEN Append(q.method, x) ELSE q.method
          /\ r.uri = IF to = "uri" /\ q.state = "uri" THEN Append(q.uri, x) ELSE q.uri
        BY <1>8, ConsumeFields
    <2>2. to # "bad"
        BY <2>1
    <2>3. Goes(q, x, to)
        BY <1>2, <2>2, FollowGoes
    <2> HIDE DEF r, to, w, v, n
    <2>4. CASE q.state = "method_start"
        <3>1. x \in NameChars /\ to = "method"
            BY <2>3, <2>4, GoesFromMethod
        <3>2. n = 1 /\ w[1] = q.method /\ q.uri = <<>> /\ x # SP
            BY <1>3, <1>4, <2>4, <3>1 DEF n
        <3>3. Len(v) = 1 /\ v[1] = Append(q.method, x)
            BY <1>1, <3>2
        <3>4. r.state = "method" /\ r.method = Append(q.method, x) /\ r.uri = <<>>
              /\ r.result = "indeterminate"
            BY <2>1, <3>1, <3>2
        <3> QED
            BY <3>3, <3>4
    <2>5. CASE q.state = "method"
        <3>1. \/ x = SP /\ to = "uri"
              \/ x \in NameChars /\ to = "method"
            BY <2>3, <2>5, GoesFromMethod
        <3>2. n = 1 /\ w[1] = q.method /\ q.uri = <<>>
            BY <1>4, <2>5 DEF n
        <3>3. CASE x = SP /\ to = "uri"
            <4>1. Len(v) = 2 /\ v[1] = q.method /\ v[2] = <<>>
                BY <1>1, <3>2, <3>3
            <4>2. r.state = "uri" /\ r.method = q.method /\ r.uri = <<>>
                  /\ r.result = "indeterminate"
                BY <2>1, <2>5, <3>2, <3>3
            <4> QED
                BY <4>1, <4>2
        <3>4. CASE x \in NameChars /\ to = "method"
            <4>1. x # SP
                BY <1>3, <3>4
            <4>2. Len(v) = 1 /\ v[1] = Append(q.method, x)
                BY <1>1, <3>2, <4>1
            <4>3. r.state = "method" /\ r.method = Append(q.method, x) /\ r.uri = <<>>
                  /\ r.result = "indeterminate"
                BY <2>1, <3>2, <3>4
            <4> QED
                BY <4>2, <4>3
        <3> QED
            BY <3>1, <3>3, <3>4
    <2>6. CASE q.state = "uri"
        <3>1. \/ x = SP /\ to = "http_version_h"
              \/ x \in TextChars \ {SP} /\ to = "uri"
            BY <2>3, <2>6, GoesFromMethod
        <3>2. n = 2 /\ w[1] = q.method /\ w[2] = q.uri
            BY <1>4, <2>6 DEF n
        <3>3. CASE x = SP /\ to = "http_version_h"
            <4>1. Len(v) = 3 /\ v[1] = q.method /\ v[2] = q.uri
                BY <1>1, <3>2, <3>3
            <4>2. r.state = "http_version_h" /\ r.method = q.method /\ r.uri = q.uri
                  /\ r.result = "indeterminate"
                BY <2>1, <3>3
            <4> QED
                BY <4>1, <4>2
        <3>4. CASE x \in TextChars \ {SP} /\ to = "uri"
            <4>1. Len(v) = 2 /\ v[1] = q.method /\ v[2] = Append(q.uri, x)
                BY <1>1, <3>2, <3>4
            <4>2. r.state = "uri" /\ r.method = q.method /\ r.uri = Append(q.uri, x)
                  /\ r.result = "indeterminate"
                BY <2>1, <2>6, <3>4
            <4> QED
                BY <4>1, <4>2
        <3> QED
            BY <3>1, <3>3, <3>4
    <2>7. CASE q.state \notin {"method_start", "method", "uri"}
        <3>1. to \notin {"method_start", "method", "uri"}
              /\ (to = "good" => q.state = "expecting_newline_3")
            <4>1. CASE q.state \in DOMAIN VersionMoves
                BY <2>3, <4>1, GoesFromVersion DEF VersionMoves
            <4>2. CASE q.state \in DOMAIN HeaderMoves(TRUE)
                BY <2>3, <4>2, GoesFromHeader DEF HeaderMoves
            <4> QED
                BY <1>2, <2>7, <4>1, <4>2 DEF States, VersionMoves, HeaderMoves
        <3> QED
            BY <1>4, <1>6, <2>1, <2>2, <2>7, <3>1 DEF n
    <2> QED
        BY <2>4, <2>5, <2>6, <2>7
<1> QED
    BY <1>2, <1>7, <1>8 DEF Results

\* Whatever is parsed, and however much is left of it, the method and the uri of a
\* request that is good are those written.
LEMMA WordsWritten ==
    ASSUME NEW s \in Seq(Chars), Parse(NewParser, s).result # "bad"
    PROVE  Words(Parse(NewParser, s), s)
<1> DEFINE Q(u) == Parse(NewParser, u)
           P == {u \in Seq(Chars) : Q(u).result # "bad" => Words(Q(u), u)}
<1>1. \A u \in Seq(Chars) : Q(u) \in Sound
    BY NewParserSound, ParseSound
<1>2. \A u \in Seq(Chars), x \in Chars : Q(Append(u, x)) = Consume(Q(u), x)
    BY NewParserSound, ParseAppend
<1>3. <<>> \in P
    <2>1. Q(<<>>) = NewParser
        BY NewParserSound, ParseEmpty DEF NewParser
    <2>2. Words(NewParser, <<>>) /\ <<>> \in Seq(Chars)
        BY DEF NewParser, Words
    <2> HIDE DEF Q
    <2> QED
        BY <2>1, <2>2
<1> HIDE DEF Q
<1>4. ASSUME NEW u \in Seq(Chars), NEW x \in Chars, u \in P PROVE Append(u, x) \in P
    <2>1. Append(u, x) \in Seq(Chars)
        OBVIOUS
    <2>2. ASSUME Q(Append(u, x)).result # "bad" PROVE Words(Q(Append(u, x)), Append(u, x))
        <3>1. Consume(Q(u), x).result # "bad"
            BY <1>2, <2>2
        <3>2. Q(u).result # "bad"
            BY <1>1, <3>1, ConsumeSound
        <3>3. Words(Q(u), u)
            BY <1>4, <3>2
        <3>4. Words(Consume(Q(u), x), Append(u, x))
            BY <1>1, <3>1, <3>2, <3>3, WordsGrow
        <3> QED
            BY <1>2, <3>4
    <2> QED
        BY <2>1, <2>2
<1>5. Seq(Chars) \subseteq P
    <2> HIDE DEF P
    <2> QED
        BY <1>3, <1>4, SeqInduction
<1>6. s \in P
    BY <1>5
<1> QED
    BY <1>6 DEF Q

\* A request that is good has the method and the uri that are written.
LEMMA MethodWritten ==
    ASSUME NEW s \in Seq(Chars), Parse(NewParser, s).result = "good"
    PROVE  /\ Parse(NewParser, s).method = MethodOf(s)
           /\ Parse(NewParser, s).uri = UriOf(s)
BY WordsWritten DEF Words, MethodOf, UriOf

LEMMA GoodAtEnd ==
    ASSUME NEW s \in Seq(Chars), Parse(NewParser, s).result = "good"
    PROVE  Parse(NewParser, s).state = "expecting_newline_3"
BY WordsWritten DEF Words

-----------------------------------------------------------------------------
(* Lines *)

LEMMA Longer ==
    ASSUME NEW S, NEW l \in Seq(S), NEW x \in S
    PROVE  LET k == Append(l, x)
               m == Len(l)
           IN  /\ m \in Nat /\ k \in Seq(S) /\ Len(k) = m + 1 /\ k[m + 1] = x
               /\ \A i \in 1 .. m : k[i] = l[i]
               /\ \A c : \A i \in Where(l, c) : i \in 1 .. m /\ i \in Where(k, c) /\ l[i] = c
               /\ m + 1 \in Where(k, x)
               /\ \A T : \A a \in Nat \ {0} : \A b \in Int :
                    b <= m /\ Among(l, a, b, T) => Among(k, a, b, T)
               /\ \A T : \A a \in Nat \ {0} : Among(l, a, m, T) /\ x \in T => Among(k, a, m + 1, T)
<1> DEFINE k == Append(l, x)
           m == Len(l)
<1>1. /\ m \in Nat /\ k \in Seq(S) /\ Len(k) = m + 1 /\ k[m + 1] = x
      /\ \A i \in 1 .. m : k[i] = l[i]
      /\ DOMAIN l = 1 .. m /\ DOMAIN k = 1 .. m + 1
    OBVIOUS
<1> HIDE DEF k, m
<1>2. \A c : \A i \in Where(l, c) : i \in 1 .. m /\ i \in Where(k, c) /\ l[i] = c
    BY <1>1 DEF Where
<1>3. m + 1 \in Where(k, x)
    BY <1>1 DEF Where
<1>4. ASSUME NEW T, NEW a \in Nat \ {0}, NEW b \in Int, b <= m, Among(l, a, b, T)
      PROVE  Among(k, a, b, T)
    BY <1>1, <1>4 DEF Among
<1>5. ASSUME NEW T, NEW a \in Nat \ {0}, Among(l, a, m, T), x \in T
      PROVE  Among(k, a, m + 1, T)
    <2>1. ASSUME NEW i \in a .. m + 1 PROVE k[i] \in T
        <3>1. CASE i = m + 1
            BY <1>1, <1>5, <3>1
        <3>2. CASE i \in a .. m
            BY <1>1, <1>5, <3>2 DEF Among
        <3> QED
            BY <1>1, <3>1, <3>2
    <2> QED
        BY <2>1 DEF Among
<1> QED
    BY <1>1, <1>2, <1>3, <1>4, <1>5 DEF k, m

RequestStates == {"method_start", "method", "uri", "http_version_h", "http_version_t_1",
    "http_version_t_2", "http_version_p", "http_version_slash",
    "http_version_major_start", "http_version_major", "http_version_minor_start",
    "http_version_minor", "expecting_newline_1"}

\* method SP uri, up to position j, which is a space
Heads(l, j) ==
    /\ j \in Where(l, SP)
    /\ \E i \in Where(l, SP) :
        /\ i > 1 /\ Among(l, 1, i - 1, NameChars)
        /\ i < j /\ Among(l, i + 1, j - 1, TextChars \ {SP})

\* "HTTP/" after it
Http(l, j) ==
    /\ Heads(l, j)
    /\ j + 5 <= Len(l)
    /\ l[j + 1] = "H" /\ l[j + 2] = "T" /\ l[j + 3] = "T" /\ l[j + 4] = "P" /\ l[j + 5] = "/"

\* and digits up to the dot at d
Dotted(l, j, d) ==
    /\ Http(l, j)
    /\ d \in Where(l, ".")
    /\ j + 6 < d /\ Among(l, j + 6, d - 1, Digits)

\* What the parser has seen of a request line, in each state
OnRequestLine(state, l) ==
    LET m == Len(l) IN
    CASE state = "method_start" -> m = 0
      [] state = "method" -> m > 0 /\ Among(l, 1, m, NameChars)
      [] state = "uri" ->
            \E i \in Where(l, SP) :
                /\ i > 1 /\ Among(l, 1, i - 1, NameChars)
                /\ Among(l, i + 1, m, TextChars \ {SP})
      [] state = "http_version_h" -> Heads(l, m)
      [] state = "http_version_t_1" -> Heads(l, m - 1) /\ l[m] = "H"
      [] state = "http_version_t_2" -> Heads(l, m - 2) /\ l[m - 1] = "H" /\ l[m] = "T"
      [] state = "http_version_p" ->
            Heads(l, m - 3) /\ l[m - 2] = "H" /\ l[m - 1] = "T" /\ l[m] = "T"
      [] state = "http_version_slash" ->
            Heads(l, m - 4) /\ l[m - 3] = "H" /\ l[m - 2] = "T" /\ l[m - 1] = "T" /\ l[m] = "P"
      [] state = "http_version_major_start" -> Http(l, m - 5)
      [] state = "http_version_major" ->
            \E j \in Where(l, SP) : Http(l, j) /\ j + 5 < m /\ Among(l, j + 6, m, Digits)
      [] state = "http_version_minor_start" -> \E j \in Where(l, SP) : Dotted(l, j, m)
      [] state = "http_version_minor" ->
            \E j \in Where(l, SP), d \in Where(l, ".") :
                Dotted(l, j, d) /\ d < m /\ Among(l, d + 1, m, Digits)
      [] state = "expecting_newline_1" -> RequestLine(l)

\* The sequence l begins the sequence k.
Begins(l, k) == Len(l) <= Len(k) /\ \A i \in 1 .. Len(l) : k[i] = l[i]

LEMMA HeadsBegin ==
    ASSUME NEW S, NEW l \in Seq(S), NEW k \in Seq(S), Begins(l, k)
    PROVE  /\ \A j : Heads(l, j) => Heads(k, j)
           /\ \A j : Http(l, j) => Http(k, j)
           /\ \A j, d : Dotted(l, j, d) => Dotted(k, j, d)
<1> DEFINE m == Len(l)
<1>1. /\ m \in Nat /\ Len(k) \in Nat /\ m <= Len(k)
      /\ \A i \in 1 .. m : k[i] = l[i]
      /\ \A c : \A i \in Where(l, c) : i \in 1 .. m /\ i \in Where(k, c)
    BY DEF Begins, Where
<1>5. ASSUME NEW T, NEW a \in Nat \ {0}, NEW b \in Int, b <= m, Among(l, a, b, T)
      PROVE  Among(k, a, b, T)
    BY <1>1, <1>5 DEF Among
<1> HIDE DEF m
<1>2. ASSUME NEW j, Heads(l, j) PROVE Heads(k, j)
    <2>1. PICK i \in Where(l, SP) :
            /\ i > 1 /\ Among(l, 1, i - 1, NameChars)
            /\ i < j /\ Among(l, i + 1, j - 1, TextChars \ {SP})
        BY <1>2 DEF Heads
    <2>2. i \in 1 .. m /\ j \in 1 .. m /\ i \in Where(k, SP) /\ j \in Where(k, SP)
        BY <1>1, <1>2, <2>1 DEF Heads
    <2>3. Among(k, 1, i - 1, NameChars)
        BY <1>1, <1>5, <2>1, <2>2
    <2>4. Among(k, i + 1, j - 1, TextChars \ {SP})
        BY <1>1, <1>5, <2>1, <2>2
    <2> QED
        BY <2>1, <2>2, <2>3, <2>4 DEF Heads
<1>3. ASSUME NEW j, Http(l, j) PROVE Http(k, j)
    <2>1. j \in 1 .. m
        BY <1>1, <1>3 DEF Http, Heads
    <2>2. /\ j + 1 \in 1 .. m /\ j + 2 \in 1 .. m /\ j + 3 \in 1 .. m /\ j + 4 \in 1 .. m
          /\ j + 5 \in 1 .. m
        BY <1>1, <1>3, <2>1 DEF Http, m
    <2> QED
        BY <1>1, <1>2, <1>3, <2>2, SMTT(40) DEF Http
<1>4. ASSUME NEW j, NEW d, Dotted(l, j, d) PROVE Dotted(k, j, d)
    <2>1. j \in 1 .. m /\ d \in 1 .. m /\ d \in Where(k, ".")
        BY <1>1, <1>4 DEF Dotted, Http, Heads
    <2>2. Among(k, j + 6, d - 1, Digits)
        <3>1. j + 6 \in Nat \ {0} /\ d - 1 \in Int /\ d - 1 <= m
            BY <1>1, <2>1
        <3> QED
            BY <1>4, <1>5, <3>1 DEF Dotted
    <2> QED
        BY <1>3, <1>4, <2>1, <2>2 DEF Dotted
<1> QED
    BY <1>2, <1>3, <1>4

\* Line feeds are in no class of characters.
LEMMA Classes ==
    /\ SP \notin NameChars /\ HT \notin NameChars /\ HT \notin TextChars /\ SP \notin Digits
    /\ CR \notin NameChars /\ CR \notin TextChars /\ CR \notin Digits
    /\ LF \notin NameChars /\ LF \notin TextChars /\ LF \notin Digits
    /\ "." \notin Digits /\ ":" \notin NameChars
    /\ \A c \in NameChars : c \notin {SP, HT, ":"}
    /\ SP \in TextChars
<1>1. SP \notin NameChars /\ HT \notin NameChars /\ ":" \notin NameChars
    BY DEF NameChars, Tspecials
<1>2. CR \notin NameChars /\ LF \notin NameChars
    BY DEF NameChars, Ctls
<1>3. HT \notin TextChars /\ CR \notin TextChars /\ LF \notin TextChars
    BY DEF TextChars, Ctls
<1>4. SP \notin Digits /\ CR \notin Digits /\ LF \notin Digits /\ "." \notin Digits
    BY DEF Digits, SP, CR, LF
<1>5. SP \in TextChars
    BY CharsAssumption DEF TextChars, Ctls, SP, HT, CR, LF
<1> QED
    BY <1>1, <1>2, <1>3, <1>4, <1>5

\* A dotted version that is ended is a request line.
LEMMA RequestLineEnds ==
    ASSUME NEW S, NEW k \in Seq(S), NEW j, NEW d, Dotted(k, j, d), Len(k) \in Nat,
           d + 1 < Len(k), Among(k, d + 1, Len(k) - 1, Digits), k[Len(k)] = CR
    PROVE  RequestLine(k)
<1>0. /\ Http(k, j) /\ Heads(k, j) /\ d \in Where(k, ".")
      /\ j + 6 < d /\ Among(k, j + 6, d - 1, Digits)
    BY DEF Dotted, Http
<1>1. j \in Where(k, SP) /\ j \in 1 .. Len(k) /\ d \in 1 .. Len(k)
    BY <1>0 DEF Heads, Where
<1>2. PICK i \in Where(k, SP) :
            /\ i > 1 /\ Among(k, 1, i - 1, NameChars)
            /\ i < j /\ Among(k, i + 1, j - 1, TextChars \ {SP})
    BY <1>0 DEF Heads
<1>3. j + 5 < Len(k)
    BY <1>0, <1>1
<1>4. SubSeq(k, j + 1, j + 5) = <<"H", "T", "T", "P", "/">>
    <2> DEFINE v == SubSeq(k, j + 1, j + 5)
    <2>1. /\ v \in Seq(S) /\ Len(v) = 5
          /\ v[1] = k[j + 1] /\ v[2] = k[j + 2] /\ v[3] = k[j + 3] /\ v[4] = k[j + 4]
          /\ v[5] = k[j + 5]
        BY <1>1, <1>3
    <2> HIDE DEF v
    <2>2. v[1] = "H" /\ v[2] = "T" /\ v[3] = "T" /\ v[4] = "P" /\ v[5] = "/"
        BY <1>0, <1>1, <2>1 DEF Http
    <2>3. v = <<v[1], v[2], v[3], v[4], v[5]>>
        BY <2>1
    <2>4. v = <<"H", "T", "T", "P", "/">>
        BY <2>2, <2>3
    <2> QED
        BY <2>4 DEF v
<1>5. Ended(k)
    <2>1. k # <<>>
        BY <1>1
    <2> QED
        BY <2>1 DEF Ended
<1> QED
    BY <1>0, <1>1, <1>2, <1>3, <1>4, <1>5 DEF RequestLine

LEMMA RequestLineGrows ==
    ASSUME NEW p, NEW l \in Seq(Chars), NEW x \in Chars, NEW to,
           p.state \in RequestStates \ {"expecting_newline_1"}, OnRequestLine(p.state, l),
           Goes(p, x, to)
    PROVE  /\ to \in RequestStates /\ OnRequestLine(to, Append(l, x))
           /\ x # LF
<1> DEFINE k == Append(l, x)
           m == Len(l)
<1>1. /\ m \in Nat /\ k \in Seq(Chars) /\ Len(k) = m + 1 /\ k[m + 1] = x
      /\ \A i \in 1 .. m : k[i] = l[i]
      /\ \A c : \A i \in Where(l, c) : i \in 1 .. m /\ i \in Where(k, c) /\ l[i] = c
      /\ m + 1 \in Where(k, x)
      /\ \A T : \A a \in Nat \ {0} : \A b \in Int :
                    b <= m /\ Among(l, a, b, T) => Among(k, a, b, T)
      /\ \A T : \A a \in Nat \ {0} : Among(l, a, m, T) /\ x \in T => Among(k, a, m + 1, T)
    BY Longer
<1>2. /\ \A j : Heads(l, j) => Heads(k, j)
      /\ \A j : Http(l, j) => Http(k, j)
      /\ \A j, d : Dotted(l, j, d) => Dotted(k, j, d)
    <2>1. Begins(l, k)
        BY <1>1 DEF Begins
    <2> HIDE DEF k
    <2> QED
        BY <1>1, <2>1, HeadsBegin
<1>3. \A j : Heads(l, j) => j \in 1 .. m
    BY <1>1 DEF Heads
<1> HIDE DEF k, m
<1>4. CASE p.state = "method_start"
    <2>1. x \in NameChars /\ to = "method"
        BY <1>4, GoesFromMethod
    <2>2. m = 0
        BY <1>4 DEF OnRequestLine, m
    <2>3. Among(l, 1, m, NameChars)
        BY <2>2 DEF Among
    <2>4. Among(k, 1, m + 1, NameChars)
        BY <1>1, <2>1, <2>3
    <2> QED
        BY <1>1, <2>1, <2>4, Classes DEF OnRequestLine, RequestStates, k
<1>5. CASE p.state = "method"
    <2>1. m > 0 /\ Among(l, 1, m, NameChars)
        BY <1>5 DEF OnRequestLine, m
    <2>2. CASE x = SP /\ to = "uri"
        <3>1. m + 1 \in Where(k, SP) /\ m + 1 > 1 /\ Among(k, 1, (m + 1) - 1, NameChars)
            BY <1>1, <2>1, <2>2
        <3>2. Among(k, (m + 1) + 1, m + 1, TextChars \ {SP})
            BY <1>1 DEF Among
        <3> QED
            BY <1>1, <2>2, <3>1, <3>2, Classes DEF OnRequestLine, RequestStates, k
    <2>3. CASE x \in NameChars /\ to = "method"
        <3>1. Among(k, 1, m + 1, NameChars)
            BY <1>1, <2>1, <2>3
        <3> QED
            BY <1>1, <2>3, <3>1, Classes DEF OnRequestLine, RequestStates, k
    <2> QED
        BY <1>5, <2>2, <2>3, GoesFromMethod
<1>6. CASE p.state = "uri"
    <2>1. PICK i \in Where(l, SP) : /\ i > 1 /\ Among(l, 1, i - 1, NameChars)
                                    /\ Among(l, i + 1, m, TextChars \ {SP})
        BY <1>6 DEF OnRequestLine, m
    <2>2. i \in 1 .. m /\ i \in Where(k, SP) /\ Among(k, 1, i - 1, NameChars)
        BY <1>1, <2>1
    <2>3. CASE x = SP /\ to = "http_version_h"
        <3>1. Among(k, i + 1, (m + 1) - 1, TextChars \ {SP})
            BY <1>1, <2>1, <2>2
        <3>2. Heads(k, m + 1)
            BY <1>1, <2>1, <2>2, <2>3, <3>1 DEF Heads
        <3> QED
            BY <1>1, <2>3, <3>2, Classes DEF OnRequestLine, RequestStates, k
    <2>4. CASE x \in TextChars \ {SP} /\ to = "uri"
        <3>1. Among(k, i + 1, m + 1, TextChars \ {SP})
            BY <1>1, <2>1, <2>2, <2>4
        <3> QED
            BY <1>1, <2>1, <2>2, <2>4, <3>1, Classes DEF OnRequestLine, RequestStates, k
    <2> QED
        BY <1>6, <2>3, <2>4, GoesFromMethod
<1>7. CASE p.state = "http_version_h"
    <2>1. x = "H" /\ to = "http_version_t_1" /\ Heads(l, m)
        BY <1>7, GoesFromVersion DEF OnRequestLine, m
    <2>2. Heads(k, (m + 1) - 1)
        BY <1>1, <1>2, <2>1
    <2> QED
        BY <1>1, <2>1, <2>2 DEF OnRequestLine, RequestStates, k, LF
<1>8. CASE p.state = "http_version_t_1"
    <2>1. x = "T" /\ to = "http_version_t_2" /\ Heads(l, m - 1) /\ l[m] = "H"
        BY <1>8, GoesFromVersion DEF OnRequestLine, m
    <2>2. Heads(k, (m + 1) - 2) /\ k[(m + 1) - 1] = "H"
        <3>1. (m + 1) - 2 = m - 1 /\ (m + 1) - 1 = m /\ m \in 1 .. m
            <4>1. m - 1 \in 1 .. m
                BY <1>3, <2>1
            <4> QED
                BY <1>1, <4>1
        <3> QED
            BY <1>1, <1>2, <2>1, <3>1
    <2> QED
        BY <1>1, <2>1, <2>2 DEF OnRequestLine, RequestStates, k, LF
<1>9. CASE p.state = "http_version_t_2"
    <2>1. x = "T" /\ to = "http_version_p" /\ Heads(l, m - 2) /\ l[m - 1] = "H" /\ l[m] = "T"
        BY <1>9, GoesFromVersion DEF OnRequestLine, m
    <2>2. Heads(k, (m + 1) - 3) /\ k[(m + 1) - 2] = "H" /\ k[(m + 1) - 1] = "T"
        <3>1. /\ (m + 1) - 3 = m - 2 /\ (m + 1) - 2 = m - 1 /\ (m + 1) - 1 = m
              /\ m \in 1 .. m /\ m - 1 \in 1 .. m
            <4>1. m - 2 \in 1 .. m
                BY <1>3, <2>1
            <4> QED
                BY <1>1, <4>1
        <3> QED
            BY <1>1, <1>2, <2>1, <3>1
    <2> QED
        BY <1>1, <2>1, <2>2 DEF OnRequestLine, RequestStates, k, LF
<1>10. CASE p.state = "http_version_p"
    <2>1. /\ x = "P" /\ to = "http_version_slash"
          /\ Heads(l, m - 3) /\ l[m - 2] = "H" /\ l[m - 1] = "T" /\ l[m] = "T"
        BY <1>10, GoesFromVersion DEF OnRequestLine, m
    <2>2. /\ Heads(k, (m + 1) - 4) /\ k[(m + 1) - 3] = "H" /\ k[(m + 1) - 2] = "T"
          /\ k[(m + 1) - 1] = "T"
        <3>1. /\ (m + 1) - 4 = m - 3 /\ (m + 1) - 3 = m - 2 /\ (m + 1) - 2 = m - 1
              /\ (m + 1) - 1 = m
              /\ m \in 1 .. m /\ m - 1 \in 1 .. m /\ m - 2 \in 1 .. m
            BY <1>1, <1>3, <2>1
        <3> QED
            BY <1>1, <1>2, <2>1, <3>1
    <2> QED
        BY <1>1, <2>1, <2>2 DEF OnRequestLine, RequestStates, k, LF
<1>11. CASE p.state = "http_version_slash"
    <2>1. /\ x = "/" /\ to = "http_version_major_start"
          /\ Heads(l, m - 4) /\ l[m - 3] = "H" /\ l[m - 2] = "T" /\ l[m - 1] = "T" /\ l[m] = "P"
        BY <1>11, GoesFromVersion DEF OnRequestLine, m
    <2>2. Http(k, (m + 1) - 5)
        <3> DEFINE j == m - 4
        <3>1. /\ (m + 1) - 5 = j /\ m - 3 = j + 1 /\ m - 2 = j + 2 /\ m - 1 = j + 3
              /\ m = j + 4 /\ m + 1 = j + 5
              /\ m \in 1 .. m /\ m - 1 \in 1 .. m /\ m - 2 \in 1 .. m /\ m - 3 \in 1 .. m
            BY <1>1, <1>3, <2>1
        <3>2. k[j + 1] = "H" /\ k[j + 2] = "T" /\ k[j + 3] = "T" /\ k[j + 4] = "P"
            BY <1>1, <2>1, <3>1
        <3>3. k[j + 5] = "/" /\ j + 5 <= Len(k) /\ Heads(k, j)
            BY <1>1, <1>2, <2>1, <3>1
        <3> QED
            BY <3>1, <3>2, <3>3 DEF Http
    <2> QED
        BY <1>1, <2>1, <2>2 DEF OnRequestLine, RequestStates, k, LF
<1>12. CASE p.state = "http_version_major_start"
    <2>1. x \in Digits /\ to = "http_version_major" /\ Http(l, m - 5)
        BY <1>12, GoesFromVersion DEF OnRequestLine, m
    <2> DEFINE j == m - 5
    <2>2. Http(k, j) /\ j \in Where(k, SP) /\ j + 5 < m + 1
        BY <1>1, <1>2, <2>1 DEF Http, Heads
    <2>3. Among(k, j + 6, m + 1, Digits)
        BY <1>1, <2>1 DEF Among
    <2> QED
        BY <1>1, <2>1, <2>2, <2>3, Classes DEF OnRequestLine, RequestStates, k
<1>13. CASE p.state = "http_version_major"
    <2>1. PICK j \in Where(l, SP) : Http(l, j) /\ j + 5 < m /\ Among(l, j + 6, m, Digits)
        BY <1>13 DEF OnRequestLine, m
    <2>2. j \in 1 .. m /\ j \in Where(k, SP) /\ Http(k, j)
        BY <1>1, <1>2, <2>1
    <2>3. CASE x = "." /\ to = "http_version_minor_start"
        <3>1. Among(k, j + 6, (m + 1) - 1, Digits)
            BY <1>1, <2>1, <2>2
        <3>2. Dotted(k, j, m + 1)
            BY <1>1, <2>1, <2>2, <2>3, <3>1 DEF Dotted
        <3> QED
            BY <1>1, <2>2, <2>3, <3>2 DEF OnRequestLine, RequestStates, k, LF
    <2>4. CASE x \in Digits /\ to = "http_version_major"
        <3>1. Among(k, j + 6, m + 1, Digits)
            BY <1>1, <2>1, <2>2, <2>4
        <3> QED
            BY <1>1, <2>1, <2>2, <2>4, <3>1, Classes DEF OnRequestLine, RequestStates, k
    <2> QED
        BY <1>13, <2>3, <2>4, GoesFromVersion
<1>14. CASE p.state = "http_version_minor_start"
    <2>1. PICK j \in Where(l, SP) : Dotted(l, j, m)
        BY <1>14 DEF OnRequestLine, m
    <2>2. x \in Digits /\ to = "http_version_minor"
        BY <1>14, GoesFromVersion
    <2>3. j \in Where(k, SP) /\ Dotted(k, j, m) /\ m \in Where(k, ".")
        BY <1>1, <1>2, <2>1 DEF Dotted
    <2>4. Among(k, m + 1, m + 1, Digits)
        BY <1>1, <2>2 DEF Among
    <2> QED
        BY <1>1, <2>2, <2>3, <2>4, Classes DEF OnRequestLine, RequestStates, k
<1>15. CASE p.state = "http_version_minor"
    <2>1. PICK j \in Where(l, SP), d \in Where(l, ".") :
                Dotted(l, j, d) /\ d < m /\ Among(l, d + 1, m, Digits)
        BY <1>15 DEF OnRequestLine, m
    <2>2. /\ j \in Where(k, SP) /\ d \in Where(k, ".") /\ Dotted(k, j, d) /\ d \in 1 .. m
        BY <1>1, <1>2, <2>1
    <2>3. CASE x = CR /\ to = "expecting_newline_1"
        <3>1. Among(k, d + 1, Len(k) - 1, Digits)
            BY <1>1, <2>1, <2>2
        <3>2. Len(k) \in Nat /\ d + 1 < Len(k) /\ k[Len(k)] = CR
            BY <1>1, <2>1, <2>2, <2>3
        <3>3. RequestLine(k)
            BY <1>1, <2>2, <3>1, <3>2, RequestLineEnds
        <3> QED
            BY <2>3, <3>3 DEF OnRequestLine, RequestStates, k, CR, LF
    <2>4. CASE x \in Digits /\ to = "http_version_minor"
        <3>1. Among(k, d + 1, m + 1, Digits)
            BY <1>1, <2>1, <2>2, <2>4
        <3> QED
            BY <1>1, <2>1, <2>2, <2>4, <3>1, Classes DEF OnRequestLine, RequestStates, k
    <2> QED
        BY <1>15, <2>3, <2>4, GoesFromVersion
<1> QED
    BY <1>4, <1>5, <1>6, <1>7, <1>8, <1>9, <1>10, <1>11, <1>12, <1>13, <1>14, <1>15
    DEF RequestStates

-----------------------------------------------------------------------------
(* Lines of headers *)

\* The first character of which a test is true
LEMMA SelectFirst ==
    ASSUME NEW S, NEW l \in Seq(S), NEW k \in 1 .. Len(l)
    PROVE  /\ l[k] = ":" /\ (\A i \in 1 .. k - 1 : l[i] # ":") =>
                    SelectInSeq(l, LAMBDA c : c = ":") = k
           /\ l[k] \notin {SP, HT} /\ (\A i \in 1 .. k - 1 : l[i] \in {SP, HT}) =>
                    SelectInSeq(l, LAMBDA c : c \notin {SP, HT}) = k
<1>0. Len(l) \in Nat
    OBVIOUS
<1>1. ASSUME NEW I \in SUBSET (1 .. Len(l)), k \in I, \A i \in I : ~(i <= k - 1)
      PROVE  (IF I # {} THEN Min(I) ELSE 0) = k
    <2> DEFINE first == Min(I)
    <2>1. first \in I /\ \A i \in I : first <= i
        <3>1. I # {}
            BY <1>1
        <3> QED
            BY <1>0, <3>1, MinUpTo
    <2> HIDE DEF first
    <2>2. first \in 1 .. Len(l) /\ first <= k /\ ~(first <= k - 1)
        BY <1>1, <2>1
    <2>3. first = k
        BY <1>0, <2>2
    <2>4. I # {}
        BY <1>1
    <2> QED
        BY <2>3, <2>4 DEF first
<1>2. ASSUME l[k] = ":", \A i \in 1 .. k - 1 : l[i] # ":"
      PROVE  SelectInSeq(l, LAMBDA c : c = ":") = k
    <2> DEFINE I == {i \in 1 .. Len(l) : l[i] = ":"}
    <2>1. SelectInSeq(l, LAMBDA c : c = ":") = IF I # {} THEN Min(I) ELSE 0
        BY DEF SelectInSeq
    <2>2. I \in SUBSET (1 .. Len(l)) /\ k \in I /\ \A i \in I : ~(i <= k - 1)
        BY <1>0, <1>2
    <2> HIDE DEF I
    <2>3. (IF I # {} THEN Min(I) ELSE 0) = k
        BY <1>1, <2>2
    <2> QED
        BY <2>1, <2>3
<1>3. ASSUME l[k] \notin {SP, HT}, \A i \in 1 .. k - 1 : l[i] \in {SP, HT}
      PROVE  SelectInSeq(l, LAMBDA c : c \notin {SP, HT}) = k
    <2> DEFINE I == {i \in 1 .. Len(l) : l[i] \notin {SP, HT}}
    <2>1. SelectInSeq(l, LAMBDA c : c \notin {SP, HT}) = IF I # {} THEN Min(I) ELSE 0
        BY DEF SelectInSeq
    <2>2. I \in SUBSET (1 .. Len(l)) /\ k \in I /\ \A i \in I : ~(i <= k - 1)
        BY <1>0, <1>3
    <2> HIDE DEF I
    <2>3. (IF I # {} THEN Min(I) ELSE 0) = k
        BY <1>1, <2>2
    <2> QED
        BY <2>1, <2>3
<1> QED
    BY <1>2, <1>3

HeaderStates == {"header_line_start", "header_lws", "header_name",
    "space_before_header_value", "header_value", "expecting_newline_2",
    "expecting_newline_3"}

Header(name, value) == [name |-> name, value |-> value]

\* The headers h, and one more
Begun(h, name, value) == Append(h, Header(name, value))

\* The headers h, the value of the last of them continued with v
Continued(h, v) == [h EXCEPT ![Len(h)].value = @ \o v]

\* A name and a colon at position k, and the space after it
NamedAt(l, k) ==
    /\ k \in Where(l, ":") /\ k > 1 /\ Among(l, 1, k - 1, NameChars)
    /\ k + 1 <= Len(l) /\ l[k + 1] = SP

\* White space before position k
FoldedAt(l, k) ==
    /\ k \in 2 .. Len(l) /\ Among(l, 1, k - 1, {SP, HT}) /\ l[k] \notin {SP, HT}

\* What the parser has seen of a line of headers, in each state: h are the headers
\* of the lines before, hs those it has.
OnHeaderLine(state, l, h, hs) ==
    LET m == Len(l) IN
    CASE state = "header_line_start" -> l = <<>> /\ hs = h
      [] state = "header_lws" -> m > 0 /\ Among(l, 1, m, {SP, HT}) /\ h # <<>> /\ hs = h
      [] state = "header_name" ->
            m > 0 /\ Among(l, 1, m, NameChars) /\ hs = Begun(h, l, <<>>)
      [] state = "space_before_header_value" ->
            /\ m > 1 /\ Among(l, 1, m - 1, NameChars) /\ l[m] = ":"
            /\ hs = Begun(h, SubSeq(l, 1, m - 1), <<>>)
      [] state = "header_value" ->
            \E k \in 1 .. m :
                \/ /\ NamedAt(l, k) /\ Among(l, k + 2, m, TextChars)
                   /\ hs = Begun(h, SubSeq(l, 1, k - 1), SubSeq(l, k + 2, m))
                \/ /\ h # <<>> /\ FoldedAt(l, k) /\ Among(l, k, m, TextChars)
                   /\ hs = Continued(h, SubSeq(l, k, m))
      [] state = "expecting_newline_2" ->
            /\ HeaderLine(l) \/ (h # <<>> /\ FoldedLine(l))
            /\ hs = HeaderOf(h, l) /\ hs # <<>>
      [] state = "expecting_newline_3" -> l = <<CR>> /\ hs = h

LEMMA HeaderOfNamed ==
    ASSUME NEW S, NEW l \in Seq(S), NEW k, NamedAt(l, k), NEW h
    PROVE  HeaderOf(h, l) = Begun(h, SubSeq(l, 1, k - 1), Upto(l, k + 2))
<1>1. k \in 1 .. Len(l) /\ k > 1 /\ l[k] = ":" /\ \A i \in 1 .. k - 1 : l[i] \in NameChars
    BY DEF NamedAt, Where, Among
<1>2. l[1] \in NameChars
    BY <1>1
<1>3. l[1] \notin {SP, HT} /\ \A i \in 1 .. k - 1 : l[i] # ":"
    BY <1>1, <1>2, Classes
<1>4. SelectInSeq(l, LAMBDA c : c = ":") = k
    BY <1>1, <1>3, SelectFirst
<1> QED
    BY <1>3, <1>4 DEF HeaderOf, Header, Begun

LEMMA HeaderOfFolded ==
    ASSUME NEW S, NEW l \in Seq(S), NEW k, FoldedAt(l, k), NEW h
    PROVE  HeaderOf(h, l) = Continued(h, Upto(l, k))
<1>1. k \in 1 .. Len(l) /\ k > 1 /\ l[k] \notin {SP, HT} /\ \A i \in 1 .. k - 1 : l[i] \in {SP, HT}
    BY DEF FoldedAt, Among
<1>2. l[1] \in {SP, HT}
    BY <1>1
<1>4. SelectInSeq(l, LAMBDA c : c \notin {SP, HT}) = k
    BY <1>1, SelectFirst
<1> QED
    BY <1>2, <1>4 DEF HeaderOf, Continued

\* One more character
LEMMA CutLonger ==
    ASSUME NEW S, NEW l \in Seq(S), NEW x \in S
    PROVE  LET k == Append(l, x)
               m == Len(l)
           IN  /\ \A a \in Nat \ {0}, b \in Int : b <= m => SubSeq(k, a, b) = SubSeq(l, a, b)
               /\ \A a \in 1 .. m + 1 : SubSeq(k, a, m + 1) = Append(SubSeq(l, a, m), x)
               /\ \A a \in Nat \ {0} : SubSeq(l, a, m) \in Seq(S)
               /\ \A a \in Nat \ {0}, b \in Int : b < a => SubSeq(l, a, b) = <<>>
               /\ SubSeq(k, 1, m) = l
OBVIOUS

Headers == [name : Seq(Chars), value : Seq(Chars)]

\* The last element replaced
LEMMA LastOfAppend ==
    ASSUME NEW S, NEW h \in Seq(S), NEW d \in S, NEW e \in S
    PROVE  [Append(h, d) EXCEPT ![Len(Append(h, d))] = e] = Append(h, e)
<1> DEFINE s == Append(h, d)
           m == Len(s)
           r == [s EXCEPT ![m] = e]
           t == Append(h, e)
<1>1. /\ s \in Seq(S) /\ t \in Seq(S) /\ Len(s) = Len(h) + 1 /\ Len(t) = Len(h) + 1
      /\ Len(h) \in Nat /\ t[Len(h) + 1] = e
      /\ \A i \in 1 .. Len(h) : s[i] = h[i] /\ t[i] = h[i]
    OBVIOUS
<1> HIDE DEF s, t
<1>2. m \in 1 .. m
    BY <1>1
<1>3. r \in Seq(S) /\ Len(r) = m /\ \A i \in 1 .. m : r[i] = IF i = m THEN e ELSE s[i]
    BY <1>1, <1>2, ExceptSeq
<1> HIDE DEF r
<1>4. (\A i \in 1 .. Len(r) : r[i] = t[i]) /\ Len(r) = Len(t)
    BY <1>1, <1>3
<1>5. r = t
    BY <1>1, <1>3, <1>4, SeqEqual
<1> QED
    BY <1>5 DEF r, s, t

LEMMA LastTwice ==
    ASSUME NEW S, NEW h \in Seq(S), h # <<>>, NEW d \in S, NEW e \in S
    PROVE  /\ [h EXCEPT ![Len(h)] = d] \in Seq(S)
           /\ Len([h EXCEPT ![Len(h)] = d]) = Len(h)
           /\ [h EXCEPT ![Len(h)] = d][Len(h)] = d
           /\ [[h EXCEPT ![Len(h)] = d] EXCEPT ![Len(h)] = e] = [h EXCEPT ![Len(h)] = e]
           /\ [h EXCEPT ![Len(h)] = h[Len(h)]] = h
<1> DEFINE m == Len(h)
           r == [h EXCEPT ![m] = d]
<1>1. m \in 1 .. m /\ h \in [1 .. m -> S]
    OBVIOUS
<1>2. r \in Seq(S) /\ Len(r) = m /\ r[m] = d
    BY <1>1, ExceptSeq
<1>3. r \in [1 .. m -> S]
    BY <1>1
<1>4. [r EXCEPT ![m] = e] = [h EXCEPT ![m] = e]
    BY <1>1
<1>5. [h EXCEPT ![m] = h[m]] = h
    BY <1>1
<1> QED
    BY <1>2, <1>4, <1>5

LEMMA ConcatLonger ==
    ASSUME NEW S, NEW s \in Seq(S), NEW u \in Seq(S), NEW x \in S
    PROVE  /\ s \o Append(u, x) \in Seq(S) /\ s \o Append(u, x) = Append(s \o u, x)
OBVIOUS

LEMMA HeaderFields ==
    \A a, b, w : /\ Header(a, b).name = a /\ Header(a, b).value = b
                 /\ [Header(a, b) EXCEPT !.name = w] = Header(w, b)
                 /\ [Header(a, b) EXCEPT !.value = w] = Header(a, w)
BY DEF Header

NameWith(hs, c) == [hs EXCEPT ![Len(hs)].name = Append(@, c)]

ValueWith(hs, c) == [hs EXCEPT ![Len(hs)].value = Append(@, c)]

\* push_back to headers.back(), of a header that is new
LEMMA NewGrows ==
    ASSUME NEW h \in Seq(Headers), NEW n \in Seq(Chars), NEW v \in Seq(Chars), NEW c \in Chars
    PROVE  /\ Begun(h, n, v) \in Seq(Headers) /\ Begun(h, n, v) # <<>>
           /\ NameWith(Begun(h, n, v), c) = Begun(h, Append(n, c), v)
           /\ ValueWith(Begun(h, n, v), c) = Begun(h, n, Append(v, c))
<1>0. Header(n, v) \in Headers /\ Header(Append(n, c), v) \in Headers
      /\ Header(n, Append(v, c)) \in Headers
    BY DEF Header, Headers
<1> DEFINE e == Header(n, v)
           hs == Append(h, e)
<1>1. /\ hs \in Seq(Headers) /\ Len(hs) = Len(h) + 1 /\ hs[Len(hs)] = e /\ Len(h) \in Nat
      /\ \A i \in 1 .. Len(h) : hs[i] = h[i]
    BY <1>0
<1>2. [e EXCEPT !.name = Append(e.name, c)] = Header(Append(n, c), v)
    <2>1. e.name = n
        BY HeaderFields
    <2>2. \A w : [e EXCEPT !.name = w] = Header(w, v)
        BY DEF Header
    <2> QED
        BY <2>1, <2>2
<1>3. [e EXCEPT !.value = Append(e.value, c)] = Header(n, Append(v, c))
    <2>1. e.value = v
        BY HeaderFields
    <2>2. \A w : [e EXCEPT !.value = w] = Header(n, w)
        BY DEF Header
    <2> QED
        BY <2>1, <2>2
<1>4. ASSUME NEW f \in Headers PROVE [hs EXCEPT ![Len(hs)] = f] = Append(h, f)
    <2>1. e \in Headers /\ hs = Append(h, e)
        BY <1>0
    <2> HIDE DEF e, hs
    <2> QED
        BY <2>1, LastOfAppend
<1>5. hs # <<>>
    BY <1>1
<1> HIDE DEF e, hs
<1>6. [hs EXCEPT ![Len(hs)].name = Append(@, c)] = Append(h, Header(Append(n, c), v))
    BY <1>0, <1>1, <1>2, <1>4
<1>7. [hs EXCEPT ![Len(hs)].value = Append(@, c)] = Append(h, Header(n, Append(v, c)))
    BY <1>0, <1>1, <1>3, <1>4
<1> QED
    BY <1>1, <1>5, <1>6, <1>7 DEF NameWith, ValueWith, Begun, e, hs

\* and of one that a line continues
LEMMA ContinuedGrows ==
    ASSUME NEW h \in Seq(Headers), h # <<>>, NEW v \in Seq(Chars), NEW c \in Chars
    PROVE  /\ Continued(h, v) \in Seq(Headers) /\ Continued(h, v) # <<>>
           /\ ValueWith(Continued(h, v), c) = Continued(h, Append(v, c))
           /\ ValueWith(h, c) = Continued(h, <<c>>)
           /\ Continued(h, <<>>) = h
<1> DEFINE m == Len(h)
           e == h[m]
           hs == Continued(h, v)
           With(w) == [name |-> e.name, value |-> w]
<1>1. m \in 1 .. m /\ e \in Headers
    OBVIOUS
<1>2. e.value \in Seq(Chars) /\ e.name \in Seq(Chars) /\ e = With(e.value)
    BY <1>1 DEF Headers
<1>3. \A w \in Seq(Chars) : With(w) \in Headers /\ With(w).value = w
    BY <1>2 DEF Headers
<1>4. \A u, w : [With(u) EXCEPT !.value = w] = With(w)
    OBVIOUS
<1>5. \A w : Continued(h, w) = [h EXCEPT ![m] = With(e.value \o w)]
    <2> TAKE w
    <2>1. Continued(h, w) = [h EXCEPT ![m] = [e EXCEPT !.value = e.value \o w]]
        BY DEF Continued
    <2>2. [e EXCEPT !.value = e.value \o w] = With(e.value \o w)
        BY <1>2, <1>4
    <2> QED
        BY <2>1, <2>2
<1> HIDE DEF e, With
<1>6. e.value \o v \in Seq(Chars) /\ e.value \o <<c>> \in Seq(Chars)
    BY <1>2
<1>7. Append(e.value, c) = e.value \o <<c>> /\ e.value \o <<>> = e.value
    <2>1. ASSUME NEW b \in Seq(Chars) PROVE Append(b, c) = b \o <<c>> /\ b \o <<>> = b
        OBVIOUS
    <2> QED
        BY <1>2, <2>1
<1>8. /\ Append(e.value \o v, c) = e.value \o Append(v, c)
      /\ e.value \o Append(v, c) \in Seq(Chars)
    <2>1. ASSUME NEW b \in Seq(Chars)
          PROVE  b \o Append(v, c) \in Seq(Chars) /\ b \o Append(v, c) = Append(b \o v, c)
        BY ConcatLonger
    <2> QED
        BY <1>2, <2>1
<1> DEFINE d == With(e.value \o v)
<1>9. d \in Headers /\ hs = [h EXCEPT ![m] = d] /\ d.value = e.value \o v
    BY <1>3, <1>5, <1>6
<1>10. /\ hs \in Seq(Headers) /\ Len(hs) = m /\ hs[m] = d
       /\ \A u \in Headers : [hs EXCEPT ![m] = u] = [h EXCEPT ![m] = u]
       /\ [h EXCEPT ![m] = e] = h
    BY <1>9, LastTwice DEF e
<1>11. hs # <<>>
    BY <1>1, <1>10
<1> HIDE DEF hs
<1>12. [hs EXCEPT ![Len(hs)].value = Append(@, c)] = Continued(h, Append(v, c))
    <2>1. [d EXCEPT !.value = Append(d.value, c)] = With(e.value \o Append(v, c))
        BY <1>4, <1>8, <1>9
    <2>2. With(e.value \o Append(v, c)) \in Headers
        BY <1>3, <1>8
    <2> HIDE DEF d
    <2>3. [hs EXCEPT ![Len(hs)].value = Append(@, c)] =
                [hs EXCEPT ![m] = [d EXCEPT !.value = Append(d.value, c)]]
        BY <1>10
    <2> QED
        BY <1>5, <1>10, <2>1, <2>2, <2>3
<1>13. [h EXCEPT ![Len(h)].value = Append(@, c)] = Continued(h, <<c>>)
    <2>1. [h EXCEPT ![Len(h)].value = Append(@, c)] =
                [h EXCEPT ![m] = [e EXCEPT !.value = Append(e.value, c)]]
        BY DEF e
    <2>2. [e EXCEPT !.value = Append(e.value, c)] = With(e.value \o <<c>>)
        BY <1>2, <1>4, <1>7
    <2> QED
        BY <1>5, <2>1, <2>2
<1>14. Continued(h, <<>>) = h
    <2>1. With(e.value \o <<>>) = e
        BY <1>2, <1>7
    <2> QED
        BY <1>5, <1>10, <2>1
<1> QED
    BY <1>10, <1>11, <1>12, <1>13, <1>14 DEF ValueWith, hs

LEMMA ContinuedBegins ==
    ASSUME NEW h \in Seq(Headers), h # <<>>, NEW c \in Chars
    PROVE  ValueWith(h, c) = Continued(h, <<c>>) /\ Continued(h, <<>>) = h
<1>1. <<>> \in Seq(Chars)
    OBVIOUS
<1> QED
    BY <1>1, ContinuedGrows

LEMMA HeaderLineGrows ==
    ASSUME NEW p \in Sound, NEW h \in Seq(Headers), NEW l \in Seq(Chars), NEW x \in Chars, NEW to,
           p.state \in HeaderStates \ {"expecting_newline_2", "expecting_newline_3"},
           OnHeaderLine(p.state, l, h, p.headers), Goes(p, x, to)
    PROVE  /\ to \in HeaderStates
           /\ OnHeaderLine(to, Append(l, x), h, PushHeader(p, x, to))
           /\ x # LF
<1> DEFINE k == Append(l, x)
           m == Len(l)
           hs == p.headers
           gs == PushHeader(p, x, to)
<1>1. /\ m \in Nat /\ k \in Seq(Chars) /\ Len(k) = m + 1 /\ k[m + 1] = x
      /\ \A i \in 1 .. m : k[i] = l[i]
      /\ \A c : \A i \in Where(l, c) : i \in 1 .. m /\ i \in Where(k, c) /\ l[i] = c
      /\ m + 1 \in Where(k, x)
      /\ \A T : \A a \in Nat \ {0} : \A b \in Int :
                    b <= m /\ Among(l, a, b, T) => Among(k, a, b, T)
      /\ \A T : \A a \in Nat \ {0} : Among(l, a, m, T) /\ x \in T => Among(k, a, m + 1, T)
    BY Longer
<1>2. /\ \A a \in Nat \ {0}, b \in Int : b <= m => SubSeq(k, a, b) = SubSeq(l, a, b)
      /\ \A a \in 1 .. m + 1 : SubSeq(k, a, m + 1) = Append(SubSeq(l, a, m), x)
      /\ \A a \in Nat \ {0} : SubSeq(l, a, m) \in Seq(Chars)
      /\ \A a \in Nat \ {0}, b \in Int : b < a => SubSeq(l, a, b) = <<>>
      /\ SubSeq(k, 1, m) = l
    BY CutLonger
<1>3. hs \in Seq(Headers)
    BY DEF Sound, Parsers, Headers
<1>4. /\ to \notin {"header_name", "header_value"} => gs = hs
      /\ to = "header_name" /\ p.state = "header_line_start" =>
            gs = Begun(hs, <<x>>, <<>>)
      /\ to = "header_name" /\ p.state # "header_line_start" =>
            gs = NameWith(hs, x)
      /\ to = "header_value" /\ p.state = "space_before_header_value" => gs = hs
      /\ to = "header_value" /\ p.state # "space_before_header_value" =>
            gs = ValueWith(hs, x)
    BY DEF PushHeader, Begun, Header, NameWith, ValueWith
<1>5. k # <<>>
    BY <1>1
<1> HIDE DEF k, m, gs, hs
<1>11. ASSUME NEW n \in Seq(Chars), NEW v \in Seq(Chars), hs = Begun(h, n, v)
       PROVE  /\ NameWith(hs, x) = Begun(h, Append(n, x), v)
              /\ ValueWith(hs, x) = Begun(h, n, Append(v, x))
              /\ hs # <<>>
    BY <1>11, NewGrows
<1>12. ASSUME NEW v \in Seq(Chars), h # <<>>, hs = Continued(h, v)
       PROVE  /\ ValueWith(hs, x) = Continued(h, Append(v, x))
              /\ hs # <<>>
    BY <1>12, ContinuedGrows
<1>6. CASE p.state = "header_line_start"
    <2>1. l = <<>> /\ hs = h
        BY <1>6 DEF OnHeaderLine, hs
    <2>2. m = 0 /\ k = <<x>> /\ Len(k) = 1 /\ k[1] = x
        BY <1>1, <2>1 DEF m, k
    <2>3. CASE x = CR /\ to = "expecting_newline_3"
        <3>1. gs = h /\ k = <<CR>>
            BY <1>4, <2>1, <2>2, <2>3
        <3> QED
            BY <2>3, <3>1, Classes DEF OnHeaderLine, HeaderStates, k, gs, CR, LF
    <2>4. CASE x \in NameChars /\ to = "header_name"
        <3>1. gs = Begun(h, k, <<>>)
            BY <1>4, <1>6, <2>1, <2>2, <2>4
        <3>2. Among(k, 1, Len(k), NameChars) /\ Len(k) > 0
            BY <2>2, <2>4 DEF Among
        <3> QED
            BY <2>4, <3>1, <3>2, Classes DEF OnHeaderLine, HeaderStates, k, gs
    <2>5. CASE hs # <<>> /\ x \in {SP, HT} /\ to = "header_lws"
        <3>1. gs = h /\ h # <<>>
            BY <1>4, <2>1, <2>5
        <3>2. Among(k, 1, Len(k), {SP, HT}) /\ Len(k) > 0
            BY <2>2, <2>5 DEF Among
        <3> QED
            BY <2>5, <3>1, <3>2 DEF OnHeaderLine, HeaderStates, k, gs, LF, SP, HT
    <2> QED
        BY <1>6, <2>3, <2>4, <2>5, GoesFromHeader DEF hs
<1>7. CASE p.state = "header_lws"
    <2>1. m > 0 /\ Among(l, 1, m, {SP, HT}) /\ h # <<>> /\ hs = h
        BY <1>7 DEF OnHeaderLine, m, hs
    <2>2. m + 1 \in 2 .. Len(k) /\ Among(k, 1, (m + 1) - 1, {SP, HT})
        BY <1>1, <2>1
    <2>3. CASE x = CR /\ to = "expecting_newline_2"
        <3>1. FoldedAt(k, m + 1)
            BY <1>1, <2>2, <2>3 DEF FoldedAt, CR, SP, HT
        <3>2. FoldedLine(k)
            <4>1. Ended(k)
                BY <1>1, <1>5, <2>3 DEF Ended
            <4>2. Among(k, m + 1, Len(k) - 1, TextChars)
                BY <1>1 DEF Among
            <4> QED
                BY <2>2, <4>1, <4>2 DEF FoldedLine
        <3>3. HeaderOf(h, k) = Continued(h, Upto(k, m + 1))
            BY <1>1, <3>1, HeaderOfFolded
        <3>4. Upto(k, m + 1) = <<>>
            BY <1>1, <1>2 DEF Upto
        <3>5. Continued(h, <<>>) = h
            BY <2>1, ContinuedBegins
        <3>6. gs = h
            BY <1>4, <2>1, <2>3
        <3> QED
            BY <2>1, <2>3, <3>2, <3>3, <3>4, <3>5, <3>6
            DEF OnHeaderLine, HeaderStates, k, gs, CR, LF
    <2>4. CASE x \in {SP, HT} /\ to = "header_lws"
        <3>1. gs = h
            BY <1>4, <2>1, <2>4
        <3>2. Among(k, 1, Len(k), {SP, HT}) /\ Len(k) > 0
            BY <1>1, <2>1, <2>4
        <3> QED
            BY <2>1, <2>4, <3>1, <3>2 DEF OnHeaderLine, HeaderStates, k, gs, LF, SP, HT
    <2>5. CASE x \in TextChars \ {SP} /\ to = "header_value"
        <3>1. FoldedAt(k, m + 1) /\ m + 1 \in 1 .. Len(k)
            BY <1>1, <2>2, <2>5, Classes DEF FoldedAt
        <3>2. Among(k, m + 1, Len(k), TextChars)
            BY <1>1, <2>5 DEF Among
        <3>3. SubSeq(k, m + 1, Len(k)) = <<x>>
            <4>1. SubSeq(l, m + 1, m) = <<>> /\ m + 1 \in 1 .. m + 1
                BY <1>1, <1>2
            <4>2. SubSeq(k, m + 1, m + 1) = Append(<<>>, x)
                BY <1>2, <4>1
            <4> QED
                BY <1>1, <4>2
        <3>4. gs = Continued(h, <<x>>)
            <4>1. gs = ValueWith(hs, x)
                BY <1>4, <1>7, <2>5
            <4>2. ValueWith(h, x) = Continued(h, <<x>>)
                BY <2>1, ContinuedBegins
            <4> QED
                BY <2>1, <4>1, <4>2
        <3> QED
            BY <2>1, <2>5, <3>1, <3>2, <3>3, <3>4, Classes DEF OnHeaderLine, HeaderStates, k, gs
    <2> QED
        BY <1>7, <2>3, <2>4, <2>5, GoesFromHeader
<1>8. CASE p.state = "header_name"
    <2>1. m > 0 /\ Among(l, 1, m, NameChars) /\ hs = Begun(h, l, <<>>)
        BY <1>8 DEF OnHeaderLine, m, hs
    <2>2. CASE x = ":" /\ to = "space_before_header_value"
        <3>1. gs = Begun(h, SubSeq(k, 1, Len(k) - 1), <<>>)
            <4>1. Len(k) - 1 = m
                BY <1>1
            <4> QED
                BY <1>2, <1>4, <2>1, <2>2, <4>1
        <3>2. Len(k) > 1 /\ Among(k, 1, Len(k) - 1, NameChars) /\ k[Len(k)] = ":"
            <4>1. Len(k) - 1 = m /\ Len(k) > 1 /\ k[Len(k)] = ":"
                BY <1>1, <2>1, <2>2
            <4>2. Among(k, 1, m, NameChars)
                BY <1>1, <2>1
            <4> QED
                BY <4>1, <4>2
        <3> QED
            BY <2>2, <3>1, <3>2 DEF OnHeaderLine, HeaderStates, k, gs, LF
    <2>3. CASE x \in NameChars /\ to = "header_name"
        <3>1. gs = NameWith(hs, x)
            BY <1>4, <1>8, <2>3
        <3>2. <<>> \in Seq(Chars)
            OBVIOUS
        <3>3. gs = Begun(h, Append(l, x), <<>>)
            BY <1>11, <2>1, <3>1, <3>2
        <3>4. Among(k, 1, Len(k), NameChars) /\ Len(k) > 0
            BY <1>1, <2>1, <2>3
        <3> QED
            BY <2>3, <3>3, <3>4, Classes DEF OnHeaderLine, HeaderStates, k, gs
    <2> QED
        BY <1>8, <2>2, <2>3, GoesFromHeader
<1>9. CASE p.state = "space_before_header_value"
    <2>1. /\ m > 1 /\ Among(l, 1, m - 1, NameChars) /\ l[m] = ":"
          /\ hs = Begun(h, SubSeq(l, 1, m - 1), <<>>)
        BY <1>9 DEF OnHeaderLine, m, hs
    <2>2. x = SP /\ to = "header_value"
        BY <1>9, GoesFromHeader
    <2>3. NamedAt(k, m)
        <3>1. m \in Where(k, ":") /\ m + 1 <= Len(k) /\ k[m + 1] = SP
            BY <1>1, <2>1, <2>2 DEF Where
        <3>2. Among(k, 1, m - 1, NameChars)
            BY <1>1, <2>1
        <3> QED
            BY <2>1, <3>1, <3>2 DEF NamedAt
    <2>4. SubSeq(k, 1, m - 1) = SubSeq(l, 1, m - 1) /\ SubSeq(k, m + 2, m + 1) = <<>>
        BY <1>1, <1>2, <2>1, SubSeqEmpty
    <2>5. gs = Begun(h, SubSeq(k, 1, m - 1), SubSeq(k, m + 2, Len(k)))
        BY <1>1, <1>4, <1>9, <2>1, <2>2, <2>4
    <2>6. Among(k, m + 2, Len(k), TextChars) /\ m \in 1 .. Len(k)
        BY <1>1, <2>1 DEF Among
    <2> QED
        BY <2>2, <2>3, <2>5, <2>6 DEF OnHeaderLine, HeaderStates, k, gs, LF, SP
<1>10. CASE p.state = "header_value"
    <2>1. PICK j \in 1 .. m :
                \/ /\ NamedAt(l, j) /\ Among(l, j + 2, m, TextChars)
                   /\ hs = Begun(h, SubSeq(l, 1, j - 1), SubSeq(l, j + 2, m))
                \/ /\ h # <<>> /\ FoldedAt(l, j) /\ Among(l, j, m, TextChars)
                   /\ hs = Continued(h, SubSeq(l, j, m))
        BY <1>10 DEF OnHeaderLine, m, hs
    <2>2. j \in 1 .. Len(k) /\ j \in Nat \ {0} /\ j <= m /\ Len(k) - 1 = m
        BY <1>1
    <2>3. SubSeq(k, 1, j - 1) = SubSeq(l, 1, j - 1) /\ SubSeq(k, j, m) = SubSeq(l, j, m)
        BY <1>1, <1>2, <2>2
    <2>4. CASE NamedAt(l, j)
        <3>1. /\ j + 2 \in 1 .. m + 1 /\ j + 2 \in Nat \ {0} /\ k[j + 1] = SP /\ j + 1 <= Len(k)
              /\ j > 1 /\ j \in Where(k, ":") /\ j + 1 <= m
            <4>1. /\ j \in Where(l, ":") /\ j > 1 /\ j + 1 <= m /\ l[j + 1] = SP
                BY <2>4 DEF NamedAt, m
            <4>2. j + 1 \in 1 .. m
                BY <1>1, <2>2, <4>1
            <4> QED
                BY <1>1, <2>2, <4>1, <4>2
        <3>2. Among(k, 1, j - 1, NameChars)
            BY <1>1, <2>2, <2>4 DEF NamedAt
        <3>3. NamedAt(k, j)
            BY <3>1, <3>2 DEF NamedAt
        <3>4. ~FoldedAt(l, j)
            BY <2>2, <2>4, Classes DEF FoldedAt, NamedAt, Among
        <3>5. /\ Among(l, j + 2, m, TextChars)
              /\ hs = Begun(h, SubSeq(l, 1, j - 1), SubSeq(l, j + 2, m))
            BY <2>1, <3>4
        <3>6. SubSeq(k, j + 2, m) = SubSeq(l, j + 2, m)
              /\ SubSeq(k, j + 2, m + 1) = Append(SubSeq(l, j + 2, m), x)
            BY <1>1, <1>2, <3>1
        <3>7. CASE x = CR /\ to = "expecting_newline_2"
            <4>1. Ended(k)
                BY <1>1, <1>5, <3>7 DEF Ended
            <4>2. Among(k, j + 2, Len(k) - 1, TextChars)
                BY <1>1, <2>2, <3>1, <3>5
            <4>3. HeaderLine(k)
                BY <1>1, <3>1, <3>2, <4>1, <4>2 DEF HeaderLine
            <4>4. HeaderOf(h, k) = Begun(h, SubSeq(k, 1, j - 1), Upto(k, j + 2))
                BY <1>1, <3>3, HeaderOfNamed
            <4>5. gs = HeaderOf(h, k)
                BY <1>4, <2>2, <2>3, <3>5, <3>6, <3>7, <4>4 DEF Upto
            <4>6. gs # <<>>
                <5>1. hs # <<>>
                    <6>1. SubSeq(l, 1, j - 1) \in Seq(Chars) /\ SubSeq(l, j + 2, m) \in Seq(Chars)
                        BY <1>1, <1>2, <2>2, <3>1
                    <6> QED
                        BY <1>11, <3>5, <6>1
                <5> QED
                    BY <1>4, <3>7, <5>1
            <4> QED
                BY <3>7, <4>3, <4>5, <4>6 DEF OnHeaderLine, HeaderStates, k, gs, CR, LF
        <3>8. CASE x \in TextChars /\ to = "header_value"
            <4>1. Among(k, j + 2, Len(k), TextChars)
                BY <1>1, <3>1, <3>5, <3>8
            <4>2. gs = ValueWith(hs, x)
                BY <1>4, <1>10, <3>8
            <4>3. SubSeq(l, 1, j - 1) \in Seq(Chars) /\ SubSeq(l, j + 2, m) \in Seq(Chars)
                BY <1>1, <1>2, <2>2, <3>1
            <4>4. gs = Begun(h, SubSeq(l, 1, j - 1), Append(SubSeq(l, j + 2, m), x))
                BY <1>11, <3>5, <4>2, <4>3
            <4>5. gs = Begun(h, SubSeq(k, 1, j - 1), SubSeq(k, j + 2, Len(k)))
                BY <1>1, <2>3, <3>6, <4>4
            <4> QED
                BY <2>2, <3>3, <3>8, <4>1, <4>5, Classes DEF OnHeaderLine, HeaderStates, k, gs
        <3> QED
            BY <1>10, <3>7, <3>8, GoesFromHeader
    <2>5. CASE ~NamedAt(l, j)
        <3>1. /\ h # <<>> /\ FoldedAt(l, j) /\ Among(l, j, m, TextChars)
              /\ hs = Continued(h, SubSeq(l, j, m))
            BY <2>1, <2>5
        <3>2. Among(k, 1, j - 1, {SP, HT}) /\ j \in 2 .. Len(k) /\ k[j] \notin {SP, HT}
            BY <1>1, <2>2, <3>1 DEF FoldedAt
        <3>3. FoldedAt(k, j)
            BY <3>2 DEF FoldedAt
        <3>4. SubSeq(k, j, m + 1) = Append(SubSeq(l, j, m), x) /\ SubSeq(l, j, m) \in Seq(Chars)
            BY <1>1, <1>2, <2>2
        <3>5. CASE x = CR /\ to = "expecting_newline_2"
            <4>1. Ended(k)
                BY <1>1, <1>5, <3>5 DEF Ended
            <4>2. Among(k, j, Len(k) - 1, TextChars)
                BY <1>1, <2>2, <3>1
            <4>3. FoldedLine(k)
                BY <3>2, <4>1, <4>2 DEF FoldedLine
            <4>4. HeaderOf(h, k) = Continued(h, Upto(k, j))
                BY <1>1, <3>3, HeaderOfFolded
            <4>5. gs = HeaderOf(h, k)
                BY <1>4, <2>2, <2>3, <3>1, <3>5, <4>4 DEF Upto
            <4>6. gs # <<>>
                <5>1. hs # <<>>
                    BY <1>12, <3>1, <3>4
                <5> QED
                    BY <1>4, <3>5, <5>1
            <4> QED
                BY <3>1, <3>5, <4>3, <4>5, <4>6 DEF OnHeaderLine, HeaderStates, k, gs, CR, LF
        <3>6. CASE x \in TextChars /\ to = "header_value"
            <4>1. Among(k, j, Len(k), TextChars)
                BY <1>1, <2>2, <3>1, <3>6
            <4>2. gs = ValueWith(hs, x)
                BY <1>4, <1>10, <3>6
            <4>3. gs = Continued(h, Append(SubSeq(l, j, m), x))
                BY <1>12, <3>1, <3>4, <4>2
            <4>4. gs = Continued(h, SubSeq(k, j, Len(k)))
                BY <1>1, <3>4, <4>3
            <4> QED
                BY <2>2, <3>1, <3>3, <3>6, <4>1, <4>4, Classes DEF OnHeaderLine, HeaderStates, k, gs
        <3> QED
            BY <1>10, <3>5, <3>6, GoesFromHeader
    <2> QED
        BY <2>4, <2>5
<1> QED
    BY <1>6, <1>7, <1>8, <1>9, <1>10 DEF HeaderStates, k, gs

-----------------------------------------------------------------------------
(* The headers of the lines up to one *)

GivesStep(ls, m, f) ==
    f = [k \in 1 .. m |-> IF k = 1 THEN <<>> ELSE HeaderOf(f[k - 1], ls[k])]

\* The lines up to the m-th, which is no request line but the first, give the headers h.
Gives(ls, m, h) == \E f : GivesStep(ls, m, f) /\ h = f[m]

LEMMA GivesFirst == \A ls : Gives(ls, 1, <<>>)
<1> SUFFICES ASSUME NEW ls PROVE Gives(ls, 1, <<>>)
    OBVIOUS
<1> DEFINE f == [k \in 1 .. 1 |-> <<>>]
<1>1. f[1] = <<>>
    OBVIOUS
<1>2. GivesStep(ls, 1, f)
    <2>1. [k \in 1 .. 1 |-> IF k = 1 THEN <<>> ELSE HeaderOf(f[k - 1], ls[k])] = f
        OBVIOUS
    <2> QED
        BY <2>1 DEF GivesStep
<1> QED
    BY <1>1, <1>2 DEF Gives

LEMMA GivesNext ==
    ASSUME NEW ls, NEW ks, NEW m \in Nat \ {0}, NEW h, Gives(ls, m, h),
           \A i \in 1 .. m : ks[i] = ls[i]
    PROVE  /\ Gives(ks, m, h)
           /\ Gives(ks, m + 1, HeaderOf(h, ks[m + 1]))
<1>1. PICK f : GivesStep(ls, m, f) /\ h = f[m]
    BY DEF Gives
<1>2. f = [k \in 1 .. m |-> f[k]]
    BY <1>1 DEF GivesStep
<1>6. f[1] = <<>> /\ \A k \in 2 .. m : f[k] = HeaderOf(f[k - 1], ls[k])
    BY <1>1 DEF GivesStep
<1>3. GivesStep(ks, m, f)
    <2>1. \A k \in 1 .. m : f[k] = IF k = 1 THEN <<>> ELSE HeaderOf(f[k - 1], ks[k])
        <3> TAKE k \in 1 .. m
        <3>1. CASE k = 1
            BY <1>6, <3>1
        <3>2. CASE k \in 2 .. m
            BY <1>6, <3>2
        <3> QED
            BY <3>1, <3>2
    <2> QED
        BY <1>2, <2>1 DEF GivesStep
<1> DEFINE g == [k \in 1 .. m + 1 |-> IF k = m + 1 THEN HeaderOf(h, ks[m + 1]) ELSE f[k]]
<1>4. GivesStep(ks, m + 1, g)
    <2>1. g = [k \in 1 .. m + 1 |-> g[k]]
        OBVIOUS
    <2>3. g[m + 1] = HeaderOf(h, ks[m + 1]) /\ \A k \in 1 .. m : g[k] = f[k]
        OBVIOUS
    <2> HIDE DEF g
    <2>2. ASSUME NEW k \in 1 .. m + 1
          PROVE  g[k] = IF k = 1 THEN <<>> ELSE HeaderOf(g[k - 1], ks[k])
        <3>1. CASE k = m + 1
            <4>1. k # 1 /\ k - 1 = m /\ g[m] = h
                BY <1>1, <2>3, <3>1
            <4> QED
                BY <2>3, <3>1, <4>1
        <3>2. CASE k = 1
            BY <1>6, <2>3, <3>2
        <3>3. CASE k \in 2 .. m
            <4>1. k \in 1 .. m /\ k - 1 \in 1 .. m /\ k # 1
                BY <3>3
            <4>2. g[k] = f[k] /\ g[k - 1] = f[k - 1]
                BY <2>3, <4>1
            <4> QED
                BY <1>6, <3>3, <4>1, <4>2
        <3> QED
            BY <3>1, <3>2, <3>3
    <2> QED
        BY <2>1, <2>2 DEF GivesStep
<1>5. g[m + 1] = HeaderOf(h, ks[m + 1])
    OBVIOUS
<1> HIDE DEF g
<1> QED
    BY <1>1, <1>3, <1>4, <1>5 DEF Gives

LEMMA GivesHeaders ==
    ASSUME NEW s, NEW h, LET ls == Split(s, LF) IN
                             Len(ls) - 2 \in Nat \ {0} /\ Gives(ls, Len(ls) - 2, h)
    PROVE  HeadersOf(s) = h
<1> DEFINE ls == Split(s, LF)
           m == Len(ls) - 2
           Is(f) == f = [k \in 1 .. m |-> IF k = 1 THEN <<>> ELSE HeaderOf(f[k - 1], ls[k])]
           g == CHOOSE f : Is(f)
<1>1. PICK f : Is(f) /\ h = f[m]
    BY DEF Gives, GivesStep
<1>2. Is(g)
    BY <1>1
<1>3. HeadersOf(s) = g[m]
    BY DEF HeadersOf
<1>4. m \in Nat \ {0}
    OBVIOUS
<1> HIDE DEF g, m, ls
<1>5. /\ g[1] = <<>> /\ \A k \in 2 .. m : g[k] = HeaderOf(g[k - 1], ls[k])
      /\ f[1] = <<>> /\ \A k \in 2 .. m : f[k] = HeaderOf(f[k - 1], ls[k])
    BY <1>1, <1>2, <1>4
<1> HIDE DEF Is
<1> DEFINE P == {i \in 0 .. m - 1 : g[i + 1] = f[i + 1]}
<1>6. 0 \in P
    BY <1>4, <1>5
<1>7. ASSUME NEW i \in 1 .. m - 1, i - 1 \in P PROVE i \in P
    <2>1. i + 1 \in 2 .. m /\ (i + 1) - 1 = i /\ g[i] = f[i]
        BY <1>4, <1>7
    <2> QED
        BY <1>4, <1>5, <2>1
<1>8. m - 1 \in P
    <2> HIDE DEF P
    <2>1. m - 1 \in Nat
        BY <1>4
    <2>2. 0 .. m - 1 \subseteq P
        BY <1>6, <1>7, <2>1, UpTo
    <2> QED
        BY <2>1, <2>2
<1> QED
    BY <1>1, <1>3, <1>4, <1>8

-----------------------------------------------------------------------------
(* Whole requests *)

\* The lines ls that come before the n-th are lines of a request.
LinesBefore(ls, n) ==
    /\ RequestLine(ls[1])
    /\ \A k \in 2 .. n - 1 : HeaderLine(ls[k]) \/ (k > 2 /\ FoldedLine(ls[k]))

\* The headers that the lines before the n-th give: none before the third.
Before(ls, n, h) ==
    h \in Seq(Headers) /\ Gives(ls, n - 1, h) /\ (h # <<>> <=> n > 2)

\* While the parser q is undecided, the text s is the begin of a request, the last
\* of its lines is one the state of q expects, and the headers of q are those of s.
Fits(q, s) ==
    LET ls == Split(s, LF)
        n == Len(ls)
    IN  \/ /\ q.state \in RequestStates
           /\ n = 1 /\ OnRequestLine(q.state, ls[1]) /\ q.headers = <<>>
        \/ /\ q.state \in HeaderStates
           /\ n > 1 /\ LinesBefore(ls, n)
           /\ \E h : Before(ls, n, h) /\ OnHeaderLine(q.state, ls[n], h, q.headers)

\* What a line feed and another character make of the lines
LEMMA LinesGrow ==
    ASSUME NEW s \in Seq(Chars), NEW x \in Chars
    PROVE  LET ls == Split(s, LF)
               ks == Split(Append(s, x), LF)
               n == Len(ls)
           IN  /\ n \in Nat \ {0} /\ \A k \in 1 .. n : ls[k] \in Seq(Chars)
               /\ x = LF => /\ Len(ks) = n + 1 /\ ks[n + 1] = <<>>
                            /\ \A i \in 1 .. n : ks[i] = ls[i]
               /\ x # LF => /\ Len(ks) = n /\ ks[n] = Append(ls[n], x)
                            /\ \A i \in 1 .. n : i # n => ks[i] = ls[i]
<1>1. /\ Split(s, LF) \in Seq(Seq(Chars)) /\ Len(Split(s, LF)) \in Nat \ {0}
    BY PiecesGrow
<1>2. \A k \in 1 .. Len(Split(s, LF)) : Split(s, LF)[k] \in Seq(Chars)
    BY <1>1, ElementOfSeq
<1> QED
    BY <1>1, <1>2, PiecesGrow

LEMMA LinesBeforeSame ==
    ASSUME NEW ls, NEW ks, NEW n \in Nat, n > 1, LinesBefore(ls, n),
           \A i \in 1 .. n - 1 : ks[i] = ls[i]
    PROVE  /\ LinesBefore(ks, n)
           /\ \A h : Before(ls, n, h) => Before(ks, n, h)
           /\ HeaderLine(ks[n]) \/ (n > 2 /\ FoldedLine(ks[n])) => LinesBefore(ks, n + 1)
<1>1. LinesBefore(ks, n)
    BY DEF LinesBefore
<1>2. ASSUME NEW h, Before(ls, n, h) PROVE Before(ks, n, h)
    <2>1. n - 1 \in Nat \ {0} /\ Gives(ls, n - 1, h)
        BY <1>2 DEF Before
    <2>2. Gives(ks, n - 1, h)
        BY <2>1, GivesNext
    <2> QED
        BY <1>2, <2>2 DEF Before
<1>3. ASSUME HeaderLine(ks[n]) \/ (n > 2 /\ FoldedLine(ks[n])) PROVE LinesBefore(ks, n + 1)
    <2>1. ASSUME NEW k \in 2 .. (n + 1) - 1
          PROVE  HeaderLine(ks[k]) \/ (k > 2 /\ FoldedLine(ks[k]))
        <3>1. k = n \/ k \in 2 .. n - 1
            OBVIOUS
        <3> QED
            BY <1>1, <1>3, <3>1 DEF LinesBefore
    <2> QED
        BY <1>1, <2>1 DEF LinesBefore
<1> QED
    BY <1>1, <1>2, <1>3

LEMMA FitsGrow ==
    ASSUME NEW q \in Sound, NEW s \in Seq(Chars), NEW x \in Chars,
           q.result = "indeterminate", Fits(q, s), Consume(q, x).result = "indeterminate"
    PROVE  Fits(Consume(q, x), Append(s, x))
<1> DEFINE r == Consume(q, x)
           to == Follow(q, x)
           ls == Split(s, LF)
           ks == Split(Append(s, x), LF)
           n == Len(ls)
<1>1. /\ n \in Nat \ {0} /\ \A k \in 1 .. n : ls[k] \in Seq(Chars)
      /\ x = LF => /\ Len(ks) = n + 1 /\ ks[n + 1] = <<>>
                   /\ \A i \in 1 .. n : ks[i] = ls[i]
      /\ x # LF => /\ Len(ks) = n /\ ks[n] = Append(ls[n], x)
                   /\ \A i \in 1 .. n : i # n => ks[i] = ls[i]
    BY LinesGrow
<1>2. /\ to \notin {"good", "bad"} /\ r.state = to /\ r.headers = PushHeader(q, x, to)
    BY ConsumeFields
<1>3. Goes(q, x, to)
    BY <1>2, FollowGoes DEF Sound, Parsers
<1>4. r.headers \in Seq(Headers) /\ q.headers \in Seq(Headers)
    BY ConsumeSound DEF Sound, Parsers, Headers
<1>5. SUFFICES
        \/ /\ r.state \in RequestStates
           /\ Len(ks) = 1 /\ OnRequestLine(r.state, ks[1]) /\ r.headers = <<>>
        \/ /\ r.state \in HeaderStates
           /\ Len(ks) > 1 /\ LinesBefore(ks, Len(ks))
           /\ \E h : Before(ks, Len(ks), h) /\ OnHeaderLine(r.state, ks[Len(ks)], h, r.headers)
    BY DEF Fits
<1>6. \/ /\ q.state \in RequestStates
         /\ n = 1 /\ OnRequestLine(q.state, ls[1]) /\ q.headers = <<>>
      \/ /\ q.state \in HeaderStates
         /\ n > 1 /\ LinesBefore(ls, n)
         /\ \E h : Before(ls, n, h) /\ OnHeaderLine(q.state, ls[n], h, q.headers)
    BY DEF Fits
<1> HIDE DEF r, to, ls, ks, n
<1>7. CASE q.state \in RequestStates \ {"expecting_newline_1"}
    <2>1. n = 1 /\ OnRequestLine(q.state, ls[1]) /\ q.headers = <<>> /\ ls[1] \in Seq(Chars)
        BY <1>1, <1>6, <1>7 DEF RequestStates, HeaderStates
    <2>2. to \in RequestStates /\ OnRequestLine(to, Append(ls[1], x)) /\ x # LF
        <3> DEFINE l == ls[1]
        <3>1. l \in Seq(Chars) /\ OnRequestLine(q.state, l)
            BY <2>1
        <3> HIDE DEF l
        <3>2. to \in RequestStates /\ OnRequestLine(to, Append(l, x)) /\ x # LF
            BY <1>3, <1>7, <3>1, RequestLineGrows
        <3> QED
            BY <3>2 DEF l
    <2>3. Len(ks) = 1 /\ ks[1] = Append(ls[1], x)
        BY <1>1, <2>1, <2>2
    <2>4. r.headers = q.headers
        BY <1>2, <2>2 DEF PushHeader, RequestStates
    <2> QED
        BY <1>2, <2>1, <2>2, <2>3, <2>4
<1>8. CASE q.state = "expecting_newline_1"
    <2>1. n = 1 /\ RequestLine(ls[1]) /\ q.headers = <<>>
        BY <1>1, <1>6, <1>8 DEF RequestStates, HeaderStates, OnRequestLine
    <2>2. x = LF /\ to = "header_line_start"
        BY <1>3, <1>8, GoesFromVersion
    <2>3. Len(ks) = 2 /\ ks[2] = <<>> /\ ks[1] = ls[1]
        BY <1>1, <2>1, <2>2
    <2>4. LinesBefore(ks, 2)
        BY <2>1, <2>3 DEF LinesBefore
    <2>5. Before(ks, 2, <<>>)
        BY GivesFirst DEF Before
    <2>6. r.headers = <<>>
        BY <1>2, <2>1, <2>2 DEF PushHeader
    <2>7. OnHeaderLine(r.state, ks[2], <<>>, r.headers)
        BY <1>2, <2>2, <2>3, <2>6 DEF OnHeaderLine
    <2> QED
        BY <1>2, <2>2, <2>3, <2>4, <2>5, <2>7 DEF HeaderStates
<1>9. CASE q.state \in HeaderStates
    <2>1. n > 1 /\ LinesBefore(ls, n) /\ ls[n] \in Seq(Chars)
        BY <1>1, <1>6, <1>9 DEF RequestStates, HeaderStates
    <2>2. PICK h : Before(ls, n, h) /\ OnHeaderLine(q.state, ls[n], h, q.headers)
        BY <1>6, <1>9 DEF RequestStates, HeaderStates
    <2>3. h \in Seq(Headers) /\ n - 1 \in Nat \ {0} /\ n \in Nat
        BY <1>1, <2>1, <2>2 DEF Before
    <2>4. CASE q.state \notin {"expecting_newline_2", "expecting_newline_3"}
        <3>1. to \in HeaderStates /\ OnHeaderLine(to, Append(ls[n], x), h, PushHeader(q, x, to))
              /\ x # LF
            <4> DEFINE l == ls[n]
            <4>1. l \in Seq(Chars) /\ OnHeaderLine(q.state, l, h, q.headers)
                BY <2>1, <2>2
            <4> HIDE DEF l
            <4>2. /\ to \in HeaderStates /\ OnHeaderLine(to, Append(l, x), h, PushHeader(q, x, to))
                  /\ x # LF
                BY <1>3, <1>9, <2>3, <2>4, <4>1, HeaderLineGrows
            <4> QED
                BY <4>2 DEF l
        <3>2. Len(ks) = n /\ ks[n] = Append(ls[n], x) /\ \A i \in 1 .. n - 1 : ks[i] = ls[i]
            BY <1>1, <3>1
        <3>3. LinesBefore(ks, n) /\ Before(ks, n, h)
            BY <2>1, <2>2, <2>3, <3>2, LinesBeforeSame
        <3> QED
            BY <1>2, <2>1, <3>1, <3>2, <3>3
    <2>5. CASE q.state = "expecting_newline_2"
        <3>1. x = LF /\ to = "header_line_start"
            BY <1>3, <2>5, GoesFromHeader
        <3>2. /\ HeaderLine(ls[n]) \/ (h # <<>> /\ FoldedLine(ls[n]))
              /\ q.headers = HeaderOf(h, ls[n]) /\ q.headers # <<>>
            BY <2>2, <2>5 DEF OnHeaderLine
        <3>3. /\ Len(ks) = n + 1 /\ ks[n + 1] = <<>> /\ ks[n] = ls[n]
              /\ \A i \in 1 .. n - 1 : ks[i] = ls[i]
            BY <1>1, <3>1
        <3>4. LinesBefore(ks, n + 1)
            BY <2>1, <2>2, <2>3, <3>2, <3>3, LinesBeforeSame DEF Before
        <3>5. Gives(ks, n, q.headers)
            <4>1. Gives(ks, (n - 1) + 1, HeaderOf(h, ks[(n - 1) + 1]))
                BY <2>2, <2>3, <3>3, GivesNext DEF Before
            <4>2. (n - 1) + 1 = n
                BY <2>3
            <4> QED
                BY <3>2, <3>3, <4>1, <4>2
        <3>6. Before(ks, n + 1, q.headers)
            <4>1. (n + 1) - 1 = n /\ n + 1 > 2
                BY <2>1, <2>3
            <4> QED
                BY <1>4, <3>2, <3>5, <4>1 DEF Before
        <3>7. r.headers = q.headers
            BY <1>2, <3>1 DEF PushHeader
        <3>8. OnHeaderLine(r.state, ks[n + 1], q.headers, r.headers)
            BY <1>2, <3>1, <3>3, <3>7 DEF OnHeaderLine
        <3>9. n + 1 > 1 /\ Len(ks) = n + 1 /\ r.state \in HeaderStates
            BY <1>2, <2>3, <3>1, <3>3 DEF HeaderStates
        <3> QED
            BY <3>4, <3>6, <3>8, <3>9
    <2>6. CASE q.state = "expecting_newline_3"
        BY <1>2, <1>3, <2>6, GoesFromHeader
    <2> QED
        BY <2>4, <2>5, <2>6
<1> QED
    BY <1>6, <1>7, <1>8, <1>9

\* Where the parser says good, the request is complete and has the headers read.
LEMMA FitsEnd ==
    ASSUME NEW q \in Sound, NEW s \in Seq(Chars), NEW x \in Chars,
           q.result = "indeterminate", Fits(q, s), Consume(q, x).result = "good"
    PROVE  Complete(Append(s, x)) /\ HeadersOf(Append(s, x)) = Consume(q, x).headers
<1> DEFINE r == Consume(q, x)
           to == Follow(q, x)
           t == Append(s, x)
           ls == Split(s, LF)
           ks == Split(t, LF)
           n == Len(ls)
<1>1. /\ n \in Nat \ {0} /\ \A k \in 1 .. n : ls[k] \in Seq(Chars)
      /\ x = LF => /\ Len(ks) = n + 1 /\ ks[n + 1] = <<>>
                   /\ \A i \in 1 .. n : ks[i] = ls[i]
    BY LinesGrow
<1>2. to = "good" /\ r.headers = PushHeader(q, x, to)
    BY ConsumeFields
<1>3. Goes(q, x, to) /\ q.state \in States
    BY <1>2, FollowGoes DEF Sound, Parsers
<1>4. x = LF /\ q.state = "expecting_newline_3"
    <2>1. CASE q.state \in DOMAIN MethodMoves
        BY <1>2, <1>3, <2>1, GoesFromMethod DEF MethodMoves
    <2>2. CASE q.state \in DOMAIN VersionMoves
        BY <1>2, <1>3, <2>2, GoesFromVersion DEF VersionMoves
    <2>3. CASE q.state \in DOMAIN HeaderMoves(TRUE)
        BY <1>2, <1>3, <2>3, GoesFromHeader DEF HeaderMoves
    <2> QED
        BY <1>3, <2>1, <2>2, <2>3 DEF States, MethodMoves, VersionMoves, HeaderMoves
<1>5. /\ n > 1 /\ LinesBefore(ls, n)
      /\ \E h : Before(ls, n, h) /\ OnHeaderLine(q.state, ls[n], h, q.headers)
    BY <1>4 DEF Fits, RequestStates
<1>6. PICK h : Before(ls, n, h) /\ ls[n] = <<CR>> /\ q.headers = h
    BY <1>4, <1>5 DEF OnHeaderLine
<1>7. r.headers = h
    BY <1>2, <1>6 DEF PushHeader
<1> HIDE DEF ls, ks, n
<1>8. /\ Len(ks) = n + 1 /\ ks[n + 1] = <<>> /\ ks[n] = <<CR>>
      /\ \A i \in 1 .. n - 1 : ks[i] = ls[i]
    BY <1>1, <1>4, <1>6
<1>9. LinesBefore(ks, n) /\ Before(ks, n, h)
    BY <1>1, <1>5, <1>6, <1>8, LinesBeforeSame
<1>10. Len(ks) - 2 = n - 1 /\ n - 1 \in Nat \ {0} /\ Len(ks) - 1 = n /\ Len(ks) > 2
    BY <1>1, <1>5, <1>8
<1>11. Complete(t)
    <2>1. /\ Len(ks) > 2 /\ ks[Len(ks)] = <<>> /\ ks[Len(ks) - 1] = <<CR>>
          /\ RequestLine(ks[1])
          /\ \A k \in 2 .. Len(ks) - 2 : HeaderLine(ks[k]) \/ (k > 2 /\ FoldedLine(ks[k]))
        BY <1>8, <1>9, <1>10 DEF LinesBefore
    <2> QED
        BY <2>1 DEF Complete, ks
<1>12. HeadersOf(t) = h
    <2>1. Len(ks) - 2 \in Nat \ {0} /\ Gives(ks, Len(ks) - 2, h)
        BY <1>9, <1>10 DEF Before
    <2> HIDE DEF t
    <2> QED
        BY <2>1, GivesHeaders DEF ks
<1> QED
    BY <1>7, <1>11, <1>12

\* Whatever has been parsed, undecided, is the begin of a request.
LEMMA UndecidedFits ==
    ASSUME NEW s \in Seq(Chars), Parse(NewParser, s).result = "indeterminate"
    PROVE  Fits(Parse(NewParser, s), s)
<1> DEFINE Q(u) == Parse(NewParser, u)
           P == {u \in Seq(Chars) : Q(u).result = "indeterminate" => Fits(Q(u), u)}
<1>1. \A u \in Seq(Chars) : Q(u) \in Sound
    BY NewParserSound, ParseSound
<1>2. \A u \in Seq(Chars), x \in Chars : Q(Append(u, x)) = Consume(Q(u), x)
    BY NewParserSound, ParseAppend
<1>3. <<>> \in P
    <2>1. Q(<<>>) = NewParser
        BY NewParserSound, ParseEmpty DEF NewParser
    <2>2. Fits(NewParser, <<>>) /\ <<>> \in Seq(Chars)
        <3>1. Split(<<>>, LF) = << <<>> >>
            BY SplitEmpty
        <3>2. /\ NewParser.state = "method_start" /\ NewParser.headers = <<>>
              /\ OnRequestLine("method_start", <<>>)
            BY DEF NewParser, OnRequestLine
        <3> QED
            BY <3>1, <3>2 DEF Fits, RequestStates
    <2> HIDE DEF Q
    <2> QED
        BY <2>1, <2>2
<1> HIDE DEF Q
<1>4. ASSUME NEW u \in Seq(Chars), NEW x \in Chars, u \in P PROVE Append(u, x) \in P
    <2>1. Append(u, x) \in Seq(Chars)
        OBVIOUS
    <2>2. ASSUME Q(Append(u, x)).result = "indeterminate" PROVE Fits(Q(Append(u, x)), Append(u, x))
        <3>1. Consume(Q(u), x).result = "indeterminate"
            BY <1>2, <2>2
        <3>2. Q(u).result = "indeterminate"
            BY <1>1, <3>1, ConsumeSound
        <3>3. Fits(Q(u), u)
            BY <1>4, <3>2
        <3>4. Fits(Consume(Q(u), x), Append(u, x))
            BY <1>1, <3>1, <3>2, <3>3, FitsGrow
        <3> QED
            BY <1>2, <3>4
    <2> QED
        BY <2>1, <2>2
<1>5. Seq(Chars) \subseteq P
    <2> HIDE DEF P
    <2> QED
        BY <1>3, <1>4, SeqInduction
<1>6. s \in P
    BY <1>5
<1> QED
    BY <1>6 DEF Q

\* The parser says good only at the end of a complete request, of which it has the
\* method, the uri and the headers.
THEOREM GoodIsComplete ==
    ASSUME NEW s \in Seq(Chars), LET q == Parse(NewParser, s) IN
                                 q.result = "good" /\ q.at = Len(s)
    PROVE  /\ Complete(s)
           /\ Parse(NewParser, s).method = MethodOf(s)
           /\ Parse(NewParser, s).uri = UriOf(s)
           /\ Parse(NewParser, s).headers = HeadersOf(s)
<1> DEFINE Q(u) == Parse(NewParser, u)
<1>1. Q(<<>>) = NewParser
    BY NewParserSound, ParseEmpty DEF NewParser
<1>2. NewParser.result = "indeterminate"
    BY DEF NewParser
<1>3. Q(s).result = "good" /\ Q(s).at = Len(s)
    OBVIOUS
<1>4. s # <<>>
    BY <1>1, <1>2, <1>3
<1>5. PICK u \in Seq(Chars), x \in Chars : s = Append(u, x)
    BY <1>4, SequenceEmptyOrAppend
<1>6. Q(u) \in Sound /\ Q(s) = Consume(Q(u), x)
    BY <1>5, NewParserSound, ParseSound, ParseAppend
<1>7. Q(u).at \in 0 .. Len(u)
    BY ParseCounts
<1>8. Len(u) \in Nat /\ Len(s) = Len(u) + 1
    BY <1>5
<1> HIDE DEF Q
<1>9. Q(u).result = "indeterminate"
    <2> SUFFICES ASSUME Q(u).result # "indeterminate" PROVE FALSE
        OBVIOUS
    <2>1. Q(s) = Q(u)
        BY <1>6, ConsumeSound
    <2>2. Q(u).at = Len(u) + 1
        BY <1>3, <1>8, <2>1
    <2> QED
        BY <1>7, <1>8, <2>2
<1>10. Fits(Q(u), u)
    BY <1>9, UndecidedFits DEF Q
<1>11. Complete(s) /\ HeadersOf(s) = Q(s).headers
    BY <1>3, <1>5, <1>6, <1>9, <1>10, FitsEnd
<1> QED
    BY <1>3, <1>11, MethodWritten DEF Q

-----------------------------------------------------------------------------
(* Whatever belongs to a complete request is accepted *)

\* The line k begins with l, and goes on with x: after its end comes a line feed.
Comes(l, k, x) ==
    /\ Begins(l, k)
    /\ \/ Len(l) = Len(k) /\ x = LF
       \/ Len(l) < Len(k) /\ x = k[Len(l) + 1]

\* The space after the uri is the only one where it can be.
LEMMA OneHead ==
    ASSUME NEW l \in Seq(Chars), NEW a, NEW b, Heads(l, a), Heads(l, b)
    PROVE  a = b
<1>1. PICK i \in Where(l, SP) : /\ i > 1 /\ Among(l, 1, i - 1, NameChars)
                                /\ i < a /\ Among(l, i + 1, a - 1, TextChars \ {SP})
    BY DEF Heads
<1>2. PICK j \in Where(l, SP) : /\ j > 1 /\ Among(l, 1, j - 1, NameChars)
                                /\ j < b /\ Among(l, j + 1, b - 1, TextChars \ {SP})
    BY DEF Heads
<1>3. /\ i \in 1 .. Len(l) /\ j \in 1 .. Len(l) /\ a \in 1 .. Len(l) /\ b \in 1 .. Len(l)
      /\ Len(l) \in Nat /\ l[i] = SP /\ l[j] = SP /\ l[a] = SP /\ l[b] = SP
    BY DEF Heads, Where
<1>4. i = j
    <2>1. CASE i < j
        <3>1. i \in 1 .. j - 1
            BY <1>3, <2>1
        <3> QED
            BY <1>2, <1>3, <3>1, Classes DEF Among
    <2>2. CASE j < i
        <3>1. j \in 1 .. i - 1
            BY <1>3, <2>2
        <3> QED
            BY <1>1, <1>3, <3>1, Classes DEF Among
    <2> QED
        BY <1>3, <2>1, <2>2
<1>5. CASE a < b
    <2>1. a \in j + 1 .. b - 1
        BY <1>1, <1>3, <1>4, <1>5
    <2> QED
        BY <1>2, <1>3, <2>1 DEF Among
<1>6. CASE b < a
    <2>1. b \in i + 1 .. a - 1
        BY <1>2, <1>3, <1>4, <1>6
    <2> QED
        BY <1>1, <1>3, <2>1 DEF Among
<1> QED
    BY <1>3, <1>5, <1>6

\* The parts of a request line
LEMMA RequestLineParts ==
    ASSUME NEW k \in Seq(Chars), RequestLine(k)
    PROVE  /\ \E j, d : /\ Dotted(k, j, d) /\ d + 1 < Len(k)
                        /\ Among(k, d + 1, Len(k) - 1, Digits)
           /\ k[Len(k)] = CR
           /\ \A a \in 1 .. Len(k) - 1 : k[a] # CR
<1> DEFINE n == Len(k)
<1>1. PICK i \in Where(k, SP) :
        /\ i > 1 /\ Among(k, 1, i - 1, NameChars)
        /\ \E j \in Where(k, SP) :
            /\ i < j /\ Among(k, i + 1, j - 1, TextChars \ {SP})
            /\ j + 5 < n /\ SubSeq(k, j + 1, j + 5) = <<"H", "T", "T", "P", "/">>
            /\ \E d \in Where(k, ".") :
                /\ j + 6 < d /\ Among(k, j + 6, d - 1, Digits)
                /\ d + 1 < n /\ Among(k, d + 1, n - 1, Digits)
    BY DEF RequestLine
<1>2. PICK j \in Where(k, SP) :
            /\ i < j /\ Among(k, i + 1, j - 1, TextChars \ {SP})
            /\ j + 5 < n /\ SubSeq(k, j + 1, j + 5) = <<"H", "T", "T", "P", "/">>
            /\ \E d \in Where(k, ".") :
                /\ j + 6 < d /\ Among(k, j + 6, d - 1, Digits)
                /\ d + 1 < n /\ Among(k, d + 1, n - 1, Digits)
    BY <1>1
<1>3. PICK d \in Where(k, ".") : /\ j + 6 < d /\ Among(k, j + 6, d - 1, Digits)
                                 /\ d + 1 < n /\ Among(k, d + 1, n - 1, Digits)
    BY <1>2
<1>4. /\ n \in Nat /\ i \in 1 .. n /\ j \in 1 .. n /\ d \in 1 .. n
      /\ k[i] = SP /\ k[j] = SP /\ k[d] = "."
    BY DEF Where
<1>5. k[n] = CR
    BY DEF RequestLine, Ended
<1>6. /\ k[j + 1] = "H" /\ k[j + 2] = "T" /\ k[j + 3] = "T" /\ k[j + 4] = "P" /\ k[j + 5] = "/"
    <2> DEFINE v == SubSeq(k, j + 1, j + 5)
               w == <<"H", "T", "T", "P", "/">>
    <2>1. v[1] = k[j + 1] /\ v[2] = k[j + 2] /\ v[3] = k[j + 3] /\ v[4] = k[j + 4] /\ v[5] = k[j + 5]
        BY <1>2, <1>4
    <2>2. w[1] = "H" /\ w[2] = "T" /\ w[3] = "T" /\ w[4] = "P" /\ w[5] = "/"
        OBVIOUS
    <2>3. v = w
        BY <1>2
    <2> HIDE DEF v, w
    <2> QED
        BY <2>1, <2>2, <2>3
<1>7. Heads(k, j)
    BY <1>1, <1>2 DEF Heads
<1>8. Http(k, j)
    BY <1>2, <1>4, <1>6, <1>7 DEF Http
<1>9. Dotted(k, j, d)
    BY <1>3, <1>8 DEF Dotted
<1>10. ASSUME NEW a \in 1 .. n - 1 PROVE k[a] # CR
    <2>1. CASE a \in 1 .. i - 1
        BY <1>1, <2>1, Classes DEF Among
    <2>2. CASE a \in i + 1 .. j - 1
        BY <1>2, <2>2, Classes DEF Among
    <2>3. CASE a \in j + 6 .. d - 1
        BY <1>3, <2>3, Classes DEF Among
    <2>4. CASE a \in d + 1 .. n - 1
        BY <1>3, <2>4, Classes DEF Among
    <2>5. CASE a \in {i, j, d, j + 1, j + 2, j + 3, j + 4, j + 5}
        BY <1>4, <1>6, <2>5 DEF SP, CR
    <2> QED
        BY <1>2, <1>3, <1>4, <2>1, <2>2, <2>3, <2>4, <2>5
<1> QED
    BY <1>3, <1>5, <1>9, <1>10

\* and the dot is after digits only.
LEMMA OneDot ==
    ASSUME NEW l \in Seq(Chars), NEW j, NEW a, NEW b, Dotted(l, j, a), Dotted(l, j, b)
    PROVE  a = b
<1>1. /\ j \in 1 .. Len(l) /\ a \in 1 .. Len(l) /\ b \in 1 .. Len(l) /\ Len(l) \in Nat
      /\ l[a] = "." /\ l[b] = "." /\ j + 6 < a /\ j + 6 < b
      /\ Among(l, j + 6, a - 1, Digits) /\ Among(l, j + 6, b - 1, Digits)
    <2>1. /\ j + 6 < a /\ j + 6 < b /\ Heads(l, j)
          /\ Among(l, j + 6, a - 1, Digits) /\ Among(l, j + 6, b - 1, Digits)
        BY DEF Dotted, Http
    <2>2. j \in Where(l, SP) /\ a \in Where(l, ".") /\ b \in Where(l, ".")
        BY <2>1 DEF Dotted, Heads
    <2>3. /\ j \in 1 .. Len(l) /\ a \in 1 .. Len(l) /\ b \in 1 .. Len(l) /\ Len(l) \in Nat
          /\ l[a] = "." /\ l[b] = "."
        BY <2>2 DEF Where
    <2> QED
        BY <2>1, <2>3
<1>2. ~(a < b)
    <2>1. ~(a \in j + 6 .. b - 1)
        BY <1>1, Classes DEF Among
    <2> QED
        BY <1>1, <2>1
<1>3. ~(b < a)
    <2>1. ~(b \in j + 6 .. a - 1)
        BY <1>1, Classes DEF Among
    <2> QED
        BY <1>1, <2>1
<1> QED
    BY <1>1, <1>2, <1>3

LEMMA RequestLineAccepts ==
    ASSUME NEW p, NEW l \in Seq(Chars), NEW k \in Seq(Chars), NEW x,
           p.state \in RequestStates, OnRequestLine(p.state, l), RequestLine(k), Comes(l, k, x)
    PROVE  \E to : Goes(p, x, to)
<1> DEFINE m == Len(l)
           n == Len(k)
<1>1. PICK j, d : Dotted(k, j, d) /\ d + 1 < n /\ Among(k, d + 1, n - 1, Digits)
    BY RequestLineParts
<1>2. k[n] = CR /\ \A a \in 1 .. n - 1 : k[a] # CR
    BY RequestLineParts
<1>3. /\ Http(k, j) /\ Heads(k, j) /\ j \in 1 .. n /\ d \in 1 .. n /\ k[j] = SP /\ k[d] = "."
      /\ j + 6 < d /\ Among(k, j + 6, d - 1, Digits)
    <2>1. Http(k, j) /\ Heads(k, j) /\ j + 6 < d /\ Among(k, j + 6, d - 1, Digits)
        BY <1>1 DEF Dotted, Http
    <2>2. j \in Where(k, SP) /\ d \in Where(k, ".")
        BY <1>1, <2>1 DEF Dotted, Heads
    <2>3. j \in 1 .. n /\ d \in 1 .. n /\ k[j] = SP /\ k[d] = "."
        BY <2>2 DEF Where
    <2> QED
        BY <2>1, <2>3
<1>4. PICK i \in Where(k, SP) : /\ i > 1 /\ Among(k, 1, i - 1, NameChars)
                                /\ i < j /\ Among(k, i + 1, j - 1, TextChars \ {SP})
    BY <1>3 DEF Heads
<1>5. /\ m \in Nat /\ n \in Nat /\ i \in 1 .. n /\ k[i] = SP /\ m <= n
      /\ \A a \in 1 .. m : k[a] = l[a]
      /\ m = n => x = LF
      /\ m < n => x = k[m + 1]
    BY DEF Where, Comes, Begins
<1>6. /\ \A a : Heads(l, a) => Heads(k, a)
      /\ \A a : Http(l, a) => Http(k, a)
      /\ \A a, b : Dotted(l, a, b) => Dotted(k, a, b)
    BY HeadsBegin DEF Comes
<1>7. \A a : Heads(l, a) => a = j
    BY <1>3, <1>6, OneHead
<1>8. \A a : a \in Where(l, SP) => a \in 1 .. m /\ k[a] = SP
    BY <1>5 DEF Where
<1> HIDE DEF m, n
<1>9. CASE p.state = "method_start"
    <2>1. m = 0
        BY <1>9 DEF OnRequestLine, m
    <2>2. x \in NameChars
        BY <1>4, <1>5, <2>1 DEF Among
    <2> QED
        BY <1>9, <2>2, GoesFromMethod
<1>10. CASE p.state = "method"
    <2>1. m > 0 /\ \A a \in 1 .. m : k[a] \in NameChars
        BY <1>5, <1>10 DEF OnRequestLine, Among, m
    <2>2. m < i
        BY <1>5, <2>1, Classes
    <2>3. x = SP \/ x \in NameChars
        <3>1. m + 1 = i \/ m + 1 \in 1 .. i - 1
            BY <1>5, <2>2
        <3> QED
            BY <1>4, <1>5, <2>2, <3>1 DEF Among
    <2> QED
        BY <1>10, <2>3, GoesFromMethod
<1>11. CASE p.state = "uri"
    <2>1. PICK a \in Where(l, SP) : /\ a > 1 /\ Among(l, 1, a - 1, NameChars)
                                    /\ Among(l, a + 1, m, TextChars \ {SP})
        BY <1>11 DEF OnRequestLine, m
    <2>2. a \in 1 .. m /\ k[a] = SP
        BY <1>8
    <2>3. a = i
        <3>1. CASE a < i
            <4>1. a \in 1 .. i - 1
                BY <1>5, <2>2, <3>1
            <4> QED
                BY <1>4, <2>2, <4>1, Classes DEF Among
        <3>2. CASE i < a
            <4>1. i \in 1 .. a - 1 /\ i \in 1 .. m
                BY <1>5, <2>2, <3>2
            <4> QED
                BY <1>5, <2>1, <4>1, Classes DEF Among
        <3> QED
            BY <1>5, <2>2, <3>1, <3>2
    <2>4. m < j
        <3>1. ~(j \in i + 1 .. m)
            BY <1>3, <1>5, <2>1, <2>3 DEF Among
        <3> QED
            BY <1>3, <1>4, <1>5, <3>1
    <2>5. x = SP \/ x \in TextChars \ {SP}
        <3>1. m + 1 = j \/ m + 1 \in i + 1 .. j - 1
            BY <1>3, <1>5, <2>2, <2>3, <2>4
        <3>2. m < n
            BY <1>3, <1>5, <2>4
        <3> QED
            BY <1>3, <1>4, <1>5, <3>1, <3>2 DEF Among
    <2> QED
        BY <1>11, <2>5, GoesFromMethod
<1>12. /\ k[j + 1] = "H" /\ k[j + 2] = "T" /\ k[j + 3] = "T" /\ k[j + 4] = "P" /\ k[j + 5] = "/"
       /\ j + 6 < n
    BY <1>3, <1>5 DEF Http
<1>13. CASE p.state = "http_version_h"
    <2>1. m = j
        BY <1>7, <1>13 DEF OnRequestLine, m
    <2>2. m + 1 = j + 1 /\ m < n
        BY <1>3, <1>5, <1>12, <2>1
    <2>3. x = "H"
        BY <1>5, <1>12, <2>2
    <2> QED
        BY <1>13, <2>3, GoesFromVersion
<1>14. CASE p.state = "http_version_t_1"
    <2>1. m - 1 = j
        BY <1>7, <1>14 DEF OnRequestLine, m
    <2>2. m + 1 = j + 2 /\ m < n
        BY <1>3, <1>5, <1>12, <2>1
    <2>3. x = "T"
        BY <1>5, <1>12, <2>2
    <2> QED
        BY <1>14, <2>3, GoesFromVersion
<1>15. CASE p.state = "http_version_t_2"
    <2>1. m - 2 = j
        BY <1>7, <1>15 DEF OnRequestLine, m
    <2>2. m + 1 = j + 3 /\ m < n
        BY <1>3, <1>5, <1>12, <2>1
    <2>3. x = "T"
        BY <1>5, <1>12, <2>2
    <2> QED
        BY <1>15, <2>3, GoesFromVersion
<1>16. CASE p.state = "http_version_p"
    <2>1. m - 3 = j
        BY <1>7, <1>16 DEF OnRequestLine, m
    <2>2. m + 1 = j + 4 /\ m < n
        BY <1>3, <1>5, <1>12, <2>1
    <2>3. x = "P"
        BY <1>5, <1>12, <2>2
    <2> QED
        BY <1>16, <2>3, GoesFromVersion
<1>17. CASE p.state = "http_version_slash"
    <2>1. m - 4 = j
        BY <1>7, <1>17 DEF OnRequestLine, m
    <2>2. m + 1 = j + 5 /\ m < n
        BY <1>3, <1>5, <1>12, <2>1
    <2>3. x = "/"
        BY <1>5, <1>12, <2>2
    <2> QED
        BY <1>17, <2>3, GoesFromVersion
<1>18. CASE p.state = "http_version_major_start"
    <2>1. m - 5 = j
        BY <1>7, <1>18 DEF OnRequestLine, Http, m
    <2>2. m + 1 \in j + 6 .. d - 1 /\ m < n
        BY <1>3, <1>5, <1>12, <2>1
    <2>3. x \in Digits
        BY <1>3, <1>5, <2>2 DEF Among
    <2> QED
        BY <1>18, <2>3, GoesFromVersion
<1>19. CASE p.state = "http_version_major"
    <2>1. PICK a \in Where(l, SP) : Http(l, a) /\ a + 5 < m /\ Among(l, a + 6, m, Digits)
        BY <1>19 DEF OnRequestLine, m
    <2>2. a = j
        BY <1>7, <2>1 DEF Http
    <2>3. \A b \in j + 6 .. m : k[b] \in Digits
        BY <1>3, <1>5, <2>1, <2>2 DEF Among
    <2>4. m < d
        <3>1. ~(d \in j + 6 .. m)
            BY <1>3, <2>3, Classes
        <3> QED
            BY <1>3, <1>5, <3>1
    <2>5. m < n /\ (m + 1 = d \/ m + 1 \in j + 6 .. d - 1)
        BY <1>3, <1>5, <2>1, <2>2, <2>4
    <2>6. x = "." \/ x \in Digits
        BY <1>3, <1>5, <2>5 DEF Among
    <2> QED
        BY <1>19, <2>6, GoesFromVersion
<1>20. CASE p.state = "http_version_minor_start"
    <2>1. PICK a \in Where(l, SP) : Dotted(l, a, m)
        BY <1>20 DEF OnRequestLine, m
    <2>2. a = j /\ Dotted(k, j, m)
        BY <1>6, <1>7, <2>1 DEF Dotted, Http
    <2>3. m = d
        BY <1>1, <2>2, OneDot
    <2>4. m < n /\ m + 1 \in d + 1 .. n - 1
        BY <1>1, <1>3, <1>5, <2>3
    <2>5. x \in Digits
        BY <1>1, <1>5, <2>4 DEF Among
    <2> QED
        BY <1>20, <2>5, GoesFromVersion
<1>21. CASE p.state = "http_version_minor"
    <2>1. PICK a \in Where(l, SP), b \in Where(l, ".") :
                Dotted(l, a, b) /\ b < m /\ Among(l, b + 1, m, Digits)
        BY <1>21 DEF OnRequestLine, m
    <2>2. a = j /\ Dotted(k, j, b)
        BY <1>6, <1>7, <2>1 DEF Dotted, Http
    <2>3. b = d
        BY <2>2, <1>1, OneDot
    <2>4. m \in d + 1 .. m /\ l[m] \in Digits
        BY <1>3, <1>5, <2>1, <2>3 DEF Among
    <2>5. m # n
        BY <1>2, <1>3, <1>5, <2>4, Classes
    <2>6. m < n /\ (m + 1 = n \/ m + 1 \in d + 1 .. n - 1)
        BY <1>3, <1>5, <2>4, <2>5
    <2>7. x = CR \/ x \in Digits
        BY <1>1, <1>2, <1>5, <2>6 DEF Among
    <2> QED
        BY <1>21, <2>7, GoesFromVersion
<1>22. CASE p.state = "expecting_newline_1"
    <2>1. l[m] = CR /\ m > 0
        BY <1>5, <1>22 DEF OnRequestLine, RequestLine, Ended, m
    <2>2. m = n
        BY <1>2, <1>5, <2>1
    <2> QED
        BY <1>5, <1>22, <2>2, GoesFromVersion
<1> QED
    BY <1>9, <1>10, <1>11, <1>13, <1>14, <1>15, <1>16, <1>17, <1>18, <1>19, <1>20, <1>21, <1>22
    DEF RequestStates

\* The parts of a line of headers
LEMMA HeaderLineParts ==
    ASSUME NEW k \in Seq(Chars), HeaderLine(k)
    PROVE  /\ k[Len(k)] = CR /\ \A a \in 1 .. Len(k) - 1 : k[a] # CR
           /\ \E c \in 2 .. Len(k) : /\ NamedAt(k, c) /\ c + 1 < Len(k) /\ k[c] = ":"
                                     /\ Among(k, c + 2, Len(k) - 1, TextChars)
<1> DEFINE n == Len(k)
<1>1. PICK c \in Where(k, ":") : /\ c > 1 /\ Among(k, 1, c - 1, NameChars)
                                 /\ c + 1 < n /\ k[c + 1] = SP
                                 /\ Among(k, c + 2, n - 1, TextChars)
    BY DEF HeaderLine
<1>2. n \in Nat /\ c \in 2 .. n /\ k[c] = ":" /\ k[n] = CR
    BY <1>1 DEF Where, HeaderLine, Ended
<1>3. NamedAt(k, c)
    BY <1>1, <1>2 DEF NamedAt
<1>4. ASSUME NEW a \in 1 .. n - 1 PROVE k[a] # CR
    <2>1. CASE a \in 1 .. c - 1
        BY <1>1, <2>1, Classes DEF Among
    <2>2. CASE a \in c + 2 .. n - 1
        BY <1>1, <2>2, Classes DEF Among
    <2>3. CASE a \in {c, c + 1}
        BY <1>1, <1>2, <2>3 DEF SP, CR
    <2> QED
        BY <1>2, <2>1, <2>2, <2>3
<1> QED
    BY <1>1, <1>2, <1>3, <1>4

LEMMA FoldedLineParts ==
    ASSUME NEW k \in Seq(Chars), FoldedLine(k)
    PROVE  /\ k[Len(k)] = CR /\ \A a \in 1 .. Len(k) - 1 : k[a] # CR
           /\ \E c \in 2 .. Len(k) : /\ Among(k, 1, c - 1, {SP, HT})
                                     /\ Among(k, c, Len(k) - 1, TextChars)
<1> DEFINE n == Len(k)
<1>1. PICK c \in 2 .. n : /\ Among(k, 1, c - 1, {SP, HT}) /\ Among(k, c, n - 1, TextChars)
    BY DEF FoldedLine
<1>2. n \in Nat /\ k[n] = CR
    BY DEF FoldedLine, Ended
<1>3. ASSUME NEW a \in 1 .. n - 1 PROVE k[a] # CR
    <2>1. CASE a \in 1 .. c - 1
        BY <1>1, <2>1 DEF Among, CR, SP, HT
    <2>2. CASE a \in c .. n - 1
        BY <1>1, <2>2, Classes DEF Among
    <2> QED
        BY <1>2, <2>1, <2>2
<1> QED
    BY <1>1, <1>2, <1>3

\* The lines that may come after the headers h
HeadersGoOn(h, k) == HeaderLine(k) \/ k = <<CR>> \/ (h # <<>> /\ FoldedLine(k))

LEMMA HeaderLineAccepts ==
    ASSUME NEW p, NEW h, NEW l \in Seq(Chars), NEW k \in Seq(Chars), NEW x,
           p.state \in HeaderStates, OnHeaderLine(p.state, l, h, p.headers),
           HeadersGoOn(h, k), Comes(l, k, x)
    PROVE  \E to : Goes(p, x, to)
<1> DEFINE m == Len(l)
           n == Len(k)
<1>1. /\ m \in Nat /\ n \in Nat /\ m <= n
      /\ \A a \in 1 .. m : k[a] = l[a]
      /\ m = n => x = LF
      /\ m < n => x = k[m + 1]
    BY DEF Comes, Begins
<1>2. /\ n > 0 /\ k[n] = CR /\ \A a \in 1 .. n - 1 : k[a] # CR
      /\ (\/ k = <<CR>> /\ n = 1
          \/ \E c \in 2 .. n : /\ NamedAt(k, c) /\ c + 1 < n /\ k[c] = ":"
                               /\ Among(k, c + 2, n - 1, TextChars)
          \/ h # <<>> /\ \E c \in 2 .. n : /\ Among(k, 1, c - 1, {SP, HT})
                                           /\ Among(k, c, n - 1, TextChars))
    <2>1. CASE HeaderLine(k)
        <3>1. PICK c \in 2 .. n : /\ NamedAt(k, c) /\ c + 1 < n /\ k[c] = ":"
                                 /\ Among(k, c + 2, n - 1, TextChars)
            BY <2>1, HeaderLineParts
        <3>2. k[n] = CR /\ \A a \in 1 .. n - 1 : k[a] # CR
            BY <2>1, HeaderLineParts
        <3> HIDE DEF n
        <3> QED
            BY <1>1, <3>1, <3>2
    <2>2. CASE h # <<>> /\ FoldedLine(k)
        <3>1. PICK c \in 2 .. n : /\ Among(k, 1, c - 1, {SP, HT})
                                 /\ Among(k, c, n - 1, TextChars)
            BY <2>2, FoldedLineParts
        <3>2. k[n] = CR /\ \A a \in 1 .. n - 1 : k[a] # CR
            BY <2>2, FoldedLineParts
        <3> HIDE DEF n
        <3> QED
            BY <1>1, <2>2, <3>1, <3>2
    <2>3. CASE k = <<CR>>
        <3>1. n = 1 /\ k[1] = CR
            BY <2>3
        <3> HIDE DEF n
        <3> QED
            BY <2>3, <3>1
    <2> QED
        BY <2>1, <2>2, <2>3 DEF HeadersGoOn
<1> HIDE DEF m, n
<1>3. ASSUME NEW c \in 2 .. n, NamedAt(k, c)
      PROVE  k[c] = ":" /\ k[c + 1] = SP /\ \A a \in 1 .. c - 1 : k[a] \in NameChars
    BY <1>3 DEF NamedAt, Where, Among
<1>4. ASSUME k[1] \in NameChars
      PROVE  \E c \in 2 .. n : /\ NamedAt(k, c) /\ c + 1 < n /\ k[c] = ":"
                               /\ Among(k, c + 2, n - 1, TextChars)
    <2>1. k # <<CR>>
        BY <1>4, Classes
    <2>2. ASSUME NEW c \in 2 .. n, Among(k, 1, c - 1, {SP, HT}) PROVE FALSE
        <3>1. 1 \in 1 .. c - 1
            BY <1>1
        <3> QED
            BY <1>4, <2>2, <3>1, Classes DEF Among
    <2> QED
        BY <1>2, <2>1, <2>2
<1>5. ASSUME k[1] \in {SP, HT}
      PROVE  \E c \in 2 .. n : /\ Among(k, 1, c - 1, {SP, HT})
                               /\ Among(k, c, n - 1, TextChars)
    <2>1. k # <<CR>>
        BY <1>5 DEF CR, SP, HT
    <2>2. ASSUME NEW c \in 2 .. n, NamedAt(k, c) PROVE FALSE
        <3>1. 1 \in 1 .. c - 1
            BY <1>1
        <3> QED
            BY <1>3, <1>5, <2>2, <3>1, Classes
    <2> QED
        BY <1>2, <2>1, <2>2
<1>6. CASE p.state = "header_line_start"
    <2>1. m = 0 /\ p.headers = h
        BY <1>6 DEF OnHeaderLine, m
    <2>2. x = k[1]
        BY <1>1, <1>2, <2>1
    <2>3. CASE k = <<CR>>
        <3>1. x = CR
            BY <2>2, <2>3
        <3> QED
            BY <1>6, <3>1, GoesFromHeader
    <2>4. ASSUME NEW c \in 2 .. n, NamedAt(k, c) PROVE \E to : Goes(p, x, to)
        <3>1. 1 \in 1 .. c - 1
            BY <1>1
        <3>2. x \in NameChars
            BY <1>3, <2>2, <2>4, <3>1
        <3> QED
            BY <1>6, <3>2, GoesFromHeader
    <2>5. ASSUME h # <<>>, NEW c \in 2 .. n, Among(k, 1, c - 1, {SP, HT})
          PROVE  \E to : Goes(p, x, to)
        <3>1. 1 \in 1 .. c - 1
            BY <1>1
        <3>2. x \in {SP, HT} /\ p.headers # <<>>
            BY <2>1, <2>2, <2>5, <3>1 DEF Among
        <3> QED
            BY <1>6, <3>2, GoesFromHeader
    <2> QED
        BY <1>2, <2>3, <2>4, <2>5
<1>7. CASE p.state = "header_lws"
    <2>1. m > 0 /\ \A a \in 1 .. m : k[a] \in {SP, HT}
        BY <1>1, <1>7 DEF OnHeaderLine, Among, m
    <2>2. 1 \in 1 .. m /\ m \in 1 .. m
        BY <1>1, <2>1
    <2>3. PICK c \in 2 .. n : Among(k, 1, c - 1, {SP, HT}) /\ Among(k, c, n - 1, TextChars)
        BY <1>5, <2>1, <2>2
    <2>4. m < n
        BY <1>1, <1>2, <2>1, <2>2 DEF CR, SP, HT
    <2>5. m + 1 = n \/ m + 1 \in 1 .. c - 1 \/ m + 1 \in c .. n - 1
        BY <1>1, <2>4
    <2>6. x = CR \/ x \in {SP, HT} \/ x \in TextChars
        BY <1>1, <1>2, <2>3, <2>4, <2>5 DEF Among
    <2> QED
        BY <1>7, <2>6, GoesFromHeader
<1>8. CASE p.state = "header_name"
    <2>1. m > 0 /\ \A a \in 1 .. m : k[a] \in NameChars
        BY <1>1, <1>8 DEF OnHeaderLine, Among, m
    <2>2. 1 \in 1 .. m
        BY <1>1, <2>1
    <2>3. PICK c \in 2 .. n : NamedAt(k, c) /\ c + 1 < n /\ k[c] = ":"
        BY <1>4, <2>1, <2>2
    <2>4. m < c
        <3>1. c \notin 1 .. m
            BY <2>1, <2>3, Classes
        <3> QED
            BY <1>1, <3>1
    <2>5. m < n /\ (m + 1 = c \/ m + 1 \in 1 .. c - 1)
        BY <1>1, <2>4
    <2>6. x = ":" \/ x \in NameChars
        BY <1>1, <1>3, <2>3, <2>5
    <2> QED
        BY <1>8, <2>6, GoesFromHeader
<1>9. ASSUME NEW j \in 2 .. m, k[j] = ":", \A a \in 1 .. j - 1 : k[a] \in NameChars
      PROVE  /\ NamedAt(k, j) /\ j + 1 < n /\ Among(k, j + 2, n - 1, TextChars)
    <2>1. 1 \in 1 .. j - 1
        BY <1>1
    <2>2. PICK c \in 2 .. n : /\ NamedAt(k, c) /\ c + 1 < n /\ k[c] = ":"
                              /\ Among(k, c + 2, n - 1, TextChars)
        BY <1>4, <1>9, <2>1
    <2>3. c \notin 1 .. j - 1
        BY <1>9, <2>2, Classes
    <2>4. j \notin 1 .. c - 1
        BY <1>3, <1>9, <2>2, Classes
    <2>5. c = j
        BY <1>1, <2>3, <2>4
    <2> QED
        BY <2>2, <2>5
<1>10. CASE p.state = "space_before_header_value"
    <2>1. m > 1 /\ Among(l, 1, m - 1, NameChars) /\ l[m] = ":"
        BY <1>10 DEF OnHeaderLine, m
    <2>2. m \in 2 .. m /\ k[m] = ":" /\ \A a \in 1 .. m - 1 : k[a] \in NameChars
        BY <1>1, <2>1 DEF Among
    <2>3. NamedAt(k, m) /\ m + 1 < n
        BY <1>9, <2>2
    <2>4. x = SP
        BY <1>1, <1>3, <2>2, <2>3
    <2> QED
        BY <1>10, <2>4, GoesFromHeader
<1>11. CASE p.state = "header_value"
    <2>1. PICK j \in 1 .. m :
                \/ NamedAt(l, j) /\ Among(l, j + 2, m, TextChars)
                \/ FoldedAt(l, j) /\ Among(l, j, m, TextChars)
        BY <1>11 DEF OnHeaderLine, m
    <2>2. x = CR \/ x \in TextChars
        <3>1. CASE NamedAt(l, j) /\ Among(l, j + 2, m, TextChars)
            <4>1. /\ j \in Where(l, ":") /\ j > 1 /\ Among(l, 1, j - 1, NameChars)
                  /\ j + 1 <= m /\ l[j + 1] = SP
                BY <3>1 DEF NamedAt, m
            <4>2. /\ j \in 2 .. m /\ k[j] = ":" /\ \A a \in 1 .. j - 1 : k[a] \in NameChars
                BY <1>1, <4>1 DEF Where, Among
            <4>3. NamedAt(k, j) /\ j + 1 < n /\ Among(k, j + 2, n - 1, TextChars)
                BY <1>9, <4>2
            <4>4. l[m] \in TextChars /\ m \in 1 .. m
                <5>1. m = j + 1 \/ m \in j + 2 .. m
                    BY <1>1, <4>1
                <5> QED
                    BY <1>1, <3>1, <4>1, <5>1, Classes DEF Among
            <4>5. m < n
                BY <1>1, <1>2, <4>4, Classes
            <4>6. m + 1 = n \/ m + 1 \in j + 2 .. n - 1
                BY <1>1, <4>1, <4>5
            <4> QED
                BY <1>1, <1>2, <4>3, <4>5, <4>6 DEF Among
        <3>2. CASE FoldedAt(l, j) /\ Among(l, j, m, TextChars)
            <4>1. j \in 2 .. m /\ Among(l, 1, j - 1, {SP, HT}) /\ l[j] \notin {SP, HT}
                BY <3>2 DEF FoldedAt, m
            <4>2. 1 \in 1 .. j - 1 /\ 1 \in 1 .. m
                BY <1>1, <4>1
            <4>3. k[1] \in {SP, HT}
                BY <1>1, <4>1, <4>2 DEF Among
            <4>4. PICK c \in 2 .. n : Among(k, 1, c - 1, {SP, HT}) /\ Among(k, c, n - 1, TextChars)
                BY <1>5, <4>3
            <4>5. j \notin 1 .. c - 1
                BY <1>1, <4>1, <4>4 DEF Among
            <4>6. l[m] \in TextChars /\ m \in 1 .. m
                BY <1>1, <3>2, <4>1 DEF Among
            <4>7. m < n
                BY <1>1, <1>2, <4>6, Classes
            <4>8. m + 1 = n \/ m + 1 \in c .. n - 1
                BY <1>1, <4>1, <4>5, <4>7
            <4> QED
                BY <1>1, <1>2, <4>4, <4>7, <4>8 DEF Among
        <3> QED
            BY <2>1, <3>1, <3>2
    <2> QED
        BY <1>11, <2>2, GoesFromHeader
<1>12. CASE p.state = "expecting_newline_2"
    <2>1. l[m] = CR /\ m > 0
        <3>1. HeaderLine(l) \/ FoldedLine(l)
            BY <1>12 DEF OnHeaderLine
        <3> QED
            BY <1>1, <3>1 DEF HeaderLine, FoldedLine, Ended, m
    <2>2. m = n
        <3>1. m \in 1 .. m
            BY <1>1, <2>1
        <3>2. k[m] = CR
            BY <1>1, <2>1, <3>1
        <3>3. m \notin 1 .. n - 1
            BY <1>2, <3>2
        <3> QED
            BY <1>1, <2>1, <3>3
    <2> QED
        BY <1>1, <1>12, <2>2, GoesFromHeader
<1>13. CASE p.state = "expecting_newline_3"
    <2>1. l = <<CR>>
        BY <1>13 DEF OnHeaderLine
    <2>2. m = 1 /\ l[1] = CR
        BY <2>1 DEF m
    <2>3. m = n
        <3>1. 1 \in 1 .. m
            BY <2>2
        <3>2. k[1] = CR
            BY <1>1, <2>2, <3>1
        <3>3. 1 \notin 1 .. n - 1
            BY <1>2, <3>2
        <3> QED
            BY <1>1, <1>2, <2>2, <3>3
    <2> QED
        BY <1>1, <1>13, <2>3, GoesFromHeader
<1> QED
    BY <1>6, <1>7, <1>8, <1>10, <1>11, <1>12, <1>13 DEF HeaderStates

\* The lines ws are those of the begin of a text that has the lines ls.
LinesBegin(ws, ls) ==
    /\ Len(ws) <= Len(ls)
    /\ \A i \in 1 .. Len(ws) - 1 : ls[i] = ws[i]
    /\ Begins(ws[Len(ws)], ls[Len(ws)])

LEMMA SplitBegins ==
    ASSUME NEW u \in Seq(Chars), NEW r \in Seq(Chars)
    PROVE  LinesBegin(Split(u, LF), Split(u \o r, LF))
<1> DEFINE ws == Split(u, LF)
           n == Len(ws)
           P == {v \in Seq(Chars) : LinesBegin(ws, Split(u \o v, LF))}
<1>0. <<>> \in Seq(Chars) /\ u \o <<>> = u
    OBVIOUS
<1>1. n \in Nat \ {0} /\ \A k \in 1 .. n : ws[k] \in Seq(Chars)
    <2>1. \E x : x \in Chars
        BY CharsAssumption
    <2>2. PICK x : x \in Chars
        BY <2>1
    <2> QED
        BY <2>2, LinesGrow
<1>2. <<>> \in P
    <2>1. n \in 1 .. n
        BY <1>1
    <2>2. Len(ws[n]) \in Nat
        BY <1>1, <2>1
    <2>3. LinesBegin(ws, ws)
        BY <1>1, <2>2 DEF LinesBegin, Begins
    <2> HIDE DEF ws, n
    <2> QED
        BY <1>0, <2>3 DEF ws
<1>3. ASSUME NEW v \in Seq(Chars), NEW x \in Chars, v \in P PROVE Append(v, x) \in P
    <2> DEFINE s == u \o v
               ls == Split(s, LF)
               ks == Split(Append(s, x), LF)
    <2>1. s \in Seq(Chars) /\ Append(v, x) \in Seq(Chars) /\ u \o Append(v, x) = Append(s, x)
        BY ConcatLonger
    <2>2. LinesBegin(ws, ls)
        BY <1>3
    <2> HIDE DEF s
    <2>3. /\ Len(ls) \in Nat \ {0} /\ \A k \in 1 .. Len(ls) : ls[k] \in Seq(Chars)
          /\ x = LF => /\ Len(ks) = Len(ls) + 1
                       /\ \A i \in 1 .. Len(ls) : ks[i] = ls[i]
          /\ x # LF => /\ Len(ks) = Len(ls) /\ ks[Len(ls)] = Append(ls[Len(ls)], x)
                       /\ \A i \in 1 .. Len(ls) : i # Len(ls) => ks[i] = ls[i]
        BY <2>1, LinesGrow
    <2> HIDE DEF ws, n, ls, ks
    <2>4. /\ Len(ws) = n /\ n <= Len(ls) /\ n \in 1 .. Len(ls)
          /\ \A i \in 1 .. n - 1 : ls[i] = ws[i]
          /\ Begins(ws[n], ls[n]) /\ ws[n] \in Seq(Chars)
        BY <1>1, <2>2, <2>3 DEF LinesBegin, n
    <2>5. \A i \in 1 .. n - 1 : ks[i] = ls[i]
        BY <1>1, <2>3, <2>4
    <2>6. ks[n] = ls[n] \/ ks[n] = Append(ls[n], x)
        BY <2>3, <2>4
    <2>7. Begins(ws[n], ks[n])
        <3> DEFINE a == ws[n]
                   b == ls[n]
                   d == Append(b, x)
        <3>1. a \in Seq(Chars) /\ b \in Seq(Chars) /\ Begins(a, b)
            BY <2>3, <2>4
        <3> HIDE DEF a, b
        <3>2. Len(d) = Len(b) + 1 /\ \A i \in 1 .. Len(b) : d[i] = b[i]
            BY <3>1
        <3> HIDE DEF d
        <3>3. Begins(a, d)
            BY <3>1, <3>2 DEF Begins
        <3> QED
            BY <2>6, <3>1, <3>3 DEF a, b, d
    <2>8. LinesBegin(ws, ks)
        BY <1>1, <2>3, <2>4, <2>5, <2>7 DEF LinesBegin
    <2> QED
        BY <2>1, <2>8 DEF ks
<1> HIDE DEF P
<1>4. r \in P
    BY <1>2, <1>3, SeqInduction
<1> QED
    BY <1>4 DEF P

\* What comes next in a text comes in its line.
LEMMA NextComes ==
    ASSUME NEW u \in Seq(Chars), NEW x \in Chars, NEW r \in Seq(Chars)
    PROVE  LET ws == Split(u, LF)
               n == Len(ws)
               ls == Split(Append(u, x) \o r, LF)
           IN  /\ n \in 1 .. Len(ls) /\ ws[n] \in Seq(Chars) /\ ls[n] \in Seq(Chars)
               /\ Len(ls) \in Nat
               /\ Comes(ws[n], ls[n], x)
               /\ ls[Len(ls)] = <<>> => n < Len(ls)
<1> DEFINE t == Append(u, x)
           ws == Split(u, LF)
           vs == Split(t, LF)
           n == Len(ws)
           s == t \o r
           ls == Split(s, LF)
<1>1. /\ n \in Nat \ {0} /\ \A k \in 1 .. n : ws[k] \in Seq(Chars)
      /\ x = LF => /\ Len(vs) = n + 1 /\ vs[n + 1] = <<>>
                   /\ \A i \in 1 .. n : vs[i] = ws[i]
      /\ x # LF => /\ Len(vs) = n /\ vs[n] = Append(ws[n], x)
    BY LinesGrow
<1>2. t \in Seq(Chars) /\ s \in Seq(Chars)
    OBVIOUS
<1> HIDE DEF t
<1>3. LinesBegin(vs, ls)
    BY <1>2, SplitBegins
<1> HIDE DEF s
<1>4. Len(ls) \in Nat \ {0} /\ \A k \in 1 .. Len(ls) : ls[k] \in Seq(Chars)
    BY <1>2, LinesGrow
<1> HIDE DEF ws, vs, ls, n
<1>5. n \in 1 .. n /\ n \in 1 .. Len(ls) /\ ws[n] \in Seq(Chars) /\ ls[n] \in Seq(Chars)
    BY <1>1, <1>3, <1>4 DEF LinesBegin
<1>6. CASE x = LF
    <2>1. n \in 1 .. Len(vs) - 1 /\ n < Len(ls)
        BY <1>1, <1>3, <1>4, <1>6 DEF LinesBegin
    <2>2. ls[n] = ws[n]
        BY <1>1, <1>3, <1>5, <1>6, <2>1 DEF LinesBegin
    <2>3. Comes(ws[n], ls[n], x)
        BY <1>5, <1>6, <2>2 DEF Comes, Begins
    <2> QED
        BY <1>4, <1>5, <2>1, <2>3 DEF n, ws, ls, s, t
<1>7. CASE x # LF
    <2> DEFINE a == ws[n]
               b == ls[n]
               d == Append(a, x)
    <2>1. a \in Seq(Chars) /\ b \in Seq(Chars) /\ Begins(d, b)
        BY <1>1, <1>3, <1>5, <1>7 DEF LinesBegin
    <2> HIDE DEF a, b
    <2>2. Len(d) = Len(a) + 1 /\ d[Len(a) + 1] = x /\ \A i \in 1 .. Len(a) : d[i] = a[i]
        BY <2>1
    <2> HIDE DEF d
    <2>3. /\ Len(a) < Len(b) /\ Len(a) \in Nat /\ Len(b) \in Nat
          /\ \A i \in 1 .. Len(a) : b[i] = a[i]
          /\ b[Len(a) + 1] = x
        BY <2>1, <2>2 DEF Begins
    <2>4. Comes(a, b, x) /\ b # <<>>
        BY <2>3 DEF Comes, Begins
    <2>5. ls[Len(ls)] = <<>> => n < Len(ls)
        BY <1>4, <1>5, <2>4 DEF b
    <2> QED
        BY <1>4, <1>5, <2>4, <2>5 DEF a, b, n, ws, ls, s, t
<1> QED
    BY <1>6, <1>7

\* The parser accepts what comes next in a complete request.
LEMMA NextAccepted ==
    ASSUME NEW u \in Seq(Chars), NEW x \in Chars, NEW r \in Seq(Chars),
           Complete(Append(u, x) \o r), Parse(NewParser, u).result = "indeterminate"
    PROVE  Consume(Parse(NewParser, u), x).result # "bad"
<1> DEFINE q == Parse(NewParser, u)
           ws == Split(u, LF)
           n == Len(ws)
           ls == Split(Append(u, x) \o r, LF)
           N == Len(ls)
<1>1. /\ n \in 1 .. N /\ ws[n] \in Seq(Chars) /\ ls[n] \in Seq(Chars) /\ N \in Nat
      /\ Comes(ws[n], ls[n], x)
      /\ ls[N] = <<>> => n < N
    BY NextComes
<1>2. /\ N > 2 /\ ls[N] = <<>> /\ ls[N - 1] = <<CR>>
      /\ RequestLine(ls[1])
      /\ \A k \in 2 .. N - 2 : HeaderLine(ls[k]) \/ (k > 2 /\ FoldedLine(ls[k]))
    BY DEF Complete
<1>3. q \in Sound
    BY NewParserSound, ParseSound
<1>4. q.result = "indeterminate" /\ Fits(q, u)
    BY UndecidedFits
<1>5. \/ /\ q.state \in RequestStates
         /\ n = 1 /\ OnRequestLine(q.state, ws[1]) /\ q.headers = <<>>
      \/ /\ q.state \in HeaderStates
         /\ n > 1 /\ LinesBefore(ws, n)
         /\ \E h : Before(ws, n, h) /\ OnHeaderLine(q.state, ws[n], h, q.headers)
    BY <1>4 DEF Fits
<1> HIDE DEF q, ws, ls, n, N
<1> DEFINE l == ws[n]
           k == ls[n]
<1>6. \E to : Goes(q, x, to)
    <2>1. CASE q.state \in RequestStates
        <3>1. n = 1 /\ OnRequestLine(q.state, l)
            BY <1>5, <2>1 DEF RequestStates, HeaderStates
        <3>2. RequestLine(k) /\ Comes(l, k, x) /\ l \in Seq(Chars) /\ k \in Seq(Chars)
            BY <1>1, <1>2, <3>1
        <3> HIDE DEF l, k
        <3> QED
            BY <2>1, <3>1, <3>2, RequestLineAccepts
    <2>2. CASE q.state \in HeaderStates
        <3>1. PICK h : Before(ws, n, h) /\ OnHeaderLine(q.state, l, h, q.headers)
            BY <1>5, <2>2 DEF RequestStates, HeaderStates
        <3>2. n > 1 /\ n < N /\ (h # <<>> <=> n > 2)
            BY <1>1, <1>2, <1>5, <2>2, <3>1 DEF RequestStates, HeaderStates, Before
        <3>3. HeadersGoOn(h, k)
            <4>1. n = N - 1 \/ n \in 2 .. N - 2
                BY <1>1, <3>2
            <4> QED
                BY <1>2, <3>2, <4>1 DEF HeadersGoOn
        <3>4. Comes(l, k, x) /\ l \in Seq(Chars) /\ k \in Seq(Chars)
            BY <1>1
        <3> HIDE DEF l, k
        <3> QED
            BY <2>2, <3>1, <3>3, <3>4, HeaderLineAccepts
    <2> QED
        BY <1>5, <2>1, <2>2
<1>7. Follow(q, x) # "bad"
    BY <1>3, <1>6, FollowGoes DEF Sound, Parsers
<1>8. Consume(q, x).result # "bad"
    BY <1>4, <1>7, ConsumeFields
<1> QED
    BY <1>8 DEF q

\* A line that is CR alone ends the headers.
LEMMA EmptyLine == ~HeaderLine(<<CR>>) /\ ~FoldedLine(<<CR>>)
<1>1. Len(<<CR>>) = 1 /\ DOMAIN <<CR>> = 1 .. 1
    OBVIOUS
<1>2. ~HeaderLine(<<CR>>)
    BY <1>1 DEF HeaderLine, Where
<1>3. ~FoldedLine(<<CR>>)
    BY <1>1 DEF FoldedLine
<1> QED
    BY <1>2, <1>3

\* Whatever is a complete request, the parser says good of it: not later than at
\* its end, and it says bad of no begin of it.
THEOREM CompleteIsGood ==
    ASSUME NEW s \in Seq(Chars), Complete(s)
    PROVE  Parse(NewParser, s).result = "good"
<1> DEFINE Q(u) == Parse(NewParser, u)
           P == {u \in Seq(Chars) :
                    \A r \in Seq(Chars) : Complete(u \o r) => Q(u).result # "bad"}
<1>1. \A u \in Seq(Chars) : Q(u) \in Sound
    BY NewParserSound, ParseSound
<1>2. \A u \in Seq(Chars), x \in Chars : Q(Append(u, x)) = Consume(Q(u), x)
    BY NewParserSound, ParseAppend
<1>3. <<>> \in P
    <2>1. Q(<<>>) = NewParser /\ NewParser.result = "indeterminate"
        BY NewParserSound, ParseEmpty DEF NewParser
    <2> HIDE DEF Q
    <2> QED
        BY <2>1
<1>4. ASSUME NEW u \in Seq(Chars), NEW x \in Chars, u \in P PROVE Append(u, x) \in P
    <2>1. Append(u, x) \in Seq(Chars)
        OBVIOUS
    <2>2. ASSUME NEW r \in Seq(Chars), Complete(Append(u, x) \o r)
          PROVE  Q(Append(u, x)).result # "bad"
        <3>1. <<x>> \o r \in Seq(Chars) /\ u \o (<<x>> \o r) = Append(u, x) \o r
            <4>1. <<x>> \in Seq(Chars) /\ Append(u, x) = u \o <<x>>
                OBVIOUS
            <4>2. (u \o <<x>>) \o r = u \o (<<x>> \o r)
                BY <4>1, ConcatAssociative
            <4> QED
                BY <4>1, <4>2, ConcatProperties
        <3>2. Q(u).result # "bad"
            BY <1>4, <2>2, <3>1
        <3>3. CASE Q(u).result = "indeterminate"
            BY <1>2, <2>2, <3>3, NextAccepted
        <3>4. CASE Q(u).result # "indeterminate"
            <4>1. Consume(Q(u), x) = Q(u)
                BY <1>1, <3>4, ConsumeSound
            <4> HIDE DEF Q
            <4> QED
                BY <1>2, <3>2, <4>1
        <3> QED
            BY <3>3, <3>4
    <2> HIDE DEF Q
    <2> QED
        BY <2>1, <2>2
<1>5. Q(s).result # "bad"
    <2>1. s \in P
        <3> HIDE DEF P
        <3> QED
            BY <1>3, <1>4, SeqInduction
    <2>2. <<>> \in Seq(Chars) /\ s \o <<>> = s
        OBVIOUS
    <2> HIDE DEF Q
    <2> QED
        BY <2>1, <2>2
<1>6. Q(s).result # "indeterminate"
    <2> SUFFICES ASSUME Q(s).result = "indeterminate" PROVE FALSE
        OBVIOUS
    <2> DEFINE ls == Split(s, LF)
               N == Len(ls)
    <2>1. Fits(Q(s), s)
        BY UndecidedFits
    <2>2. N > 2 /\ ls[N - 1] = <<CR>>
        BY DEF Complete
    <2>3. N \in Nat
        <3>1. PICK x : x \in Chars
            BY CharsAssumption
        <3> QED
            BY <3>1, LinesGrow
    <2>4. LinesBefore(ls, N)
        <3>1. N # 1
            BY <2>2, <2>3
        <3> QED
            BY <2>1, <3>1 DEF Fits
    <2>5. N - 1 \in 2 .. N - 1
        BY <2>2, <2>3
    <2>6. HeaderLine(ls[N - 1]) \/ FoldedLine(ls[N - 1])
        BY <2>4, <2>5 DEF LinesBefore
    <2> QED
        BY <2>2, <2>6, EmptyLine
<1>7. Q(s).result \in {"indeterminate", "good", "bad"}
    BY <1>1 DEF Sound, Parsers, Results
<1> QED
    BY <1>5, <1>6, <1>7

-----------------------------------------------------------------------------
(* What completes a request *)

Whole == <<"x", SP, "/", SP, "H", "T", "T", "P", "/", "1", ".", "1", CR, LF,
           "x", ":", SP, "x", CR, LF, CR, LF>>

\* What is left of it from position i
Left(i) == SubSeq(Whole, i, 22)

LEMMA LeftOf ==
    /\ \A i \in 1 .. 23 : Left(i) \in Seq(Chars) /\ Len(Left(i)) = 23 - i
    /\ Left(23) = <<>>
    /\ \A i \in 1 .. 22 : Left(i) \in Tails
    /\ \A i \in 1 .. 22 : Whole[i] \in Chars /\ Left(i) = <<Whole[i]>> \o Left(i + 1)
<1>1. Whole \in Seq(Chars) /\ Len(Whole) = 22
    BY CharsAssumption DEF Whole
<1>2. Tails = Suffixes(Whole)
    BY DEF Tails, Whole
<1>3. Suffixes(Whole) = {SubSeq(Whole, l, 22) : l \in 1 .. 22} \cup {<<>>}
    BY <1>1 DEF Suffixes
<1>4. \A i \in 1 .. 22 : Left(i) \in Tails
    BY <1>2, <1>3 DEF Left
<1>5. ASSUME NEW i \in 1 .. 23 PROVE Left(i) \in Seq(Chars) /\ Len(Left(i)) = 23 - i
    <2>1. ASSUME NEW j \in i .. 22 PROVE Whole[j] \in Chars
        <3>1. j \in 1 .. Len(Whole)
            BY <1>1
        <3> QED
            BY <1>1, <3>1, ElementOfSeq
    <2>2. /\ SubSeq(Whole, i, 22) \in Seq(Chars)
          /\ Len(SubSeq(Whole, i, 22)) = IF i <= 22 THEN 22 - i + 1 ELSE 0
        BY <2>1, SubSeqProperties
    <2> QED
        BY <2>2 DEF Left
<1>6. ASSUME NEW i \in 1 .. 22
      PROVE  Whole[i] \in Chars /\ Left(i) = <<Whole[i]>> \o Left(i + 1)
    <2>1. Whole[i] \in Chars
        BY <1>1, ElementOfSeq
    <2>2. i \in 1 .. Len(Whole) /\ 22 \in i .. Len(Whole)
        BY <1>1
    <2>3. SubSeq(Whole, i, 22) = <<Whole[i]>> \o SubSeq(Whole, i + 1, 22)
        BY <1>1, <2>2, SubSeqRecursiveFirst
    <2> QED
        BY <2>1, <2>3 DEF Left
<1>7. Left(23) = <<>>
    BY SubSeqEmpty DEF Left
<1> QED
    BY <1>4, <1>5, <1>6, <1>7

\* From the state st an undecided parser says good at the end of s.
Finishes(st, s) ==
    \A p \in Sound : p.state = st /\ p.result = "indeterminate" =>
        Parse(p, s).result = "good" /\ Parse(p, s).at = p.at + Len(s)

LEMMA FinishesBefore ==
    ASSUME NEW st, NEW x \in Chars, NEW s \in Seq(Chars), NEW to \in States,
           \A p, too : p.state = st => (Goes(p, x, too) <=> too = to),
           Finishes(to, s)
    PROVE  Finishes(st, <<x>> \o s)
<1> SUFFICES ASSUME NEW p \in Sound, p.state = st, p.result = "indeterminate"
             PROVE  /\ Parse(p, <<x>> \o s).result = "good"
                    /\ Parse(p, <<x>> \o s).at = p.at + Len(<<x>> \o s)
    BY DEF Finishes
<1> DEFINE q == Consume(p, x)
           one == <<x>>
<1>1. Follow(p, x) = to
    <2>1. p.state \in States /\ Goes(p, x, to)
        BY DEF Sound, Parsers
    <2> QED
        BY <2>1, FollowGoes
<1>2. q.state = to /\ q.result = "indeterminate"
    <2>1. to \notin {"good", "bad"}
        BY DEF States
    <2> QED
        BY <1>1, <2>1, ConsumeFields
<1>3. q \in Sound /\ q.at = p.at + 1
    BY ConsumeSound
<1>4. one \in Seq(Chars) /\ Len(one) = 1 /\ <<>> \in Seq(Chars) /\ one = Append(<<>>, x)
    OBVIOUS
<1>5. Parse(p, one) = q
    <2>1. Parse(p, <<>>) = p
        <3>1. Parse(p, <<>>) = [p EXCEPT !.result = "indeterminate"]
            BY ParseEmpty
        <3>2. [p EXCEPT !.result = "indeterminate"] = p
            BY DEF Sound, Parsers
        <3> QED
            BY <3>1, <3>2
    <2> HIDE DEF one
    <2> QED
        BY <1>4, <2>1, ParseAppend
<1> HIDE DEF q, one
<1>6. Parse(q, s) = Parse(p, one \o s)
    BY <1>2, <1>4, <1>5, ParseOnwards
<1>7. Len(one \o s) = 1 + Len(s) /\ Len(s) \in Nat /\ p.at \in Nat
    BY <1>4, ConcatProperties DEF Sound, Parsers
<1>8. Parse(q, s).result = "good" /\ Parse(q, s).at = q.at + Len(s)
    BY <1>2, <1>3 DEF Finishes
<1> QED
    BY <1>3, <1>6, <1>7, <1>8 DEF one

LEMMA FinishesLast == Finishes("expecting_newline_3", <<LF>>)
<1> SUFFICES ASSUME NEW p \in Sound, p.state = "expecting_newline_3", p.result = "indeterminate"
             PROVE  Parse(p, <<LF>>).result = "good" /\ Parse(p, <<LF>>).at = p.at + 1
    BY DEF Finishes
<1>1. Follow(p, LF) = "good"
    <2>1. p.state \in States /\ Goes(p, LF, "good")
        BY GoesFromHeader DEF Sound, Parsers
    <2>2. \A to : Goes(p, LF, to) => to = "good"
        BY GoesFromHeader
    <2> QED
        BY <2>1, <2>2, FollowGoes
<1>2. Consume(p, LF).result = "good" /\ Consume(p, LF).at = p.at + 1
    <2>1. LF \in Chars
        BY CharsAssumption
    <2> QED
        BY <1>1, <2>1, ConsumeFields, ConsumeSound
<1>3. Parse(p, <<>>) = p
    <2>1. Parse(p, <<>>) = [p EXCEPT !.result = "indeterminate"]
        BY ParseEmpty
    <2>2. [p EXCEPT !.result = "indeterminate"] = p
        BY DEF Sound, Parsers
    <2> QED
        BY <2>1, <2>2
<1>4. Parse(p, <<LF>>) = Consume(p, LF)
    <2>1. LF \in Chars /\ <<>> \in Seq(Chars) /\ <<LF>> = Append(<<>>, LF)
        BY CharsAssumption
    <2> QED
        BY <1>3, <2>1, ParseAppend
<1> QED
    BY <1>2, <1>4

\* From every state there is something that completes the request.
LEMMA StateFinishes ==
    ASSUME NEW st \in States
    PROVE  \E i \in 1 .. 22 : Finishes(st, Left(i))
<1>0. /\ Whole[2] = SP /\ Whole[1] = "x" /\ Whole[4] = SP /\ Whole[5] = "H" /\ Whole[6] = "T"
      /\ Whole[7] = "T" /\ Whole[8] = "P" /\ Whole[9] = "/" /\ Whole[10] = "1"
      /\ Whole[11] = "." /\ Whole[12] = "1" /\ Whole[13] = CR /\ Whole[14] = LF
      /\ Whole[15] = "x" /\ Whole[16] = ":" /\ Whole[17] = SP /\ Whole[18] = "x"
      /\ Whole[19] = CR /\ Whole[20] = LF /\ Whole[21] = CR /\ Whole[22] = LF
    BY DEF Whole
<1>x. /\ "x" \in NameChars /\ "x" \in TextChars /\ "1" \in Digits
    BY CharsAssumption DEF NameChars, TextChars, Digits, Ctls, Tspecials, High, SP, HT, CR, LF
<1>s. ASSUME NEW i \in 1 .. 22, NEW a, NEW to \in States,
             \A p, too : p.state = a => (Goes(p, Whole[i], too) <=> too = to),
             Finishes(to, Left(i + 1))
      PROVE  Finishes(a, Left(i))
    <2>1. Whole[i] \in Chars /\ Left(i + 1) \in Seq(Chars) /\ Left(i) = <<Whole[i]>> \o Left(i + 1)
        <3>1. i + 1 \in 1 .. 23
            OBVIOUS
        <3> QED
            BY <3>1, LeftOf
    <2> DEFINE x == Whole[i]
               s == Left(i + 1)
    <2>2. x \in Chars /\ s \in Seq(Chars) /\ Finishes(to, s)
          /\ \A p, too : p.state = a => (Goes(p, x, too) <=> too = to)
        BY <1>s, <2>1
    <2> HIDE DEF x, s
    <2>3. Finishes(a, <<x>> \o s)
        BY <2>2, FinishesBefore
    <2> QED
        BY <2>1, <2>3 DEF x, s
<1>22. Finishes("expecting_newline_3", Left(22))
    <2>1. Left(22) = <<LF>>
        <3>1. 22 \in 1 .. 22 /\ 22 + 1 = 23
            OBVIOUS
        <3>2. Left(22) = <<Whole[22]>> \o Left(23)
            BY <3>1, LeftOf
        <3>3. Left(23) = <<>> /\ Whole[22] = LF
            BY <1>0, LeftOf
        <3> QED
            BY <3>2, <3>3
    <2> QED
        BY <2>1, FinishesLast
<1>21. Finishes("header_line_start", Left(21))
    <2>1. \A p, too : p.state = "header_line_start" => (Goes(p, CR, too) <=> too = "expecting_newline_3")
        BY GoesFromHeader, Classes DEF CR, SP, HT
    <2> QED
        BY <1>0, <1>s, <1>22, <2>1 DEF States
<1>20. Finishes("expecting_newline_2", Left(20))
    <2>1. \A p, too : p.state = "expecting_newline_2" => (Goes(p, LF, too) <=> too = "header_line_start")
        BY GoesFromHeader
    <2> QED
        BY <1>0, <1>s, <1>21, <2>1 DEF States
<1>19. Finishes("header_value", Left(19)) /\ Finishes("header_lws", Left(19))
    <2>1. \A p, too : p.state \in {"header_value", "header_lws"} =>
                (Goes(p, CR, too) <=> too = "expecting_newline_2")
        BY GoesFromHeader, Classes DEF CR, SP, HT
    <2> QED
        BY <1>0, <1>s, <1>20, <2>1 DEF States
<1>18. Finishes("header_value", Left(18))
    <2>1. \A p, too : p.state = "header_value" => (Goes(p, "x", too) <=> too = "header_value")
        BY <1>x, GoesFromHeader DEF CR
    <2> QED
        BY <1>0, <1>s, <1>19, <2>1 DEF States
<1>17. Finishes("space_before_header_value", Left(17))
    <2>1. \A p, too : p.state = "space_before_header_value" => (Goes(p, SP, too) <=> too = "header_value")
        BY GoesFromHeader
    <2> QED
        BY <1>0, <1>s, <1>18, <2>1 DEF States
<1>16. Finishes("header_name", Left(16))
    <2>1. \A p, too : p.state = "header_name" => (Goes(p, ":", too) <=> too = "space_before_header_value")
        BY GoesFromHeader, Classes
    <2> QED
        BY <1>0, <1>s, <1>17, <2>1 DEF States
<1>15. Finishes("header_line_start", Left(15))
    <2>1. \A p, too : p.state = "header_line_start" => (Goes(p, "x", too) <=> too = "header_name")
        BY <1>x, GoesFromHeader DEF CR, SP, HT
    <2> QED
        BY <1>0, <1>s, <1>16, <2>1 DEF States
<1>14. Finishes("expecting_newline_1", Left(14))
    <2>1. \A p, too : p.state = "expecting_newline_1" => (Goes(p, LF, too) <=> too = "header_line_start")
        BY GoesFromVersion
    <2> QED
        BY <1>0, <1>s, <1>15, <2>1 DEF States
<1>13. Finishes("http_version_minor", Left(13))
    <2>1. \A p, too : p.state = "http_version_minor" => (Goes(p, CR, too) <=> too = "expecting_newline_1")
        BY GoesFromVersion, Classes
    <2> QED
        BY <1>0, <1>s, <1>14, <2>1 DEF States
<1>12. Finishes("http_version_minor_start", Left(12))
    <2>1. \A p, too : p.state = "http_version_minor_start" => (Goes(p, "1", too) <=> too = "http_version_minor")
        BY <1>x, GoesFromVersion
    <2> QED
        BY <1>0, <1>s, <1>13, <2>1 DEF States
<1>11. Finishes("http_version_major", Left(11))
    <2>1. \A p, too : p.state = "http_version_major" => (Goes(p, ".", too) <=> too = "http_version_minor_start")
        BY GoesFromVersion, Classes
    <2> QED
        BY <1>0, <1>s, <1>12, <2>1 DEF States
<1>10. Finishes("http_version_major_start", Left(10))
    <2>1. \A p, too : p.state = "http_version_major_start" => (Goes(p, "1", too) <=> too = "http_version_major")
        BY <1>x, GoesFromVersion
    <2> QED
        BY <1>0, <1>s, <1>11, <2>1 DEF States
<1>9. Finishes("http_version_slash", Left(9))
    <2>1. \A p, too : p.state = "http_version_slash" => (Goes(p, "/", too) <=> too = "http_version_major_start")
        BY GoesFromVersion
    <2> QED
        BY <1>0, <1>s, <1>10, <2>1 DEF States
<1>8. Finishes("http_version_p", Left(8))
    <2>1. \A p, too : p.state = "http_version_p" => (Goes(p, "P", too) <=> too = "http_version_slash")
        BY GoesFromVersion
    <2> QED
        BY <1>0, <1>s, <1>9, <2>1 DEF States
<1>7. Finishes("http_version_t_2", Left(7))
    <2>1. \A p, too : p.state = "http_version_t_2" => (Goes(p, "T", too) <=> too = "http_version_p")
        BY GoesFromVersion
    <2> QED
        BY <1>0, <1>s, <1>8, <2>1 DEF States
<1>6. Finishes("http_version_t_1", Left(6))
    <2>1. \A p, too : p.state = "http_version_t_1" => (Goes(p, "T", too) <=> too = "http_version_t_2")
        BY GoesFromVersion
    <2> QED
        BY <1>0, <1>s, <1>7, <2>1 DEF States
<1>5. Finishes("http_version_h", Left(5))
    <2>1. \A p, too : p.state = "http_version_h" => (Goes(p, "H", too) <=> too = "http_version_t_1")
        BY GoesFromVersion
    <2> QED
        BY <1>0, <1>s, <1>6, <2>1 DEF States
<1>4. Finishes("uri", Left(4))
    <2>1. \A p, too : p.state = "uri" => (Goes(p, SP, too) <=> too = "http_version_h")
        BY GoesFromMethod
    <2> QED
        BY <1>0, <1>s, <1>5, <2>1 DEF States
<1>3. Finishes("uri", Left(3))
    <2>1. \A p, too : p.state = "uri" => (Goes(p, "/", too) <=> too = "uri")
        <3>1. "/" \in TextChars \ {SP} /\ "/" # SP
            BY CharsAssumption DEF TextChars, Ctls, SP, HT, CR, LF
        <3> QED
            BY <3>1, GoesFromMethod
    <2>2. Whole[3] = "/"
        BY DEF Whole
    <2> QED
        BY <1>s, <1>4, <2>1, <2>2 DEF States
<1>2. Finishes("method", Left(2))
    <2>1. \A p, too : p.state = "method" => (Goes(p, SP, too) <=> too = "uri")
        BY GoesFromMethod, Classes
    <2> QED
        BY <1>0, <1>s, <1>3, <2>1 DEF States
<1>1. Finishes("method_start", Left(1))
    <2>1. \A p, too : p.state = "method_start" => (Goes(p, "x", too) <=> too = "method")
        BY <1>x, GoesFromMethod
    <2> QED
        BY <1>0, <1>s, <1>2, <2>1 DEF States
<1> QED
    BY <1>1, <1>2, <1>3, <1>5, <1>6, <1>7, <1>8, <1>9, <1>10, <1>11, <1>12, <1>13, <1>14,
       <1>16, <1>17, <1>19, <1>20, <1>21, <1>22 DEF States

\* Whatever leaves the parser undecided can be completed to a request.
THEOREM UndecidedCanFinish ==
    ASSUME NEW u \in Seq(Chars), Parse(NewParser, u).result = "indeterminate"
    PROVE  \E r \in Tails : Complete(u \o r)
<1> DEFINE q == Parse(NewParser, u)
<1>1. q \in Sound /\ q.at = Len(u) /\ q.state \in States
    BY NewParserSound, ParseSound, ParseCounts DEF Sound, Parsers
<1>2. PICK i \in 1 .. 22 : Finishes(q.state, Left(i))
    BY <1>1, StateFinishes
<1> DEFINE r == Left(i)
           s == u \o r
<1>3. r \in Tails /\ r \in Seq(Chars)
    <2>1. i \in 1 .. 23
        OBVIOUS
    <2> QED
        BY <2>1, LeftOf
<1>4. Parse(q, r).result = "good" /\ Parse(q, r).at = q.at + Len(r)
    BY <1>1, <1>2 DEF Finishes
<1> HIDE DEF r
<1>5. Parse(q, r) = Parse(NewParser, s)
    BY <1>3, NewParserSound, ParseOnwards
<1>6. s \in Seq(Chars) /\ Len(s) = Len(u) + Len(r)
    BY <1>3, ConcatProperties
<1> HIDE DEF s, q
<1>7. Parse(NewParser, s).result = "good" /\ Parse(NewParser, s).at = Len(s)
    BY <1>1, <1>4, <1>5, <1>6
<1>8. Complete(s)
    BY <1>6, <1>7, GoodIsComplete
<1> QED
    BY <1>3, <1>8 DEF s

-----------------------------------------------------------------------------
(* The tree of routes *)

\* The route i is for the node.
IsFor(i, node) == node = <<Routes[i].method, Leaf(Routes[i])>>

Callback(tree, node) == IF node \in DOMAIN tree THEN tree[node] ELSE NoCallback

\* v is the callback of the last of the first n routes that is for the node.
LastFor(n, node, v) ==
    \/ v = NoCallback /\ \A i \in 1 .. n : ~IsFor(i, node)
    \/ \E i \in 1 .. n :
        /\ IsFor(i, node) /\ v = Routes[i].cb
        /\ \A j \in 1 .. n : i < j => ~IsFor(j, node)

\* The list of routes is one.
RoutesOver(S, C) ==
    /\ Base \in Seq(S)
    /\ Routes \in Seq([method : Seq(S), path : Seq(S) \ {<<>>}, cb : C])

LEMMA RouteType ==
    ASSUME NEW S, NEW C, RoutesOver(S, C), NEW i \in 1 .. Len(Routes)
    PROVE  /\ Routes[i].method \in Seq(S)
           /\ Routes[i].path \in Seq(S) /\ Routes[i].path # <<>>
           /\ Tail(Routes[i].path) \in Seq(S)
           /\ Routes[i].cb \in C
           /\ Leaf(Routes[i]) \in Seq(Seq(S))
<1>1. Routes[i] \in [method : Seq(S), path : Seq(S) \ {<<>>}, cb : C]
    <2> DEFINE R == [method : Seq(S), path : Seq(S) \ {<<>>}, cb : C]
    <2>1. Routes \in Seq(R)
        BY DEF RoutesOver
    <2> HIDE DEF R
    <2>2. Routes[i] \in R
        BY <2>1, ElementOfSeq
    <2> QED
        BY <2>2 DEF R
<1> DEFINE path == Routes[i].path
<1>2. path \in Seq(S) /\ path # <<>> /\ Routes[i].method \in Seq(S) /\ Routes[i].cb \in C
    BY <1>1
<1>3. Tail(path) \in Seq(S)
    <2> HIDE DEF path
    <2> QED
        BY <1>2, HeadTailProperties
<1>4. Split(Tail(path), "/") \in Seq(Seq(S)) /\ <<>> \in Seq(Seq(S))
    <2> DEFINE rest == Tail(path)
    <2>1. rest \in Seq(S)
        BY <1>3
    <2> HIDE DEF rest
    <2>2. Split(rest, "/") \in Seq(Seq(S))
        BY <2>1, SplitType
    <2> QED
        BY <2>2 DEF rest
<1>5. Leaf(Routes[i]) \in Seq(Seq(S))
    BY <1>4 DEF Leaf, Segments
<1> QED
    BY <1>2, <1>3, <1>5

LEMMA AddRouteCallback ==
    ASSUME NEW T, NEW tree, NEW route, Leaf(route) \in Seq(T), NEW node
    PROVE  Callback(AddRoute(tree, route), node) =
                IF node = <<route.method, Leaf(route)>> THEN route.cb
                ELSE Callback(tree, node)
<1>1. Leaf(route) \in Prefixes(Leaf(route))
    BY SubSeqFull DEF Prefixes
<1> QED
    BY <1>1 DEF Callback, AddRoute

LEMMA AddRouteType ==
    ASSUME NEW T, NEW M, NEW V, NoCallback \in V, NEW D \in SUBSET (M \X Seq(T)),
           NEW tree \in [D -> V],
           NEW route, route.method \in M, Leaf(route) \in Seq(T), route.cb \in V
    PROVE  \E E \in SUBSET (M \X Seq(T)) : AddRoute(tree, route) \in [E -> V]
<1> DEFINE on == {<<route.method, s>> : s \in Prefixes(Leaf(route))}
<1>1. Prefixes(Leaf(route)) \subseteq Seq(T)
    <2> SUFFICES ASSUME NEW l \in 0 .. Len(Leaf(route))
                 PROVE  SubSeq(Leaf(route), 1, l) \in Seq(T)
        BY DEF Prefixes
    <2> QED
        OBVIOUS
<1>2. on \subseteq M \X Seq(T)
    BY <1>1
<1> HIDE DEF on
<1>3. AddRoute(tree, route) =
        [node \in DOMAIN tree \cup on |->
            IF node = <<route.method, Leaf(route)>> THEN route.cb
            ELSE IF node \in DOMAIN tree THEN tree[node] ELSE NoCallback]
    BY DEF AddRoute, on
<1>4. AddRoute(tree, route) \in [D \cup on -> V]
    BY <1>3
<1> QED
    BY <1>2, <1>4

\* The nodes of the tree have the callbacks of the routes listed last.
LEMMA TreeHolds ==
    ASSUME NEW S, NEW C, RoutesOver(S, C), NEW node
    PROVE  LastFor(Len(Routes), node, Callback(Tree, node))
<1> DEFINE N == Len(Routes)
           M == Seq(S)
           T == Seq(S)
           V == C \cup {NoCallback}
           Trees == UNION {[D -> V] : D \in SUBSET (M \X Seq(T))}
           none == <<>>
           g == [z \in Trees \X (1 .. N) |-> AddRoute(z[1], Routes[z[2]])]
           Is(f) == f = [n \in 0 .. N |-> IF n = 0 THEN none ELSE AddRoute(f[n - 1], Routes[n])]
           h == CHOOSE f : Is(f)
<1>1. N \in Nat
    BY DEF RoutesOver
<1>2. \A i \in 1 .. N : /\ Routes[i].method \in M /\ Routes[i].cb \in V
                        /\ Leaf(Routes[i]) \in Seq(T)
    BY RouteType
<1>3. none \in Trees
    <2>1. none \in [{} -> V]
        OBVIOUS
    <2> QED
        BY <2>1
<1>4. ASSUME NEW tree \in Trees, NEW i \in 1 .. N
      PROVE  AddRoute(tree, Routes[i]) \in Trees
    <2>1. PICK D \in SUBSET (M \X Seq(T)) : tree \in [D -> V]
        OBVIOUS
    <2>2. NoCallback \in V
        OBVIOUS
    <2>3. PICK E \in SUBSET (M \X Seq(T)) : AddRoute(tree, Routes[i]) \in [E -> V]
        <3> HIDE DEF M, T, V, N
        <3> QED
            BY <1>2, <2>1, <2>2, AddRouteType
    <2> QED
        BY <2>3
<1>5. StaysIn(Trees, N, g)
    <2> HIDE DEF Trees
    <2>1. ASSUME NEW z \in Trees \X (1 .. N) PROVE AddRoute(z[1], Routes[z[2]]) \in Trees
        BY <1>4
    <2> QED
        BY <2>1 DEF StaysIn
<1>6. \A t \in Trees, n \in 1 .. N : g[<<t, n>>] = AddRoute(t, Routes[n])
    OBVIOUS
<1> HIDE DEF g, Trees
<1>7. PICK f : Takes(Trees, none, N, g, f)
    BY <1>1, <1>3, <1>5, Recursion
<1>8. f \in [0 .. N -> Trees] /\ f[0] = none
      /\ \A n \in 1 .. N : f[n] = AddRoute(f[n - 1], Routes[n])
    <2>1. \A n \in 1 .. N : f[n - 1] \in Trees
        BY <1>1, <1>7 DEF Takes
    <2> QED
        BY <1>6, <1>7, <2>1 DEF Takes
<1>9. Is(f)
    <2>1. f = [n \in 0 .. N |-> f[n]]
        BY <1>8
    <2>2. \A n \in 0 .. N : f[n] = IF n = 0 THEN none ELSE AddRoute(f[n - 1], Routes[n])
        BY <1>1, <1>8
    <2> QED
        BY <2>1, <2>2
<1>10. Is(h)
    BY <1>9
<1>11. Tree = h[N]
    BY DEF Tree
<1> HIDE DEF h
<1>12. h[0] = none /\ \A n \in 1 .. N : h[n] = AddRoute(h[n - 1], Routes[n])
    BY <1>1, <1>10
<1> DEFINE P == {n \in 0 .. N : LastFor(n, node, Callback(h[n], node))}
<1>13. 0 \in P
    <2>1. Callback(h[0], node) = NoCallback
        BY <1>12 DEF Callback
    <2> QED
        BY <1>1, <2>1 DEF LastFor
<1>14. ASSUME NEW n \in 1 .. N, n - 1 \in P PROVE n \in P
    <2>1. Callback(h[n], node) = IF IsFor(n, node) THEN Routes[n].cb
                                 ELSE Callback(h[n - 1], node)
        BY <1>2, <1>12, AddRouteCallback DEF IsFor
    <2>2. LastFor(n - 1, node, Callback(h[n - 1], node))
        BY <1>14
    <2> QED
        BY <2>1, <2>2 DEF LastFor
<1>15. 0 .. N \subseteq P
    <2> HIDE DEF P
    <2> QED
        BY <1>1, <1>13, <1>14, UpTo
<1>16. N \in P
    BY <1>1, <1>15
<1> QED
    BY <1>11, <1>16

LEMMA PathOfType ==
    ASSUME NEW S, NEW u \in Seq(S)
    PROVE  PathOf(u) \in Seq(S)
<1> DEFINE I == {i \in 1 .. Len(u) : u[i] = "?"}
           q == SelectInSeq(u, LAMBDA c : c = "?")
<1>1. q = IF I # {} THEN Min(I) ELSE 0
    BY DEF SelectInSeq
<1>2. q \in 0 .. Len(u)
    <2>1. Len(u) \in Nat
        OBVIOUS
    <2>2. CASE I # {}
        <3> HIDE DEF q
        <3>1. Min(I) \in I
            BY <2>1, <2>2, MinUpTo
        <3> QED
            BY <1>1, <2>2, <3>1
    <2>3. CASE I = {}
        BY <1>1, <2>1, <2>3
    <2> QED
        BY <2>2, <2>3
<1>3. PathOf(u) = IF q = 0 THEN u ELSE SubSeq(u, 1, q - 1)
    BY DEF PathOf
<1> HIDE DEF q
<1> QED
    BY <1>2, <1>3

\* What is the same as base and a path begins with the base.
LEMMA SameBegins ==
    ASSUME NEW S, NEW b \in Seq(S), b = Base, NEW path \in Seq(S), NEW r \in Seq(S),
           SamePath(path, b \o r)
    PROVE  IsPrefix(Base, path)
<1>1. Len(path) = Len(b) + Len(r)
    BY ConcatProperties DEF SamePath
<1>2. \A i \in 1 .. Len(b) : path[i] = b[i]
    <2> SUFFICES ASSUME NEW i \in 1 .. Len(b) PROVE path[i] = b[i]
        OBVIOUS
    <2>1. i \in 1 .. Len(path) /\ i # Len(Base) + 1
        BY <1>1
    <2>2. path[i] = (b \o r)[i]
        BY <2>1 DEF SamePath
    <2> QED
        BY <2>2, ConcatProperties
<1>3. SubSeq(b, 1, Len(b)) = SubSeq(path, 1, Len(b))
    <2>1. \A i \in 1 .. Len(b) : path[i] \in S
        BY <1>1
    <2>2. SubSeq(path, 1, Len(b)) \in Seq(S) /\ Len(SubSeq(path, 1, Len(b))) = Len(b)
          /\ \A i \in 1 .. Len(b) : SubSeq(path, 1, Len(b))[i] = path[i]
        BY <1>1
    <2>3. b = SubSeq(path, 1, Len(b))
        BY <1>2, <2>2, SeqEqual
    <2> QED
        BY <2>3, SubSeqFull
<1> QED
    BY <1>1, <1>3 DEF IsPrefix

\* A path that begins with the base is that of a route just if the rest is.
LEMMA SameRest ==
    ASSUME NEW S, NEW b \in Seq(S), b = Base, NEW path \in Seq(S), IsPrefix(Base, path),
           NEW r \in Seq(S), r # <<>>
    PROVE  SamePath(path, b \o r) <=> path # Base /\ Rest(path) = Tail(r)
<1> DEFINE n == Len(b)
<1>1. n \in Nat /\ Len(path) \in Nat /\ n <= Len(path) /\ Len(r) \in Nat \ {0}
    BY DEF IsPrefix
<1>2. \A i \in 1 .. n : path[i] = b[i]
    <2>1. SubSeq(b, 1, n) = SubSeq(path, 1, n)
        BY DEF IsPrefix
    <2>2. \A i \in 1 .. n : SubSeq(b, 1, n)[i] = b[i] /\ SubSeq(path, 1, n)[i] = path[i]
        BY <1>1
    <2> QED
        BY <2>1, <2>2
<1>3. path # Base <=> Len(path) > n
    <2>1. Len(path) = n => path = b
        BY <1>2, SeqEqual
    <2> QED
        BY <1>1, <2>1
<1>4. /\ Len(b \o r) = n + Len(r)
      /\ \A i \in 1 .. n + Len(r) : (b \o r)[i] = IF i <= n THEN b[i] ELSE r[i - n]
    BY ConcatProperties
<1>5. /\ Rest(path) \in Seq(S)
      /\ Len(path) > n => Len(Rest(path)) = Len(path) - n - 1
      /\ \A i \in 1 .. Len(path) - n - 1 : Rest(path)[i] = path[n + 1 + i]
    BY <1>1 DEF Rest
<1>6. /\ Tail(r) \in Seq(S) /\ Len(Tail(r)) = Len(r) - 1
      /\ \A i \in 1 .. Len(r) - 1 : Tail(r)[i] = r[i + 1]
    BY HeadTailProperties
<1> DEFINE c == b \o r
           x == Rest(path)
           y == Tail(r)
<1>7. SamePath(path, c) <=> /\ Len(path) = Len(c)
                            /\ \A i \in 1 .. Len(path) : i = n + 1 \/ path[i] = c[i]
    BY SMTT(40) DEF SamePath
<1> HIDE DEF c, x, y, n
<1>8. ASSUME SamePath(path, c) PROVE path # Base /\ x = y
    <2>1. Len(path) = n + Len(r) /\ \A i \in 1 .. Len(path) : i = n + 1 \/ path[i] = c[i]
        BY <1>4, <1>7, <1>8 DEF c
    <2>2. Len(path) > n
        BY <1>1, <2>1
    <2>3. Len(x) = Len(y)
        BY <1>1, <1>5, <1>6, <2>1, <2>2 DEF x, y
    <2>4. \A i \in 1 .. Len(r) - 1 : x[i] = y[i]
        <3> SUFFICES ASSUME NEW i \in 1 .. Len(r) - 1 PROVE x[i] = y[i]
            OBVIOUS
        <3>1. x[i] = path[n + 1 + i] /\ y[i] = r[i + 1]
            <4>1. i \in 1 .. Len(path) - n - 1
                BY <1>1, <2>1
            <4>2. Rest(path)[i] = path[n + 1 + i]
                BY <1>5, <4>1
            <4> QED
                BY <1>6, <4>2 DEF x, y
        <3>2. n + 1 + i \in 1 .. Len(path) /\ n + 1 + i # n + 1 /\ ~(n + 1 + i <= n)
              /\ (n + 1 + i) - n = i + 1
            BY <1>1, <2>1
        <3>3. path[n + 1 + i] = c[n + 1 + i]
            BY <2>1, <3>2
        <3>4. c[n + 1 + i] = r[i + 1]
            BY <1>4, <2>1, <3>2 DEF c
        <3> QED
            BY <3>1, <3>3, <3>4
    <2>5. x = y
        BY <1>5, <1>6, <2>3, <2>4, SeqEqual DEF x, y
    <2> QED
        BY <1>3, <2>2, <2>5
<1>9. ASSUME path # Base, x = y PROVE SamePath(path, c)
    <2>1. Len(path) = n + Len(r)
        BY <1>1, <1>3, <1>5, <1>6, <1>9 DEF x, y
    <2>2. ASSUME NEW i \in 1 .. Len(path), i # n + 1 PROVE path[i] = c[i]
        <3>1. CASE i <= n
            BY <1>2, <1>4, <2>1, <3>1 DEF c
        <3>2. CASE i > n
            <4>1. i - n - 1 \in 1 .. Len(r) - 1 /\ n + 1 + (i - n - 1) = i
                  /\ (i - n - 1) + 1 = i - n
                BY <1>1, <2>1, <2>2, <3>2
            <4>2. x[i - n - 1] = path[i]
                <5>1. i - n - 1 \in 1 .. Len(path) - n - 1
                    BY <1>1, <2>1, <4>1
                <5>2. Rest(path)[i - n - 1] = path[n + 1 + (i - n - 1)]
                    BY <1>5, <5>1
                <5> QED
                    BY <4>1, <5>2 DEF x
            <4>3. y[i - n - 1] = r[i - n]
                BY <1>6, <4>1 DEF y
            <4>4. c[i] = r[i - n]
                BY <1>1, <1>4, <2>1, <3>2 DEF c
            <4> QED
                BY <1>9, <4>2, <4>3, <4>4
        <3> QED
            BY <1>1, <3>1, <3>2
    <2> QED
        BY <1>4, <1>7, <2>1, <2>2 DEF c
<1> QED
    BY <1>8, <1>9 DEF c, x, y

\* A route is for the node that the walk ends at just if its path is the one
\* walked.
LEMMA SameNode ==
    ASSUME NEW S, NEW C, RoutesOver(S, C), NEW i \in 1 .. Len(Routes),
           NEW m, NEW path \in Seq(S), IsPrefix(Base, path)
    PROVE  IsFor(i, NodeOf(m, path)) <=>
                Routes[i].method = m /\ SamePath(path, FullPath(Routes[i]))
<1> DEFINE r == Routes[i].path
<1>1. r \in Seq(S) /\ r # <<>> /\ Tail(r) \in Seq(S) /\ Base \in Seq(S)
    BY RouteType DEF RoutesOver
<1>2. IsFor(i, NodeOf(m, path)) <=>
        /\ Routes[i].method = m
        /\ (IF path = Base THEN <<>> ELSE Segments(Rest(path))) = Leaf(Routes[i])
    BY DEF IsFor, NodeOf
<1>3. Leaf(Routes[i]) = IF r = <<"/">> THEN <<>> ELSE Segments(Tail(r))
    BY DEF Leaf
<1>4. FullPath(Routes[i]) = Base \o (IF r = <<"/">> THEN <<>> ELSE r)
    BY DEF FullPath
<1> HIDE DEF r
<1>5. Rest(path) \in Seq(S)
    <2>1. Len(Base) \in Nat /\ Len(path) \in Nat
        BY <1>1
    <2> QED
        BY <2>1 DEF Rest
<1>6. \A x \in Seq(S) : Segments(x) # <<>>
    BY SplitType DEF Segments
<1>7. CASE r = <<"/">>
    <2>1. FullPath(Routes[i]) = Base
        BY <1>1, <1>4, <1>7, ConcatEmptySeq
    <2>2. SamePath(path, Base) <=> path = Base
        <3>1. ASSUME SamePath(path, Base) PROVE path = Base
            <4>1. Len(path) = Len(Base) /\ \A j \in 1 .. Len(path) : j = Len(Base) + 1 \/ path[j] = Base[j]
                BY <3>1 DEF SamePath
            <4>2. \A j \in 1 .. Len(path) : path[j] = Base[j]
                BY <1>1, <4>1
            <4> QED
                BY <1>1, <4>1, <4>2, SeqEqual
        <3>2. SamePath(Base, Base)
            BY DEF SamePath
        <3> QED
            BY <3>1, <3>2
    <2> QED
        BY <1>2, <1>3, <1>5, <1>6, <1>7, <2>1, <2>2
<1>8. CASE r # <<"/">>
    <2>1. SamePath(path, Base \o r) <=> path # Base /\ Rest(path) = Tail(r)
        BY <1>1, SameRest
    <2>2. Segments(Rest(path)) = Segments(Tail(r)) <=> Rest(path) = Tail(r)
        BY <1>1, <1>5, SplitInjective DEF Segments
    <2> QED
        BY <1>1, <1>2, <1>3, <1>4, <1>6, <1>8, <2>1, <2>2
<1> QED
    BY <1>7, <1>8

\* A walk through the tree of the routes ends at the callback of the last route
\* listed for the method and the path, or nowhere if none is: whatever the routes.
THEOREM RouteIsListed ==
    ASSUME NEW S, NEW C, RoutesOver(S, C), NEW m, NEW u \in Seq(S)
    PROVE  Route(m, u) = Listed(m, u)
<1> DEFINE path == PathOf(u)
           node == NodeOf(m, path)
           N == Len(Routes)
           I == {i \in 1 .. N : Routes[i].method = m /\ SamePath(path, FullPath(Routes[i]))}
           last == SelectLastInSeq(Routes,
                        LAMBDA r : r.method = m /\ SamePath(PathOf(u), FullPath(r)))
<1>1. path \in Seq(S) /\ N \in Nat
    BY PathOfType DEF RoutesOver
<1>2. last = IF I # {} THEN Max(I) ELSE 0
    BY DEF SelectLastInSeq
<1>3. Listed(m, u) = IF last = 0 THEN NotFound ELSE Routes[last].cb
    BY DEF Listed
<1> HIDE DEF last
<1>4. CASE IsPrefix(Base, path)
    <2>1. \A i \in 1 .. N : i \in I <=> IsFor(i, node)
        BY <1>1, <1>4, SameNode
    <2>2. Route(m, u) = Callback(Tree, node)
        BY <1>4 DEF Route, Callback, NotFound
    <2>3. LastFor(N, node, Callback(Tree, node))
        BY TreeHolds
    <2> HIDE DEF node, path
    <2>4. CASE I = {}
        BY <1>2, <1>3, <2>1, <2>2, <2>3, <2>4 DEF LastFor, NotFound
    <2>5. CASE I # {}
        <3>1. Max(I) \in I /\ \A i \in I : i <= Max(I)
            BY <1>1, <2>5, MaxUpTo
        <3> DEFINE k == Max(I)
        <3>2. Listed(m, u) = Routes[k].cb
            BY <1>2, <1>3, <2>5, <3>1
        <3> HIDE DEF k
        <3>3. k \in 1 .. N /\ IsFor(k, node) /\ \A j \in 1 .. N : k < j => ~IsFor(j, node)
            <4>1. k \in I /\ k \in 1 .. N
                BY <3>1 DEF k
            <4>2. ASSUME NEW j \in 1 .. N, k < j PROVE j \notin I
                <5>1. j \in I => j <= k
                    BY <3>1 DEF k
                <5> QED
                    BY <4>1, <4>2, <5>1
            <4> HIDE DEF I
            <4> QED
                BY <2>1, <4>1, <4>2
        <3>4. PICK i \in 1 .. N : /\ IsFor(i, node) /\ Callback(Tree, node) = Routes[i].cb
                                  /\ \A j \in 1 .. N : i < j => ~IsFor(j, node)
            BY <2>3, <3>3 DEF LastFor
        <3>5. i = k
            BY <3>3, <3>4
        <3> QED
            BY <2>2, <3>2, <3>4, <3>5
    <2> QED
        BY <2>4, <2>5
<1>5. CASE ~IsPrefix(Base, path)
    <2>1. I = {}
        <3> SUFFICES ASSUME NEW i \in 1 .. N, SamePath(path, FullPath(Routes[i])) PROVE FALSE
            OBVIOUS
        <3> DEFINE r == IF Routes[i].path = <<"/">> THEN <<>> ELSE Routes[i].path
        <3>1. r \in Seq(S) /\ Base \in Seq(S)
            BY RouteType DEF RoutesOver
        <3>2. FullPath(Routes[i]) = Base \o r
            BY DEF FullPath
        <3> HIDE DEF r, path
        <3> QED
            BY <1>1, <1>5, <3>1, <3>2, SameBegins
    <2>2. Listed(m, u) = NotFound
        BY <1>2, <1>3, <2>1
    <2> QED
        BY <1>5, <2>2 DEF Route
<1> QED
    BY <1>4, <1>5

-----------------------------------------------------------------------------
(* The headers of a request *)

FieldsOver(S) == [length : {-1} \cup {NumberOf(v) : v \in Seq(S)},
                  type : Seq(S), session : Seq(S), cookies : SUBSET Seq(S),
                  seen : Nat, thrown : BOOLEAN]

\* f and g differ in the session and the cookies at most.
SameButCookies(f, g) ==
    /\ f.length = g.length /\ f.type = g.type
    /\ f.seen = g.seen /\ f.thrown = g.thrown

NamesSession(pair) == Len(pair) >= 2 /\ pair[1] = "SESSION" /\ pair[2] = "="

LEMMA PrefixNames ==
    ASSUME NEW S, NEW pair \in Seq(S)
    PROVE  IsPrefix(<<"SESSION", "=">>, pair) <=> NamesSession(pair)
<1> DEFINE s == <<"SESSION", "=">>
           T == S \cup {"SESSION", "="}
<1>1. s \in Seq(T) /\ pair \in Seq(T) /\ Len(s) = 2 /\ s[1] = "SESSION" /\ s[2] = "="
    OBVIOUS
<1> HIDE DEF s, T
<1>a. ASSUME NEW u \in Seq(T), Len(u) >= 2
      PROVE  /\ SubSeq(u, 1, 2) \in Seq(T) /\ Len(SubSeq(u, 1, 2)) = 2
             /\ SubSeq(u, 1, 2)[1] = u[1] /\ SubSeq(u, 1, 2)[2] = u[2]
    <2>1. Len(u) \in Nat /\ 2 <= Len(u)
        BY <1>a
    <2> QED
        BY <2>1
<1>2. SubSeq(s, 1, 2) \in Seq(T) /\ Len(SubSeq(s, 1, 2)) = 2
      /\ SubSeq(s, 1, 2)[1] = s[1] /\ SubSeq(s, 1, 2)[2] = s[2]
    <2>1. s \in Seq(T) /\ Len(s) >= 2
        BY <1>1
    <2> QED
        BY <2>1, <1>a
<1>3. Len(pair) >= 2 =>
        /\ SubSeq(pair, 1, 2) \in Seq(T) /\ Len(SubSeq(pair, 1, 2)) = 2
        /\ SubSeq(pair, 1, 2)[1] = pair[1] /\ SubSeq(pair, 1, 2)[2] = pair[2]
    BY <1>1, <1>a
<1>4. IsPrefix(s, pair) <=> Len(pair) >= 2 /\ SubSeq(s, 1, 2) = SubSeq(pair, 1, 2)
    BY <1>1 DEF IsPrefix
<1>5. Len(pair) >= 2 /\ SubSeq(s, 1, 2)[1] = SubSeq(pair, 1, 2)[1]
        /\ SubSeq(s, 1, 2)[2] = SubSeq(pair, 1, 2)[2] => SubSeq(s, 1, 2) = SubSeq(pair, 1, 2)
    <2> DEFINE a == SubSeq(s, 1, 2)
               b == SubSeq(pair, 1, 2)
    <2> SUFFICES ASSUME Len(pair) >= 2, a[1] = b[1], a[2] = b[2] PROVE a = b
        OBVIOUS
    <2>1. a \in Seq(T) /\ b \in Seq(T) /\ Len(a) = 2 /\ Len(b) = 2
        BY <1>2, <1>3
    <2> HIDE DEF a, b
    <2>2. \A i \in 1 .. Len(a) : a[i] = b[i]
        BY <2>1
    <2> QED
        BY <2>1, <2>2, SeqEqual
<1>6. IsPrefix(s, pair) <=> NamesSession(pair)
    BY <1>1, <1>2, <1>3, <1>4, <1>5 DEF NamesSession
<1> QED
    BY <1>6 DEF s

\* The first "=" of a pair
LEMMA SelectEquals ==
    ASSUME NEW S, NEW l \in Seq(S)
    PROVE  LET eq == SelectInSeq(l, LAMBDA c : c = "=") IN
           /\ eq \in 0 .. Len(l)
           /\ eq = 0 => \A i \in 1 .. Len(l) : l[i] # "="
           /\ eq # 0 => l[eq] = "=" /\ \A i \in 1 .. Len(l) : l[i] = "=" => eq <= i
<1> DEFINE I == {i \in 1 .. Len(l) : l[i] = "="}
           first == Min(I)
<1>1. SelectInSeq(l, LAMBDA c : c = "=") = IF I # {} THEN first ELSE 0
    BY DEF SelectInSeq
<1>2. Len(l) \in Nat
    OBVIOUS
<1>3. I \in SUBSET (1 .. Len(l)) /\ \A i : i \in I <=> i \in 1 .. Len(l) /\ l[i] = "="
    OBVIOUS
<1> HIDE DEF I
<1>4. I # {} => first \in I /\ \A i \in I : first <= i
    BY <1>2, <1>3, MinUpTo
<1> HIDE DEF first
<1> QED
    BY <1>1, <1>2, <1>3, <1>4

LEMMA TakePairGives ==
    ASSUME NEW S, NEW f \in FieldsOver(S), NEW pair \in Seq(S)
    PROVE  LET g == TakePair(f, pair) IN
           /\ g \in FieldsOver(S) /\ SameButCookies(g, f)
           /\ g.session = IF NamesSession(pair) THEN SubSeq(pair, 3, Len(pair)) ELSE f.session
<1> DEFINE eq == SelectInSeq(pair, LAMBDA c : c = "=")
           key == SubSeq(pair, 1, eq - 1)
           rest == SubSeq(pair, eq + 1, Len(pair))
           g == TakePair(f, pair)
<1>1. /\ eq \in 0 .. Len(pair)
      /\ eq = 0 => \A i \in 1 .. Len(pair) : pair[i] # "="
      /\ eq # 0 => pair[eq] = "=" /\ \A i \in 1 .. Len(pair) : pair[i] = "=" => eq <= i
    BY SelectEquals
<1>2. g = IF eq = 0 THEN f ELSE IF key = Session THEN [f EXCEPT !.session = rest]
          ELSE [f EXCEPT !.cookies = @ \cup {key}]
    BY DEF TakePair
<1> HIDE DEF eq, g
<1>3. key \in Seq(S) /\ rest \in Seq(S) /\ Len(pair) \in Nat
    BY <1>1
<1>4. eq # 0 => (key = Session <=> eq = 2 /\ pair[1] = "SESSION")
    <2> SUFFICES ASSUME eq # 0 PROVE key = Session <=> eq = 2 /\ pair[1] = "SESSION"
        OBVIOUS
    <2>1. Len(key) = eq - 1 /\ \A i \in 1 .. eq - 1 : key[i] = pair[i]
        BY <1>1, <1>3
    <2>2. key = Session => eq = 2 /\ pair[1] = "SESSION"
        <3>1. Len(Session) = 1 /\ Session[1] = "SESSION"
            BY DEF Session
        <3>2. key = Session => eq - 1 = 1 /\ key[1] = "SESSION" /\ key[1] = pair[1]
            <4> HIDE DEF key
            <4>1. key = Session => eq - 1 = 1 /\ key[1] = "SESSION"
                BY <2>1, <3>1
            <4> QED
                BY <2>1, <4>1
        <3> QED
            BY <1>1, <3>2
    <2>3. eq = 2 /\ pair[1] = "SESSION" => key = Session
        <3> SUFFICES ASSUME eq = 2, pair[1] = "SESSION" PROVE key = Session
            OBVIOUS
        <3>1. Len(key) = 1 /\ key[1] = "SESSION"
            BY <2>1
        <3> HIDE DEF key
        <3>2. key = << key[1] >>
            BY <1>3, <3>1
        <3> QED
            BY <3>1, <3>2 DEF Session
    <2> QED
        BY <2>2, <2>3
<1>5. NamesSession(pair) <=> eq # 0 /\ key = Session
    <2>1. NamesSession(pair) => eq = 2
        <3> SUFFICES ASSUME NamesSession(pair) PROVE eq = 2
            OBVIOUS
        <3>1. 2 \in 1 .. Len(pair) /\ 1 \in 1 .. Len(pair) /\ pair[2] = "=" /\ pair[1] # "="
            BY <1>3 DEF NamesSession
        <3> QED
            BY <1>1, <3>1
    <2> QED
        BY <1>1, <1>3, <1>4, <2>1 DEF NamesSession
<1>6. eq # 0 /\ key = Session => rest = SubSeq(pair, 3, Len(pair))
    <2>1. eq # 0 /\ key = Session => eq + 1 = 3
        <3> HIDE DEF key
        <3> QED
            BY <1>4
    <2> QED
        BY <2>1
<1> HIDE DEF key, rest
<1>7. g \in FieldsOver(S) /\ SameButCookies(g, f)
    BY <1>2, <1>3 DEF FieldsOver, SameButCookies
<1>8. g.session = IF eq # 0 /\ key = Session THEN rest ELSE f.session
    BY <1>2 DEF FieldsOver
<1> QED
    BY <1>5, <1>6, <1>7, <1>8 DEF g

PairOf(w, k) == IF k = 1 THEN w[k] ELSE Tail(w[k])

\* The session that the first m of the pieces w leave, where there was one
LastSession(w, m, old, new) ==
    \/ new = old /\ \A k \in 1 .. m : ~NamesSession(PairOf(w, k))
    \/ \E k \in 1 .. m :
        /\ NamesSession(PairOf(w, k))
        /\ new = SubSeq(PairOf(w, k), 3, Len(PairOf(w, k)))
        /\ \A j \in 1 .. m : k < j => ~NamesSession(PairOf(w, j))

LEMMA LastSessionSame ==
    ASSUME NEW w, NEW x, NEW m \in Nat, \A k \in 1 .. m : w[k] = x[k], NEW old, NEW new,
           LastSession(w, m, old, new)
    PROVE  LastSession(x, m, old, new)
<1>1. \A k \in 1 .. m : PairOf(w, k) = PairOf(x, k)
    BY DEF PairOf
<1> QED
    BY <1>1 DEF LastSession

LEMMA LastSessionNext ==
    ASSUME NEW w, NEW m \in Nat, NEW old, NEW mid, LastSession(w, m, old, mid),
           NEW new, new = IF NamesSession(PairOf(w, m + 1))
                          THEN SubSeq(PairOf(w, m + 1), 3, Len(PairOf(w, m + 1))) ELSE mid
    PROVE  LastSession(w, m + 1, old, new)
<1>1. CASE NamesSession(PairOf(w, m + 1))
    <2>1. m + 1 \in 1 .. m + 1 /\ \A j \in 1 .. m + 1 : ~(m + 1 < j)
        OBVIOUS
    <2>2. new = SubSeq(PairOf(w, m + 1), 3, Len(PairOf(w, m + 1)))
        BY <1>1
    <2> QED
        BY <1>1, <2>1, <2>2 DEF LastSession
<1>2. CASE ~NamesSession(PairOf(w, m + 1))
    <2>1. new = mid /\ \A k \in 1 .. m + 1 : k \in 1 .. m \/ k = m + 1
        BY <1>2
    <2>2. CASE mid = old /\ \A k \in 1 .. m : ~NamesSession(PairOf(w, k))
        BY <1>2, <2>1, <2>2 DEF LastSession
    <2>3. CASE \E k \in 1 .. m :
                /\ NamesSession(PairOf(w, k))
                /\ mid = SubSeq(PairOf(w, k), 3, Len(PairOf(w, k)))
                /\ \A j \in 1 .. m : k < j => ~NamesSession(PairOf(w, j))
        <3>1. PICK k \in 1 .. m :
                /\ NamesSession(PairOf(w, k))
                /\ mid = SubSeq(PairOf(w, k), 3, Len(PairOf(w, k)))
                /\ \A j \in 1 .. m : k < j => ~NamesSession(PairOf(w, j))
            BY <2>3
        <3>2. k \in 1 .. m + 1
            OBVIOUS
        <3>3. \A j \in 1 .. m + 1 : k < j => ~NamesSession(PairOf(w, j))
            BY <1>2, <2>1, <3>1
        <3> QED
            BY <2>1, <3>1, <3>2, <3>3 DEF LastSession
    <2> QED
        BY <2>2, <2>3 DEF LastSession
<1> QED
    BY <1>1, <1>2

\* Where the last piece of v begins
LastBegins(w, start) == IF Len(w) = 1 THEN 1 ELSE start - 1

\* After i characters of v, whose pieces are w, the cursor is at the last piece, past
\* its space, and the pairs before it are taken.
CutAt(S, v, i, w, f, acc) ==
    LET b == LastBegins(w, acc.start) IN
    /\ acc.start \in Nat
    /\ Len(w) = 1 => acc.start = 1
    /\ Len(w) > 1 => b > 1 /\ v[b - 1] = ";"
    /\ b \in 1 .. i + 1
    /\ w[Len(w)] = SubSeq(v, b, i)
    /\ i > 0 /\ v[i] = ";" => Len(w) > 1 /\ b = i + 1
    /\ acc.f \in FieldsOver(S) /\ SameButCookies(acc.f, f)
    /\ LastSession(w, Len(w) - 1, f.session, acc.f.session)
    /\ \A k \in 1 .. Len(w) - 1 : PairOf(w, k) \in Seq(S)

LEMMA CutTail ==
    ASSUME NEW S, NEW v \in Seq(S), NEW n \in 1 .. Len(v), NEW b \in 1 .. n
    PROVE  Tail(SubSeq(v, b, n)) = SubSeq(v, b + 1, n)
OBVIOUS

LEMMA SliceGrows ==
    ASSUME NEW S, NEW v \in Seq(S), NEW i \in 1 .. Len(v), NEW b \in 1 .. i
    PROVE  /\ Append(SubSeq(v, b, i - 1), v[i]) = SubSeq(v, b, i)
           /\ SubSeq(v, b, i - 1) \in Seq(S)
           /\ SubSeq(v, i + 1, i) = <<>>
OBVIOUS

LEMMA CutPairAt ==
    ASSUME NEW S, NEW f, NEW v \in Seq(S), Spaced(v), NEW i \in 1 .. Len(v),
           NEW w \in Seq(Seq(S)), w # <<>>, NEW acc, CutAt(S, v, i - 1, w, f, acc)
    PROVE  CutAt(S, v, i, SplitStep(w, v[i], ";"), f, CutPair(acc, v, i, 2))
<1> DEFINE m == Len(w)
           st == acc.start
           b == LastBegins(w, st)
           T == Seq(S)
           x == SplitStep(w, v[i], ";")
           next == CutPair(acc, v, i, 2)
           was == acc.f.session
           old == f.session
<1>0. v[i] \in S /\ w[m] \in T
    OBVIOUS
<1>1. m \in Nat \ {0} /\ Len(v) \in Nat /\ i \in Nat /\ i >= 1 /\ i <= Len(v)
    OBVIOUS
<1>2. /\ st \in Nat
      /\ m = 1 => st = 1
      /\ m > 1 => b > 1 /\ v[b - 1] = ";"
      /\ b \in 1 .. (i - 1) + 1
      /\ w[m] = SubSeq(v, b, i - 1)
      /\ acc.f \in FieldsOver(S) /\ SameButCookies(acc.f, f)
      /\ LastSession(w, m - 1, old, was)
      /\ \A k \in 1 .. m - 1 : PairOf(w, k) \in T
    BY DEF CutAt
<1>3. b = IF m = 1 THEN 1 ELSE st - 1
    BY DEF LastBegins
<1> HIDE DEF m, st, b, was, old
<1>4. /\ b \in Nat /\ b >= 1 /\ b <= i /\ st \in Nat /\ st >= 1
      /\ m = 1 => b = st
      /\ m > 1 => b > 1 /\ b + 1 = st
    <2>1. st \in Nat /\ (m = 1 => st = 1) /\ (m > 1 => b > 1)
        BY <1>2
    <2>2. b \in 1 .. (i - 1) + 1 /\ m \in Nat /\ i \in Nat
        BY <1>1, <1>2
    <2>3. b \in Nat /\ b >= 1 /\ b <= i
        BY <2>2
    <2> QED
        BY <1>3, <2>1, <2>2, <2>3
<1>5. CASE v[i] # ";"
    <2>1. next = acc
        BY <1>5 DEF CutPair
    <2>2. x = [w EXCEPT ![m] = Append(w[m], v[i])]
        BY <1>5 DEF SplitStep, m
    <2>3. Append(w[m], v[i]) \in T
        BY <1>0
    <2>4. /\ Len(x) = m /\ x[m] = Append(w[m], v[i])
          /\ \A k \in 1 .. m : k # m => x[k] = w[k]
        <3> HIDE DEF T, x
        <3>1. w \in Seq(T)
            BY DEF T
        <3> QED
            BY <2>2, <2>3, <3>1, LastReplaced DEF m
    <2> HIDE DEF x, next
    <2>5. Append(SubSeq(v, b, i - 1), v[i]) = SubSeq(v, b, i)
        <3>1. b \in 1 .. i
            BY <1>1, <1>4
        <3> QED
            BY <3>1, SliceGrows
    <2>6. LastSession(x, m - 1, old, was)
        <3>1. m - 1 \in Nat /\ \A k \in 1 .. m - 1 : w[k] = x[k]
            BY <1>1, <2>4
        <3> QED
            BY <1>2, <3>1, LastSessionSame
    <2>7. LastBegins(x, next.start) = b /\ next.start = st
        BY <2>1, <2>4 DEF LastBegins, st, b, m
    <2>8. next.f = acc.f /\ next.f.session = was
        BY <2>1 DEF was
    <2>9. b \in 1 .. i + 1
        BY <1>1, <1>4
    <2>p. \A k \in 1 .. m - 1 : PairOf(x, k) \in Seq(S)
        <3>1. \A k \in 1 .. m - 1 : PairOf(x, k) = PairOf(w, k)
            BY <1>1, <2>4 DEF PairOf
        <3> QED
            BY <1>2, <3>1
    <2>10. CutAt(S, v, i, x, f, next)
        BY <2>p, <1>2, <1>5, <2>4, <2>5, <2>6, <2>7, <2>8, <2>9 DEF CutAt, old
    <2> QED
        BY <2>10 DEF x, next
<1>6. CASE v[i] = ";"
    <2>1. x = Append(w, <<>>)
        BY <1>6 DEF SplitStep
    <2>2. /\ Len(x) = m + 1 /\ x[m + 1] = <<>>
          /\ \A k \in 1 .. m : x[k] = w[k]
        <3>1. w \in Seq(T) /\ <<>> \in T
            OBVIOUS
        <3> HIDE DEF T, x
        <3> QED
            BY <2>1, <3>1, AppendProperties DEF m
    <2>3. i >= st
        <3>1. CASE m = 1
            BY <1>1, <1>4, <3>1
        <3>2. CASE m > 1
            <4> SUFFICES ASSUME i < st PROVE FALSE
                BY <1>1, <1>4
            <4>1. b = i /\ i - 1 \in 1 .. Len(v) /\ i - 1 # Len(v)
                BY <1>1, <1>4, <3>2
            <4> DEFINE j == i - 1
            <4>2. v[j] = ";"
                <5>1. v[b - 1] = ";"
                    BY <1>2, <3>2
                <5>2. b = i
                    BY <4>1
                <5> QED
                    BY <5>1, <5>2
            <4>3. j \in 1 .. Len(v) /\ j # Len(v) /\ j + 1 = i
                BY <1>1, <4>1, SMTT(40)
            <4> HIDE DEF j
            <4>a. v[j] = ";" /\ j \in DOMAIN v
                <5>1. DOMAIN v = 1 .. Len(v)
                    OBVIOUS
                <5> QED
                    BY <4>2, <4>3, <5>1
            <4>4. v[j + 1] = SP
                BY <4>3, <4>a DEF Spaced
            <4> QED
                BY <1>6, <4>3, <4>4 DEF SP
        <3> QED
            BY <1>1, <3>1, <3>2
    <2> DEFINE pair == SubSeq(v, st, i - 1)
               g == TakePair(acc.f, pair)
    <2>4. next = [start |-> i + 2, f |-> g]
        BY <1>6, <2>3 DEF CutPair, st
    <2>5. pair \in T
        <3>1. st \in 1 .. i
            BY <1>1, <1>4, <2>3
        <3> QED
            BY <3>1, SliceGrows
    <2>6. PairOf(w, m) = pair
        <3>1. CASE m = 1
            BY <1>2, <1>4, <3>1 DEF PairOf
        <3>2. CASE m > 1
            <4>1. PairOf(w, m) = Tail(w[m])
                BY <3>2 DEF PairOf
            <4>2. i - 1 \in 1 .. Len(v) /\ b \in 1 .. i - 1
                BY <1>1, <1>4, <2>3, <3>2
            <4>3. Tail(SubSeq(v, b, i - 1)) = SubSeq(v, b + 1, i - 1)
                BY <4>2, CutTail
            <4> QED
                BY <1>2, <1>4, <3>2, <4>1, <4>3
        <3> QED
            BY <1>1, <3>1, <3>2
    <2> HIDE DEF pair
    <2>7. /\ g \in FieldsOver(S) /\ SameButCookies(g, acc.f)
          /\ g.session = IF NamesSession(pair) THEN SubSeq(pair, 3, Len(pair)) ELSE was
        BY <1>2, <2>5, TakePairGives DEF was
    <2> DEFINE new == g.session
    <2>8. SameButCookies(g, f)
        BY <1>2, <2>7 DEF SameButCookies
    <2> HIDE DEF g, x, next
    <2>9. LastSession(x, m, old, new)
        <3> DEFINE k == m - 1
        <3>1. k \in Nat /\ k + 1 = m
            BY <1>1
        <3>2. new = IF NamesSession(PairOf(w, k + 1))
                    THEN SubSeq(PairOf(w, k + 1), 3, Len(PairOf(w, k + 1))) ELSE was
            BY <2>6, <2>7, <3>1
        <3>3. LastSession(w, k, old, was)
            BY <1>2
        <3> HIDE DEF k, new
        <3>4. LastSession(w, k + 1, old, new)
            BY <3>1, <3>2, <3>3, LastSessionNext
        <3>5. m \in Nat /\ LastSession(w, m, old, new)
            BY <3>1, <3>4
        <3> QED
            BY <2>2, <3>5, LastSessionSame
    <2>10. next.start = i + 2 /\ next.f = g /\ next.f.session = new
        BY <2>4
    <2> HIDE DEF new
    <2>11. LastBegins(x, next.start) = i + 1
        BY <1>1, <2>2, <2>10 DEF LastBegins
    <2>12. SubSeq(v, i + 1, i) = <<>>
        BY SliceGrows
    <2>13. /\ i + 2 \in Nat /\ m + 1 # 1 /\ m + 1 > 1 /\ i + 1 > 1 /\ (i + 1) - 1 = i
           /\ i + 1 \in 1 .. i + 1 /\ (m + 1) - 1 = m
        BY <1>1
    <2>p. \A k \in 1 .. m : PairOf(x, k) \in Seq(S)
        <3>1. \A k \in 1 .. m : PairOf(x, k) = PairOf(w, k)
            BY <2>2 DEF PairOf
        <3>2. \A k \in 1 .. m : k \in 1 .. m - 1 \/ k = m
            BY <1>1
        <3> QED
            BY <1>2, <2>5, <2>6, <3>1, <3>2
    <2>14. CutAt(S, v, i, x, f, next)
        BY <2>p, <1>6, <2>2, <2>7, <2>8, <2>9, <2>10, <2>11, <2>12, <2>13 DEF CutAt, old
    <2> QED
        BY <2>14 DEF x, next
<1> QED
    BY <1>5, <1>6

LEMMA CutPairsExist ==
    ASSUME NEW S, NEW f \in FieldsOver(S), NEW v \in Seq(S), Spaced(v)
    PROVE  \E end, w :
            /\ w = Split(v, ";") /\ w \in Seq(Seq(S)) /\ w # <<>>
            /\ CutAt(S, v, Len(v), w, f, end)
            /\ ParseCookie(f, v) = IF end.start > Len(v) + 1 THEN [end.f EXCEPT !.thrown = TRUE]
                                   ELSE TakePair(end.f, SubSeq(v, end.start, Len(v)))
<1> DEFINE N == Len(v)
           A == [start : Nat \ {0}, f : FieldsOver(S)]
           first == [start |-> 1, f |-> f]
           g == [z \in A \X (1 .. N) |-> CutPair(z[1], v, z[2], 2)]
           Is(c) == c = [i \in 0 .. N |-> IF i = 0 THEN first ELSE CutPair(c[i - 1], v, i, 2)]
           h == CHOOSE c : Is(c)
<1>1. N \in Nat /\ first \in A
    OBVIOUS
<1>2. StaysIn(A, N, g)
    <2>1. ASSUME NEW z \in A \X (1 .. N) PROVE CutPair(z[1], v, z[2], 2) \in A
        <3> DEFINE a == z[1]
                   i == z[2]
                   pair == SubSeq(v, a.start, i - 1)
        <3>1. a.start \in Nat \ {0} /\ a.f \in FieldsOver(S) /\ i \in 1 .. N /\ a \in A
            OBVIOUS
        <3> HIDE DEF a, i
        <3>2. CASE v[i] = ";" /\ i >= a.start
            <4>1. pair \in Seq(S)
                <5> DEFINE p == a.start
                <5>a. i >= p
                    BY <3>2
                <5>b. i \in 1 .. Len(v) /\ p \in Nat \ {0}
                    BY <3>1
                <5> HIDE DEF p
                <5>c. p \in 1 .. i
                    BY <5>a, <5>b
                <5>1. i \in 1 .. Len(v) /\ a.start \in 1 .. i
                    BY <5>b, <5>c DEF p
                <5> QED
                    BY <5>1, SliceGrows
            <4>2. TakePair(a.f, pair) \in FieldsOver(S)
                BY <3>1, <4>1, TakePairGives
            <4>3. CutPair(a, v, i, 2) = [start |-> i + 2, f |-> TakePair(a.f, pair)]
                BY <3>2 DEF CutPair
            <4> HIDE DEF pair
            <4>4. CutPair(a, v, i, 2) \in A
                BY <3>1, <4>2, <4>3
            <4> QED
                BY <4>4 DEF a, i
        <3>3. CASE ~(v[i] = ";" /\ i >= a.start)
            BY <3>1, <3>3 DEF CutPair, a, i
        <3> QED
            BY <3>2, <3>3
    <2> QED
        BY <2>1 DEF StaysIn
<1>3. \A a \in A, i \in 1 .. N : g[<<a, i>>] = CutPair(a, v, i, 2)
    OBVIOUS
<1> HIDE DEF g, A
<1>4. PICK c : Takes(A, first, N, g, c)
    BY <1>1, <1>2, Recursion
<1>5. c \in [0 .. N -> A] /\ c[0] = first /\ \A i \in 1 .. N : c[i] = CutPair(c[i - 1], v, i, 2)
    <2>1. \A i \in 1 .. N : c[i - 1] \in A
        BY <1>1, <1>4 DEF Takes
    <2> QED
        BY <1>3, <1>4, <2>1 DEF Takes
<1>6. Is(c)
    <2>1. c = [i \in 0 .. N |-> c[i]]
        BY <1>5
    <2>2. \A i \in 0 .. N : c[i] = IF i = 0 THEN first ELSE CutPair(c[i - 1], v, i, 2)
        BY <1>1, <1>5
    <2> QED
        BY <2>1, <2>2
<1>7. Is(h)
    BY <1>6
<1>8. ParseCookie(f, v) = IF h[N].start > Len(v) + 1 THEN [h[N].f EXCEPT !.thrown = TRUE]
                          ELSE TakePair(h[N].f, SubSeq(v, h[N].start, Len(v)))
    BY DEF ParseCookie
<1> HIDE DEF h
<1>9. h[0] = first /\ \A i \in 1 .. N : h[i] = CutPair(h[i - 1], v, i, 2)
    BY <1>1, <1>7
<1>10. PICK w : /\ SplitSteps(v, ";", w) /\ Split(v, ";") = w[N]
                /\ \A n \in 0 .. N : w[n] \in Seq(Seq(S)) /\ w[n] # <<>>
    BY SplitExists
<1> DEFINE P == {i \in 0 .. N : CutAt(S, v, i, w[i], f, h[i])}
<1>11. 0 \in P
    <2>1. w[0] = << <<>> >>
        BY <1>10 DEF SplitSteps
    <2>2. Len(w[0]) = 1 /\ w[0][1] = <<>> /\ first.start = 1 /\ first.f = f
        BY <2>1
    <2>3. SubSeq(v, 1, 0) = <<>> /\ 1 \in 1 .. 0 + 1 /\ ~(0 > 0) /\ ~(1 > 1) /\ 1 - 1 = 0
        OBVIOUS
    <2>4. LastSession(w[0], 0, f.session, f.session)
        BY DEF LastSession
    <2>5. SameButCookies(f, f)
        BY DEF SameButCookies
    <2> HIDE DEF first
    <2>6. CutAt(S, v, 0, w[0], f, first)
        BY <2>2, <2>3, <2>4, <2>5 DEF CutAt, LastBegins
    <2> QED
        BY <1>1, <1>9, <2>6
<1>12. ASSUME NEW i \in 1 .. N, i - 1 \in P PROVE i \in P
    <2> DEFINE u == w[i - 1]
               a == h[i - 1]
    <2>1. CutAt(S, v, i - 1, u, f, a)
        BY <1>12
    <2>2. u \in Seq(Seq(S)) /\ u # <<>>
        <3>1. i - 1 \in 0 .. N
            BY <1>1
        <3> QED
            BY <1>10, <3>1
    <2>3. w[i] = SplitStep(u, v[i], ";") /\ h[i] = CutPair(a, v, i, 2)
        BY <1>9, <1>10 DEF SplitSteps
    <2> HIDE DEF u, a
    <2>4. CutAt(S, v, i, SplitStep(u, v[i], ";"), f, CutPair(a, v, i, 2))
        BY <2>1, <2>2, CutPairAt
    <2>5. CutAt(S, v, i, w[i], f, h[i])
        BY <2>3, <2>4
    <2>6. i \in 0 .. N
        BY <1>1
    <2> QED
        BY <2>5, <2>6
<1>13. CutAt(S, v, N, w[N], f, h[N])
    <2> HIDE DEF P
    <2>1. 0 .. N \subseteq P
        BY <1>1, <1>11, <1>12, UpTo
    <2>2. N \in P
        BY <1>1, <2>1
    <2> QED
        BY <2>2 DEF P
<1>14. w[N] \in Seq(Seq(S)) /\ w[N] # <<>>
    <2>1. N \in 0 .. N
        BY <1>1
    <2> QED
        BY <1>10, <2>1
<1> QED
    BY <1>8, <1>10, <1>13, <1>14

LEMMA SeqLength ==
    ASSUME NEW S, NEW w \in Seq(S)
    PROVE  Len(w) \in Nat /\ DOMAIN w = 1 .. Len(w) /\ (w # <<>> => Len(w) # 0)
OBVIOUS

LEMMA FunctionIsSeq ==
    ASSUME NEW S, NEW m \in Nat, NEW q \in [1 .. m -> S]
    PROVE  q \in Seq(S) /\ Len(q) = m
OBVIOUS

LEMMA Squeezed ==
    \A m \in Nat : \A a, b \in 1 .. m : a <= b /\ ~(a < b) => b = a /\ a # 0
OBVIOUS

LEMMA LastSessionIs ==
    ASSUME NEW S, NEW v, NEW w \in Seq(Seq(S)), w = Split(v, ";"),
           \A k \in 1 .. Len(w) : PairOf(w, k) \in Seq(S),
           NEW new, LastSession(w, Len(w), <<>>, new)
    PROVE  new = SessionIn(v)
<1> DEFINE ps == Pairs(v)
           m == Len(w)
           I == {i \in 1 .. Len(ps) : IsPrefix(<<"SESSION", "=">>, ps[i])}
           last == Max(I)
           k == SelectLastInSeq(ps, LAMBDA p : IsPrefix(<<"SESSION", "=">>, p))
<1>1. m \in Nat /\ DOMAIN w = 1 .. m
    BY SeqLength
<1>2. ps = [i \in 1 .. m |-> PairOf(w, i)]
    BY <1>1 DEF Pairs, PairOf
<1> HIDE DEF m
<1>3. ps \in Seq(Seq(S)) /\ Len(ps) = m /\ \A i \in 1 .. m : ps[i] = PairOf(w, i)
    <2>1. ps \in [1 .. m -> Seq(S)]
        BY <1>2 DEF m
    <2> HIDE DEF ps
    <2>2. ps \in Seq(Seq(S)) /\ Len(ps) = m
        BY <1>1, <2>1, FunctionIsSeq
    <2> QED
        BY <1>2, <2>2
<1>4. k = IF I # {} THEN last ELSE 0
    BY DEF SelectLastInSeq
<1>5. SessionIn(v) = IF k = 0 THEN <<>> ELSE SubSeq(ps[k], 3, Len(ps[k]))
    BY DEF SessionIn
<1> HIDE DEF ps, k
<1>6. I \in SUBSET (1 .. m)
      /\ \A i \in 1 .. m : i \in I <=> NamesSession(PairOf(w, i))
    <2>1. \A i \in 1 .. m : IsPrefix(<<"SESSION", "=">>, PairOf(w, i))
                                <=> NamesSession(PairOf(w, i))
        BY PrefixNames DEF m
    <2> QED
        BY <1>3, <2>1
<1> HIDE DEF I
<1>7. I # {} => last \in I /\ \A i \in I : i <= last
    BY <1>1, <1>6, MaxUpTo
<1> HIDE DEF last
<1>8. LastSession(w, m, <<>>, new)
    BY DEF m
<1>9. CASE new = <<>> /\ \A i \in 1 .. m : ~NamesSession(PairOf(w, i))
    <2>1. I = {}
        BY <1>6, <1>9
    <2> QED
        BY <1>4, <1>5, <1>9, <2>1
<1>10. CASE \E i \in 1 .. m :
                /\ NamesSession(PairOf(w, i))
                /\ new = SubSeq(PairOf(w, i), 3, Len(PairOf(w, i)))
                /\ \A j \in 1 .. m : i < j => ~NamesSession(PairOf(w, j))
    <2>1. PICK i \in 1 .. m :
                /\ NamesSession(PairOf(w, i))
                /\ new = SubSeq(PairOf(w, i), 3, Len(PairOf(w, i)))
                /\ \A j \in 1 .. m : i < j => ~NamesSession(PairOf(w, j))
        BY <1>10
    <2>2. i \in I
        BY <1>6, <2>1
    <2>3. last \in I /\ i <= last /\ last \in 1 .. m
        BY <1>6, <1>7, <2>2
    <2>4. ~(i < last)
        BY <1>6, <2>1, <2>3
    <2>5. last = i /\ i # 0
        <3>1. m \in Nat /\ last \in 1 .. m /\ i \in 1 .. m
            BY <1>1, <2>3
        <3>2. i <= last /\ ~(i < last)
            BY <2>3, <2>4
        <3> QED
            BY <3>1, <3>2, Squeezed
    <2>6. k = i
        BY <1>4, <2>2, <2>5
    <2>7. ps[k] = PairOf(w, i)
        BY <1>3, <2>6
    <2> QED
        BY <1>5, <2>1, <2>5, <2>6, <2>7
<1> QED
    BY <1>8, <1>9, <1>10 DEF LastSession

\* parse_cookie throws on a separator at the end, and otherwise takes the session that
\* the value names last.
LEMMA ParseCookieReads ==
    ASSUME NEW S, NEW f \in FieldsOver(S), f.session = <<>>, NEW v \in Seq(S), Spaced(v)
    PROVE  LET g == ParseCookie(f, v) IN
           /\ g \in FieldsOver(S)
           /\ g.length = f.length /\ g.type = f.type /\ g.seen = f.seen
           /\ EndsInSeparator(v) => g.thrown
           /\ ~EndsInSeparator(v) => g.thrown = f.thrown /\ g.session = SessionIn(v)
<1>1. PICK end, w :
            /\ w = Split(v, ";") /\ w \in Seq(Seq(S)) /\ w # <<>>
            /\ CutAt(S, v, Len(v), w, f, end)
            /\ ParseCookie(f, v) = IF end.start > Len(v) + 1 THEN [end.f EXCEPT !.thrown = TRUE]
                                   ELSE TakePair(end.f, SubSeq(v, end.start, Len(v)))
    BY CutPairsExist
<1> DEFINE n == Len(v)
           m == Len(w)
           st == end.start
           b == LastBegins(w, st)
           was == end.f.session
           g == ParseCookie(f, v)
<1>2. m \in Nat \ {0} /\ n \in Nat
    <2>1. w \in Seq(Seq(S)) /\ w # <<>>
        BY <1>1
    <2> QED
        BY <2>1, SeqLength
<1>3. /\ st \in Nat
      /\ m = 1 => st = 1
      /\ m > 1 => b > 1 /\ v[b - 1] = ";"
      /\ b \in 1 .. n + 1
      /\ w[m] = SubSeq(v, b, n)
      /\ n > 0 /\ v[n] = ";" => m > 1 /\ b = n + 1
      /\ end.f \in FieldsOver(S) /\ SameButCookies(end.f, f)
      /\ LastSession(w, m - 1, <<>>, was)
      /\ \A k \in 1 .. m - 1 : PairOf(w, k) \in Seq(S)
    BY <1>1 DEF CutAt
<1>4. b = IF m = 1 THEN 1 ELSE st - 1
    BY DEF LastBegins
<1>5. g = IF st > n + 1 THEN [end.f EXCEPT !.thrown = TRUE]
          ELSE TakePair(end.f, SubSeq(v, st, n))
    BY <1>1
<1>6. EndsInSeparator(v) <=> n > 0 /\ v[n] = ";"
    <2>1. v # <<>> <=> n > 0
        OBVIOUS
    <2> HIDE DEF n
    <2> QED
        BY <2>1 DEF EndsInSeparator, n
<1> HIDE DEF n, m, st, b, was, g
<1>7. st > n + 1 <=> EndsInSeparator(v)
    <2>1. st \in Nat /\ b \in Nat /\ b >= 1 /\ b <= n + 1 /\ (m = 1 => st = 1)
        <3>1. st \in Nat /\ b \in 1 .. n + 1 /\ (m = 1 => st = 1)
            BY <1>3
        <3> QED
            BY <1>2, <3>1
    <2>2. ASSUME EndsInSeparator(v) PROVE st > n + 1
        <3>1. m > 1 /\ b = n + 1
            BY <1>3, <1>6, <2>2
        <3> QED
            BY <1>2, <1>4, <2>1, <3>1
    <2>3. ASSUME st > n + 1 PROVE EndsInSeparator(v)
        <3>1. m > 1 /\ b = n + 1
            BY <1>2, <1>4, <2>1, <2>3
        <3>2. b > 1 /\ v[b - 1] = ";"
            BY <1>3, <3>1
        <3>3. n > 0
            <4>1. b > 1
                BY <3>2
            <4> QED
                BY <1>2, <3>1, <4>1
        <3>4. (n + 1) - 1 = n
            BY <1>2
        <3>5. v[n] = ";"
            BY <3>1, <3>2, <3>4
        <3> QED
            BY <1>6, <3>3, <3>5
    <2> QED
        BY <2>2, <2>3
<1>8. CASE EndsInSeparator(v)
    <2>1. g = [end.f EXCEPT !.thrown = TRUE]
        BY <1>5, <1>7, <1>8
    <2> QED
        BY <1>3, <1>8, <2>1 DEF FieldsOver, SameButCookies, g
<1>9. CASE ~EndsInSeparator(v)
    <2> DEFINE pair == SubSeq(v, st, n)
    <2>1. g = TakePair(end.f, pair)
        BY <1>5, <1>7, <1>9
    <2>2. pair \in Seq(S) /\ PairOf(w, m) = pair
        <3>1. CASE m = 1
            <4>1. st = b /\ PairOf(w, m) = w[m]
                BY <1>3, <1>4, <3>1 DEF PairOf
            <4>2. SubSeq(v, 1, n) \in Seq(S)
                BY DEF n
            <4> QED
                BY <1>3, <1>4, <3>1, <4>1, <4>2
        <3>2. CASE m > 1
            <4>1. PairOf(w, m) = Tail(w[m])
                BY <3>2 DEF PairOf
            <4>2. b + 1 = st /\ st \in Nat /\ st > 1 /\ ~(st > n + 1) /\ b > 1
                <5>1. b > 1
                    BY <1>3, <3>2
                <5>2. st \in Nat /\ b = st - 1
                    <6>1. st \in Nat
                        BY <1>3
                    <6>2. m # 1
                        BY <1>2, <3>2
                    <6> QED
                        BY <1>4, <6>1, <6>2
                <5> QED
                    BY <1>7, <1>9, <5>1, <5>2
            <4>3. n \in 1 .. n /\ b \in 1 .. n
                <5>1. b \in 1 .. n + 1
                    BY <1>3
                <5> QED
                    BY <1>2, <4>2, <5>1
            <4>4. n \in 1 .. Len(v)
                BY <4>3 DEF n
            <4>5. Tail(SubSeq(v, b, n)) = SubSeq(v, b + 1, n)
                BY <4>3, <4>4, CutTail
            <4>6. pair \in Seq(S)
                BY <4>2, <4>4
            <4> QED
                BY <1>3, <4>1, <4>2, <4>5, <4>6
        <3> QED
            BY <1>2, <3>1, <3>2
    <2> HIDE DEF pair
    <2>3. /\ g \in FieldsOver(S) /\ SameButCookies(g, end.f)
          /\ g.session = IF NamesSession(pair) THEN SubSeq(pair, 3, Len(pair)) ELSE was
        BY <1>3, <2>1, <2>2, TakePairGives DEF was
    <2> DEFINE new == g.session
    <2>4. LastSession(w, m, <<>>, new)
        <3> DEFINE k == m - 1
        <3>1. k \in Nat /\ k + 1 = m
            BY <1>2
        <3>2. new = IF NamesSession(PairOf(w, k + 1))
                    THEN SubSeq(PairOf(w, k + 1), 3, Len(PairOf(w, k + 1))) ELSE was
            BY <2>2, <2>3, <3>1
        <3>3. LastSession(w, k, <<>>, was)
            BY <1>3
        <3> HIDE DEF k, new
        <3>4. LastSession(w, k + 1, <<>>, new)
            BY <3>1, <3>2, <3>3, LastSessionNext
        <3> QED
            BY <3>1, <3>4
    <2>5. \A k \in 1 .. m : PairOf(w, k) \in Seq(S)
        <3>1. \A k \in 1 .. m : k \in 1 .. m - 1 \/ k = m
            BY <1>2
        <3> QED
            BY <1>3, <2>2, <3>1
    <2>6. new = SessionIn(v)
        <3> HIDE DEF new
        <3> QED
            BY <1>1, <2>4, <2>5, LastSessionIs DEF m
    <2> QED
        BY <1>3, <1>9, <2>3, <2>6 DEF SameButCookies, g
<1> QED
    BY <1>8, <1>9

\* A header that throws
Throws(h) ==
    \/ h.name = ContentLength /\ ~IsNumber(h.value)
    \/ h.name = Cookie /\ EndsInSeparator(h.value)

Has(hs, n, name) == \E i \in 1 .. n : hs[i].name = name

Once(hs) == \A i, j \in DOMAIN hs : hs[i].name = hs[j].name => i = j

SpacedCookies(hs) == \A i \in DOMAIN hs : hs[i].name = Cookie => Spaced(hs[i].value)

One(p) == IF p THEN 1 ELSE 0

HeadersOver(S) == [name : Seq(S), value : Seq(S)]

\* What the loop has of the first n headers
TakenTo(S, hs, n, f) ==
    /\ f \in FieldsOver(S)
    /\ f.thrown <=> \E i \in 1 .. n : Throws(hs[i])
    /\ ~f.thrown =>
        /\ f.seen = One(Has(hs, n, ContentLength)) + One(Has(hs, n, ContentType))
                        + One(Has(hs, n, Cookie))
        /\ ~Has(hs, n, ContentLength) => f.length = -1
        /\ ~Has(hs, n, ContentType) => f.type = <<>>
        /\ ~Has(hs, n, Cookie) => f.cookies = {} /\ f.session = <<>>
        /\ \A i \in 1 .. n : hs[i].name = Cookie => f.session = SessionIn(hs[i].value)

LEMMA NamesDiffer ==
    ContentLength # ContentType /\ ContentLength # Cookie /\ ContentType # Cookie
<1>1. ContentLength[1] = "content-length" /\ ContentType[1] = "content-type"
      /\ Cookie[1] = "cookie"
    BY DEF ContentLength, ContentType, Cookie
<1> QED
    BY <1>1

\* What the assignments of a turn change of f, and what not
Changes(S, f, v) ==
    /\ LET g == [f EXCEPT !.seen = @ + 1, !.length = NumberOf(v)] IN
       /\ g \in FieldsOver(S) /\ g.thrown = f.thrown /\ g.seen = f.seen + 1
       /\ g.type = f.type /\ g.cookies = f.cookies /\ g.session = f.session
    /\ LET g == [f EXCEPT !.seen = @ + 1, !.type = v] IN
       /\ g \in FieldsOver(S) /\ g.thrown = f.thrown /\ g.seen = f.seen + 1
       /\ g.length = f.length /\ g.cookies = f.cookies /\ g.session = f.session
    /\ LET g == [f EXCEPT !.seen = @ + 1] IN
       /\ g \in FieldsOver(S) /\ g.thrown = f.thrown /\ g.seen = f.seen + 1
       /\ g.length = f.length /\ g.type = f.type /\ g.session = f.session
    /\ LET g == [f EXCEPT !.thrown = TRUE] IN
       /\ g \in FieldsOver(S) /\ g.thrown

LEMMA FieldsChanged ==
    ASSUME NEW S, NEW f \in FieldsOver(S), NEW v \in Seq(S)
    PROVE  Changes(S, f, v)
<1> DEFINE a == [f EXCEPT !.seen = @ + 1, !.length = NumberOf(v)]
           b == [f EXCEPT !.seen = @ + 1, !.type = v]
           c == [f EXCEPT !.seen = @ + 1]
           d == [f EXCEPT !.thrown = TRUE]
           k == f.seen + 1
<1>1. f.seen \in Nat
    BY DEF FieldsOver
<1>2. k \in Nat
    BY <1>1
<1> HIDE DEF k
<1>3. c \in FieldsOver(S) /\ c.thrown = f.thrown /\ c.seen = k
      /\ c.length = f.length /\ c.type = f.type /\ c.session = f.session
      /\ c.cookies = f.cookies
    <2>1. c = [f EXCEPT !.seen = k]
        BY DEF k
    <2> HIDE DEF c
    <2> QED
        BY <1>2, <2>1 DEF FieldsOver
<1>4. a = [c EXCEPT !.length = NumberOf(v)] /\ b = [c EXCEPT !.type = v]
    OBVIOUS
<1> HIDE DEF a, b, c
<1>5. a \in FieldsOver(S) /\ a.thrown = f.thrown /\ a.seen = k
      /\ a.type = f.type /\ a.cookies = f.cookies /\ a.session = f.session
    BY <1>3, <1>4 DEF FieldsOver
<1>6. b \in FieldsOver(S) /\ b.thrown = f.thrown /\ b.seen = k
      /\ b.length = f.length /\ b.cookies = f.cookies /\ b.session = f.session
    BY <1>3, <1>4 DEF FieldsOver
<1>7. d \in FieldsOver(S) /\ d.thrown
    BY DEF FieldsOver
<1> HIDE DEF d
<1> QED
    BY <1>3, <1>5, <1>6, <1>7 DEF Changes, a, b, c, d, k

LEMMA TakeHeaderCases ==
    ASSUME NEW S, NEW f \in FieldsOver(S), NEW h
    PROVE  /\ f.thrown => TakeHeader(f, h) = f
           /\ ~f.thrown /\ f.seen <= 2 /\ h.name = ContentLength /\ f.length = -1 =>
                TakeHeader(f, h) = IF IsNumber(h.value)
                                   THEN [f EXCEPT !.seen = @ + 1, !.length = NumberOf(h.value)]
                                   ELSE [f EXCEPT !.thrown = TRUE]
           /\ ~f.thrown /\ f.seen <= 2 /\ h.name = ContentType /\ f.type = <<>> =>
                TakeHeader(f, h) = [f EXCEPT !.seen = @ + 1, !.type = h.value]
           /\ ~f.thrown /\ f.seen <= 2 /\ h.name = Cookie /\ f.cookies = {} =>
                TakeHeader(f, h) = ParseCookie([f EXCEPT !.seen = @ + 1], h.value)
           /\ h.name \notin {ContentLength, ContentType, Cookie} => TakeHeader(f, h) = f
<1>1. f.seen \in Nat /\ f.thrown \in BOOLEAN
    BY DEF FieldsOver
<1>2. f.seen <= 2 <=> ~(f.seen > 2)
    BY <1>1
<1>3. [[f EXCEPT !.seen = @ + 1] EXCEPT !.length = NumberOf(h.value)] = [f EXCEPT !.seen = @ + 1, !.length = NumberOf(h.value)]
      /\ [[f EXCEPT !.seen = @ + 1] EXCEPT !.type = h.value] = [f EXCEPT !.seen = @ + 1, !.type = h.value]
    OBVIOUS
<1>4. f.thrown => TakeHeader(f, h) = f
    BY <1>1 DEF TakeHeader
<1>5. ~f.thrown /\ f.seen <= 2 /\ h.name = ContentLength /\ f.length = -1 =>
        TakeHeader(f, h) = IF IsNumber(h.value)
                           THEN [f EXCEPT !.seen = @ + 1, !.length = NumberOf(h.value)]
                           ELSE [f EXCEPT !.thrown = TRUE]
    BY <1>1, <1>2, <1>3, NamesDiffer DEF TakeHeader
<1>6. ~f.thrown /\ f.seen <= 2 /\ h.name = ContentType /\ f.type = <<>> =>
        TakeHeader(f, h) = [f EXCEPT !.seen = @ + 1, !.type = h.value]
    BY <1>1, <1>2, <1>3, NamesDiffer DEF TakeHeader
<1>7. ~f.thrown /\ f.seen <= 2 /\ h.name = Cookie /\ f.cookies = {} =>
        TakeHeader(f, h) = ParseCookie([f EXCEPT !.seen = @ + 1], h.value)
    BY <1>1, <1>2, NamesDiffer DEF TakeHeader
<1>8. h.name \notin {ContentLength, ContentType, Cookie} => TakeHeader(f, h) = f
    BY <1>1, <1>2 DEF TakeHeader
<1> QED
    BY <1>4, <1>5, <1>6, <1>7, <1>8

\* The state of the loop said of the headers it has seen: whether each of the three
\* was among them.
LEMMA HasNext ==
    ASSUME NEW hs, NEW n \in Nat \ {0}, NEW name
    PROVE  Has(hs, n, name) <=> Has(hs, n - 1, name) \/ hs[n].name = name
<1>1. n - 1 \in Nat /\ \A i : i \in 1 .. n <=> i \in 1 .. n - 1 \/ i = n
    OBVIOUS
<1> QED
    BY <1>1 DEF Has

LEMMA HasNot ==
    ASSUME NEW hs, Once(hs), NEW n \in Nat \ {0}, DOMAIN hs = 1 .. Len(hs), Len(hs) \in Nat,
           n <= Len(hs)
    PROVE  ~Has(hs, n - 1, hs[n].name)
<1> SUFFICES ASSUME NEW i \in 1 .. n - 1, hs[i].name = hs[n].name PROVE FALSE
    BY DEF Has
<1>1. i \in 1 .. Len(hs) /\ n \in 1 .. Len(hs) /\ i # n
    OBVIOUS
<1>2. i \in DOMAIN hs /\ n \in DOMAIN hs
    BY <1>1
<1> QED
    BY <1>1, <1>2 DEF Once

LEMMA TakenNext ==
    ASSUME NEW S, NEW hs, Once(hs), SpacedCookies(hs), NEW n \in Nat \ {0},
           DOMAIN hs = 1 .. Len(hs), Len(hs) \in Nat, n <= Len(hs),
           hs[n] \in HeadersOver(S), NEW f, TakenTo(S, hs, n - 1, f)
    PROVE  TakenTo(S, hs, n, TakeHeader(f, hs[n]))
<1> DEFINE h == hs[n]
           L == Has(hs, n - 1, ContentLength)
           T == Has(hs, n - 1, ContentType)
           C == Has(hs, n - 1, Cookie)
           g == TakeHeader(f, h)
           B == \E i \in 1 .. n - 1 : Throws(hs[i])
<1>1. /\ f \in FieldsOver(S)
      /\ f.thrown <=> B
      /\ ~f.thrown =>
            /\ f.seen = One(L) + One(T) + One(C)
            /\ ~L => f.length = -1
            /\ ~T => f.type = <<>>
            /\ ~C => f.cookies = {} /\ f.session = <<>>
            /\ \A i \in 1 .. n - 1 : hs[i].name = Cookie => f.session = SessionIn(hs[i].value)
    BY DEF TakenTo
<1>2. /\ Has(hs, n, ContentLength) <=> L \/ h.name = ContentLength
      /\ Has(hs, n, ContentType) <=> T \/ h.name = ContentType
      /\ Has(hs, n, Cookie) <=> C \/ h.name = Cookie
    BY HasNext
<1>3. /\ h.name = ContentLength => ~L
      /\ h.name = ContentType => ~T
      /\ h.name = Cookie => ~C
    BY HasNot
<1>4. (\E i \in 1 .. n : Throws(hs[i])) <=> B \/ Throws(h)
    <2>1. \A i : i \in 1 .. n <=> i \in 1 .. n - 1 \/ i = n
        OBVIOUS
    <2> QED
        BY <2>1
<1>5. h.name = Cookie => Spaced(h.value)
    <2>1. n \in 1 .. Len(hs)
        OBVIOUS
    <2>2. n \in DOMAIN hs
        BY <2>1
    <2> QED
        BY <2>2 DEF SpacedCookies
<1>6. h.name \in Seq(S) /\ h.value \in Seq(S)
    BY DEF HeadersOver
\* What has to be shown of g
<1>7. ASSUME g \in FieldsOver(S), g.thrown <=> B \/ Throws(h),
             ~g.thrown =>
                /\ g.seen = One(L \/ h.name = ContentLength) + One(T \/ h.name = ContentType)
                                + One(C \/ h.name = Cookie)
                /\ ~L /\ h.name # ContentLength => g.length = -1
                /\ ~T /\ h.name # ContentType => g.type = <<>>
                /\ ~C /\ h.name # Cookie => g.cookies = {} /\ g.session = <<>>
                /\ \A i \in 1 .. n - 1 : hs[i].name = Cookie => g.session = SessionIn(hs[i].value)
                /\ h.name = Cookie => g.session = SessionIn(h.value)
      PROVE  TakenTo(S, hs, n, g)
    <2>1. \A i \in 1 .. n : i \in 1 .. n - 1 \/ i = n
        OBVIOUS
    <2>2. ~g.thrown => \A i \in 1 .. n : hs[i].name = Cookie => g.session = SessionIn(hs[i].value)
        BY <1>7, <2>1
    <2>3. /\ One(Has(hs, n, ContentLength)) = One(L \/ h.name = ContentLength)
          /\ One(Has(hs, n, ContentType)) = One(T \/ h.name = ContentType)
          /\ One(Has(hs, n, Cookie)) = One(C \/ h.name = Cookie)
        <3> HIDE DEF L, T, C, h
        <3> QED
            BY <1>2 DEF One
    <2> HIDE DEF g, L, T, C, B, h
    <2> QED
        BY <1>2, <1>4, <1>7, <2>2, <2>3 DEF TakenTo
<1>8. C => \E i \in 1 .. n - 1 : hs[i].name = Cookie
    BY DEF Has
<1>9. \A i \in 1 .. n - 1 : hs[i].name = Cookie => C
    BY DEF Has
<1> HIDE DEF h, L, T, C, B, g
<1>10. f.seen \in Nat /\ f.thrown \in BOOLEAN
    BY <1>1 DEF FieldsOver
<1>16. Changes(S, f, h.value)
    <2> DEFINE val == h.value
    <2>1. f \in FieldsOver(S) /\ val \in Seq(S)
        BY <1>1, <1>6
    <2> HIDE DEF val
    <2>2. Changes(S, f, val)
        BY <2>1, FieldsChanged
    <2> QED
        BY <2>2 DEF val
<1>11. CASE f.thrown
    <2>1. g = f
        BY <1>1, <1>11, TakeHeaderCases DEF g
    <2> QED
        BY <1>1, <1>7, <1>11, <2>1, SMTT(40) DEF g, h
<1>12. CASE ~f.thrown /\ h.name = ContentLength
    <2>1. ~L /\ f.length = -1 /\ h.name # ContentType /\ h.name # Cookie
        BY <1>1, <1>3, <1>12, NamesDiffer
    <2>2. f.seen <= 2 /\ f.seen = One(T) + One(C)
        BY <1>1, <1>12, <2>1, SMTT(40) DEF One
    <2>3. g = IF IsNumber(h.value) THEN [f EXCEPT !.seen = @ + 1, !.length = NumberOf(h.value)]
              ELSE [f EXCEPT !.thrown = TRUE]
        BY <1>1, <1>12, <2>1, <2>2, TakeHeaderCases DEF g
    <2>4. Throws(h) <=> ~IsNumber(h.value)
        BY <1>12, <2>1 DEF Throws
    <2>5. g \in FieldsOver(S) /\ (g.thrown <=> ~IsNumber(h.value))
          /\ (~g.thrown => /\ g.seen = f.seen + 1 /\ g.type = f.type
                           /\ g.cookies = f.cookies /\ g.session = f.session)
        BY <1>12, <1>16, <2>3 DEF Changes
    <2>6. ~g.thrown => g.seen = One(L \/ h.name = ContentLength)
                        + One(T \/ h.name = ContentType) + One(C \/ h.name = Cookie)
        BY <1>12, <2>1, <2>2, <2>5 DEF One
    <2> QED
        BY <1>1, <1>7, <1>12, <2>1, <2>4, <2>5, <2>6 DEF g, h
<1>13. CASE ~f.thrown /\ h.name = ContentType
    <2>1. ~T /\ f.type = <<>> /\ h.name # ContentLength /\ h.name # Cookie
        BY <1>1, <1>3, <1>13, NamesDiffer
    <2>2. f.seen <= 2 /\ f.seen = One(L) + One(C)
        BY <1>1, <1>13, <2>1, SMTT(40) DEF One
    <2>3. g = [f EXCEPT !.seen = @ + 1, !.type = h.value]
        BY <1>1, <1>13, <2>1, <2>2, TakeHeaderCases DEF g
    <2>4. ~Throws(h)
        BY <2>1 DEF Throws
    <2>5. g \in FieldsOver(S) /\ ~g.thrown /\ g.seen = f.seen + 1 /\ g.length = f.length
          /\ g.cookies = f.cookies /\ g.session = f.session
        BY <1>13, <1>16, <2>3 DEF Changes
    <2>6. g.seen = One(L \/ h.name = ContentLength)
                        + One(T \/ h.name = ContentType) + One(C \/ h.name = Cookie)
        BY <1>13, <2>1, <2>2, <2>5 DEF One
    <2> QED
        BY <1>1, <1>7, <1>13, <2>1, <2>4, <2>5, <2>6 DEF g, h
<1>14. CASE ~f.thrown /\ h.name = Cookie
    <2> DEFINE e == [f EXCEPT !.seen = @ + 1]
    <2>1. ~C /\ f.cookies = {} /\ f.session = <<>> /\ h.name # ContentLength /\ h.name # ContentType
        BY <1>1, <1>3, <1>14, NamesDiffer
    <2>2. f.seen <= 2 /\ f.seen = One(L) + One(T)
        BY <1>1, <1>14, <2>1 DEF One
    <2>3. g = ParseCookie(e, h.value)
        BY <1>1, <1>14, <2>1, <2>2, TakeHeaderCases DEF g
    <2>4. Throws(h) <=> EndsInSeparator(h.value)
        BY <1>14, <2>1 DEF Throws
    <2>5. e \in FieldsOver(S) /\ ~e.thrown /\ e.seen = f.seen + 1 /\ e.length = f.length
          /\ e.type = f.type /\ e.session = <<>>
        BY <1>14, <1>16, <2>1 DEF Changes
    <2> HIDE DEF e
    <2>6. /\ g \in FieldsOver(S)
          /\ g.length = e.length /\ g.type = e.type /\ g.seen = e.seen
          /\ EndsInSeparator(h.value) => g.thrown
          /\ ~EndsInSeparator(h.value) => g.thrown = e.thrown /\ g.session = SessionIn(h.value)
        BY <1>5, <1>6, <1>14, <2>3, <2>5, ParseCookieReads
    <2>7. ~g.thrown => g.seen = One(L \/ h.name = ContentLength)
                        + One(T \/ h.name = ContentType) + One(C \/ h.name = Cookie)
        BY <1>14, <2>1, <2>2, <2>5, <2>6 DEF One
    <2>8. g.thrown <=> B \/ Throws(h)
        BY <1>1, <1>14, <2>4, <2>5, <2>6
    <2>9. ~g.thrown => g.length = f.length /\ g.type = f.type /\ g.session = SessionIn(h.value)
        BY <2>5, <2>6
    <2> QED
        BY <1>1, <1>7, <1>9, <1>14, <2>1, <2>6, <2>7, <2>8, <2>9 DEF g, h
<1>15. CASE ~f.thrown /\ h.name \notin {ContentLength, ContentType, Cookie}
    <2>1. g = f
        BY <1>1, <1>15, TakeHeaderCases DEF g
    <2>2. ~Throws(h)
        BY <1>15 DEF Throws
    <2>3. h.name # ContentLength /\ h.name # ContentType /\ h.name # Cookie
        BY <1>15
    <2>4. f.seen = One(L \/ h.name = ContentLength)
                        + One(T \/ h.name = ContentType) + One(C \/ h.name = Cookie)
        BY <1>1, <1>15, <2>3 DEF One
    <2> QED
        BY <1>1, <1>7, <1>15, <2>1, <2>2, <2>3, <2>4, SMTT(40) DEF g, h
<1> QED
    BY <1>10, <1>11, <1>12, <1>13, <1>14, <1>15 DEF g, h

\* The loop over headers with names of their own throws on a length that is no number
\* and on a cookie that ends in its separator; otherwise it has what they say.
LEMMA TakeHeadersReads ==
    ASSUME NEW S, NEW hs \in Seq(HeadersOver(S)), Once(hs), SpacedCookies(hs)
    PROVE  TakenTo(S, hs, Len(hs), TakeHeaders(NoFields, hs))
<1> DEFINE N == Len(hs)
           A == FieldsOver(S)
           Is(c) == c = [n \in 0 .. N |-> IF n = 0 THEN NoFields
                                          ELSE TakeHeader(c[n - 1], hs[n])]
           t == CHOOSE c : Is(c)
           \* a turn, and nothing where it would leave the fields
           g == [z \in A \X (1 .. N) |-> LET e == TakeHeader(z[1], hs[z[2]]) IN
                                         IF e \in A THEN e ELSE z[1]]
<1>1. N \in Nat /\ DOMAIN hs = 1 .. N
    BY SeqLength
<1>2. \A n \in 1 .. N : hs[n] \in HeadersOver(S)
    <2> DEFINE H == HeadersOver(S)
    <2>1. hs \in Seq(H)
        OBVIOUS
    <2> HIDE DEF H
    <2>2. \A n \in 1 .. Len(hs) : hs[n] \in H
        BY <2>1, ElementOfSeq
    <2> QED
        BY <2>2 DEF H
<1>3. StaysIn(A, N, g)
    BY DEF StaysIn
<1>4. \A a \in A, n \in 1 .. N : TakeHeader(a, hs[n]) \in A => g[<<a, n>>] = TakeHeader(a, hs[n])
    OBVIOUS
<1>5. NoFields \in A
    BY DEF NoFields, FieldsOver
<1> HIDE DEF g
<1>6. PICK f : Takes(A, NoFields, N, g, f)
    <2> HIDE DEF A, N
    <2> QED
        BY <1>1, <1>3, <1>5, Recursion
<1>7. f \in [0 .. N -> A] /\ f[0] = NoFields /\ \A n \in 1 .. N : f[n] = g[<<f[n - 1], n>>]
    BY <1>6 DEF Takes
<1> DEFINE P == {n \in 0 .. N : TakenTo(S, hs, n, f[n])}
<1>8. 0 \in P
    <2>1. ~Has(hs, 0, ContentLength) /\ ~Has(hs, 0, ContentType) /\ ~Has(hs, 0, Cookie)
        BY DEF Has
    <2>2. TakenTo(S, hs, 0, NoFields)
        BY <1>5, <2>1 DEF TakenTo, NoFields, One
    <2> QED
        BY <1>1, <1>7, <2>2
<1>9. ASSUME NEW n \in 1 .. N, n - 1 \in P
      PROVE  n \in P /\ f[n] = TakeHeader(f[n - 1], hs[n])
    <2> DEFINE a == f[n - 1]
               e == TakeHeader(a, hs[n])
    <2>1. TakenTo(S, hs, n - 1, a)
        BY <1>9
    <2>2. n \in Nat \ {0} /\ n <= Len(hs) /\ DOMAIN hs = 1 .. Len(hs) /\ Len(hs) \in Nat
        BY <1>1
    <2>3. hs[n] \in HeadersOver(S)
        BY <1>2
    <2> HIDE DEF a
    <2>4. TakenTo(S, hs, n, e)
        BY <2>1, <2>2, <2>3, TakenNext
    <2>5. a \in A /\ e \in A
        BY <2>1, <2>4 DEF TakenTo
    <2>6. g[<<a, n>>] = e
        <3> HIDE DEF A
        <3> QED
            BY <1>4, <2>5
    <2>7. f[n] = g[<<a, n>>]
        BY <1>7 DEF a
    <2>8. n \in 0 .. N
        BY <1>1
    <2>9. f[n] = e
        BY <2>6, <2>7
    <2> HIDE DEF e
    <2>10. n \in P
        BY <2>4, <2>8, <2>9
    <2> QED
        BY <2>9, <2>10 DEF a, e
<1>10. 0 .. N \subseteq P
    <2> HIDE DEF P
    <2> QED
        BY <1>1, <1>8, <1>9, UpTo
<1>11. Is(f)
    <2>1. f = [n \in 0 .. N |-> f[n]]
        BY <1>7
    <2>2. ASSUME NEW n \in 0 .. N
          PROVE  f[n] = IF n = 0 THEN NoFields ELSE TakeHeader(f[n - 1], hs[n])
        <3>1. CASE n = 0
            BY <1>7, <3>1
        <3>2. CASE n # 0
            <4>1. n \in 1 .. N /\ n - 1 \in 0 .. N
                BY <1>1, <3>2
            <4>2. n - 1 \in P
                <5> HIDE DEF P
                <5> QED
                    BY <1>10, <4>1
            <4>3. f[n] = TakeHeader(f[n - 1], hs[n])
                BY <1>9, <4>1, <4>2
            <4> QED
                BY <3>2, <4>3
        <3> QED
            BY <3>1, <3>2
    <2> QED
        BY <2>1, <2>2
<1>12. Is(t)
    BY <1>11
<1>13. TakeHeaders(NoFields, hs) = t[N]
    <2>1. [NoFields EXCEPT !.seen = 0] = NoFields
        BY DEF NoFields
    <2> QED
        BY <2>1 DEF TakeHeaders
<1> HIDE DEF t
<1>14. t[0] = NoFields /\ \A n \in 1 .. N : t[n] = TakeHeader(t[n - 1], hs[n])
    BY <1>1, <1>12
<1> DEFINE Q == {n \in 0 .. N : t[n] = f[n]}
<1>15. 0 \in Q
    BY <1>1, <1>7, <1>14
<1>16. ASSUME NEW n \in 1 .. N, n - 1 \in Q PROVE n \in Q
    <2>1. n - 1 \in P
        <3>1. n - 1 \in 0 .. N
            BY <1>1
        <3> HIDE DEF P
        <3> QED
            BY <1>10, <3>1
    <2>2. f[n] = TakeHeader(f[n - 1], hs[n])
        BY <1>9, <2>1
    <2>3. t[n] = TakeHeader(t[n - 1], hs[n]) /\ t[n - 1] = f[n - 1]
        BY <1>14, <1>16
    <2> QED
        BY <1>1, <2>2, <2>3
<1>17. N \in Q
    <2> HIDE DEF Q
    <2>1. 0 .. N \subseteq Q
        BY <1>1, <1>15, <1>16, UpTo
    <2> QED
        BY <1>1, <2>1
<1>18. N \in P
    <2> HIDE DEF P
    <2> QED
        BY <1>1, <1>10
<1> QED
    BY <1>13, <1>17, <1>18

-----------------------------------------------------------------------------
LEMMA SessionOfNothing == SessionIn(<<>>) = <<>>
<1>1. Split(<<>>, ";") = << <<>> >>
    BY SplitEmpty
<1> DEFINE w == << <<>> >>
<1>2. w \in Seq(Seq({})) /\ Len(w) = 1 /\ w[1] = <<>>
    OBVIOUS
<1>3. \A k \in 1 .. Len(w) : PairOf(w, k) = <<>>
    BY <1>2 DEF PairOf
<1>4. \A k \in 1 .. Len(w) : ~NamesSession(PairOf(w, k)) /\ PairOf(w, k) \in Seq({})
    <2>1. Len(<<>>) = 0 /\ <<>> \in Seq({})
        OBVIOUS
    <2>2. ~NamesSession(<<>>)
        BY <2>1 DEF NamesSession
    <2> QED
        BY <1>3, <2>1, <2>2
<1>5. LastSession(w, Len(w), <<>>, <<>>)
    BY <1>4 DEF LastSession
<1>6. w = Split(<<>>, ";")
    BY <1>1
<1> HIDE DEF w
<1> QED
    BY <1>2, <1>4, <1>5, <1>6, LastSessionIs

\* The same, in terms of the values of the headers by their names
LEMMA HeadersTaken ==
    ASSUME NEW S, NEW hs \in Seq(HeadersOver(S)), Once(hs),
           \A v \in Values(hs, Cookie) : Spaced(v)
    PROVE  LET f == TakeHeaders(NoFields, hs)
               lengths == Values(hs, ContentLength)
               cookies == Values(hs, Cookie)
           IN  /\ f.thrown <=> \/ \E v \in lengths : ~IsNumber(v)
                               \/ \E v \in cookies : EndsInSeparator(v)
               /\ f.thrown \/ {f.session} = {SessionIn(v) : v \in cookies \cup
                                                IF cookies = {} THEN {<<>>} ELSE {}}
<1> DEFINE f == TakeHeaders(NoFields, hs)
           N == Len(hs)
           lengths == Values(hs, ContentLength)
           cookies == Values(hs, Cookie)
<1>1. N \in Nat /\ DOMAIN hs = 1 .. N
    BY SeqLength
<1>2. /\ \A v : v \in lengths <=> \E i \in 1 .. N : hs[i].name = ContentLength /\ v = hs[i].value
      /\ \A v : v \in cookies <=> \E i \in 1 .. N : hs[i].name = Cookie /\ v = hs[i].value
    BY <1>1 DEF Values
<1>3. SpacedCookies(hs)
    BY <1>1, <1>2 DEF SpacedCookies
<1>4. TakenTo(S, hs, N, f)
    BY <1>3, TakeHeadersReads
<1> HIDE DEF f, N, lengths, cookies
<1>5. f.thrown <=> \/ \E v \in lengths : ~IsNumber(v)
                   \/ \E v \in cookies : EndsInSeparator(v)
    BY <1>2, <1>4 DEF TakenTo, Throws
<1>6. ASSUME ~f.thrown, cookies = {} PROVE f.session = <<>>
    <2>1. ~Has(hs, N, Cookie)
        BY <1>2, <1>6 DEF Has
    <2> QED
        BY <1>4, <1>6, <2>1 DEF TakenTo
<1>7. ASSUME ~f.thrown, NEW v \in cookies PROVE f.session = SessionIn(v)
    BY <1>2, <1>4, <1>7 DEF TakenTo
<1>8. f.thrown \/ {f.session} = {SessionIn(v) : v \in cookies \cup
                                    IF cookies = {} THEN {<<>>} ELSE {}}
    <2> SUFFICES ASSUME ~f.thrown
                 PROVE {f.session} = {SessionIn(v) : v \in cookies \cup
                                    IF cookies = {} THEN {<<>>} ELSE {}}
        OBVIOUS
    <2>1. CASE cookies = {}
        BY <1>6, <2>1, SessionOfNothing
    <2>2. CASE cookies # {}
        BY <1>7, <2>2
    <2> QED
        BY <2>1, <2>2
<1> QED
    BY <1>5, <1>8 DEF f, lengths, cookies
=============================================================================
