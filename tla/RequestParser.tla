---------------------------- MODULE RequestParser ----------------------------
(***************************************************************************)
(* The parser of wrappers/http/request_parser.  A request is a sequence of *)
(* tokens: a token is one character where the parser, the header dispatch  *)
(* or the router tells it from others, else a run of ordinary characters.  *)
(* The version numbers, which nothing reads, are left out.                 *)
(***************************************************************************)
EXTENDS Texts

CONSTANT Chars    \* the tokens that the texts of requests are made of

SP == "SP"
HT == "HT"
CR == "CR"
LF == "LF"

\* White space, the characters of the version and of a header, and an ordinary one
ASSUME CharsAssumption ==
    {SP, HT, CR, LF, "H", "T", "P", "/", ".", ":", "1", "x"} \subseteq Chars

\* is_ctl, is_tspecial, is_digit; "high" is a byte that is no is_char
Ctls == {HT, CR, LF, "NUL"}
Tspecials == {SP, HT, "/", ":", "?", ";", "="}
Digits == {"1", "2"}
High == {"high"}

NameChars == Chars \ (Ctls \cup Tspecials \cup High)
TextChars == Chars \ Ctls

-----------------------------------------------------------------------------
(* The automaton: for a state, the characters it accepts and where they    *)
(* lead.  Any other character is bad.                                      *)

MethodMoves == [
    method_start |-> {<<NameChars, "method">>},
    method       |-> {<<{SP}, "uri">>, <<NameChars, "method">>},
    uri          |-> {<<{SP}, "http_version_h">>, <<TextChars \ {SP}, "uri">>}]

\* Slip: a version may go on after its minor number.
VersionMovesOn == [
    http_version_h           |-> {<<{"H"}, "http_version_t_1">>},
    http_version_t_1         |-> {<<{"T"}, "http_version_t_2">>},
    http_version_t_2         |-> {<<{"T"}, "http_version_p">>},
    http_version_p           |-> {<<{"P"}, "http_version_slash">>},
    http_version_slash       |-> {<<{"/"}, "http_version_major_start">>},
    http_version_major_start |-> {<<Digits, "http_version_major">>},
    http_version_major       |-> {<<Digits \cup {"."}, "http_version_major">>,
                                  <<{CR}, "expecting_newline_1">>},
    expecting_newline_1      |-> {<<{LF}, "header_line_start">>}]

VersionMoves == [
    http_version_h           |-> {<<{"H"}, "http_version_t_1">>},
    http_version_t_1         |-> {<<{"T"}, "http_version_t_2">>},
    http_version_t_2         |-> {<<{"T"}, "http_version_p">>},
    http_version_p           |-> {<<{"P"}, "http_version_slash">>},
    http_version_slash       |-> {<<{"/"}, "http_version_major_start">>},
    http_version_major_start |-> {<<Digits, "http_version_major">>},
    http_version_major       |-> {<<{"."}, "http_version_minor_start">>,
                                  <<Digits, "http_version_major">>},
    http_version_minor_start |-> {<<Digits, "http_version_minor">>},
    http_version_minor       |-> {<<{CR}, "expecting_newline_1">>,
                                  <<Digits, "http_version_minor">>},
    expecting_newline_1      |-> {<<{LF}, "header_line_start">>}]

\* A line that begins with white space continues a header, if there is one.
HeaderMoves(some) == [
    header_line_start   |-> {<<{CR}, "expecting_newline_3">>,
                             <<NameChars, "header_name">>,
                             <<IF some THEN {SP, HT} ELSE {}, "header_lws">>},
    header_lws          |-> {<<{CR}, "expecting_newline_2">>,
                             <<{SP, HT}, "header_lws">>,
                             <<TextChars \ {SP}, "header_value">>},
    header_name         |-> {<<{":"}, "space_before_header_value">>,
                             <<NameChars, "header_name">>},
    space_before_header_value |-> {<<{SP}, "header_value">>},
    header_value        |-> {<<{CR}, "expecting_newline_2">>,
                             <<TextChars, "header_value">>},
    expecting_newline_2 |-> {<<{LF}, "header_line_start">>},
    expecting_newline_3 |-> {<<{LF}, "good">>}]

Moves(p) ==
    CASE p.state \in DOMAIN MethodMoves -> MethodMoves[p.state]
      [] p.state \in DOMAIN VersionMoves -> VersionMoves[p.state]
      [] OTHER -> HeaderMoves(p.headers # <<>>)[p.state]

\* The state after character c, or the result good or bad
Follow(p, c) ==
    IF \E m \in Moves(p) : c \in m[1]
    THEN (CHOOSE m \in Moves(p) : c \in m[1])[2]
    ELSE "bad"

-----------------------------------------------------------------------------
(* What consume does to the request *)

\* push_back to headers.back() or, at the start of a line, to a new header
PushHeader(p, c, to) ==
    LET last == Len(p.headers) IN
    CASE to = "header_name" /\ p.state = "header_line_start" ->
            Append(p.headers, [name |-> <<c>>, value |-> <<>>])
      [] to = "header_name" /\ p.state # "header_line_start" ->
            [p.headers EXCEPT ![last].name = Append(@, c)]
      [] to = "header_value" /\ p.state # "space_before_header_value" ->
            [p.headers EXCEPT ![last].value = Append(@, c)]
      [] OTHER -> p.headers

\* The parser and its request: at counts the characters consumed.
NewParser == [state |-> "method_start", result |-> "indeterminate", at |-> 0,
          method |-> <<>>, uri |-> <<>>, headers |-> <<>>]

\* consume, as the loop of parse calls it: not after good or bad
Consume(p, c) ==
    LET to == Follow(p, c)
        ends == to \in {"good", "bad"}
    IN  IF p.result # "indeterminate" THEN p
        ELSE [state |-> IF ends THEN p.state ELSE to,
              result |-> IF ends THEN to ELSE "indeterminate",
              at |-> p.at + 1,
              method |-> IF to = "method" THEN Append(p.method, c) ELSE p.method,
              uri |-> IF to = "uri" /\ p.state = "uri" THEN Append(p.uri, c) ELSE p.uri,
              headers |-> PushHeader(p, c, to)]

\* Slip: every read begins with a parser in its first state.
ParseAnew(p, chunk) ==
    FoldLeft(Consume, [p EXCEPT !.result = "indeterminate", !.state = "method_start"], chunk)

\* parse, called on what a read brought: state_ and the request are kept.
Parse(p, chunk) ==
    LET after[n \in 0 .. Len(chunk)] ==
            IF n = 0 THEN [p EXCEPT !.result = "indeterminate"]
            ELSE Consume(after[n - 1], chunk[n])
    IN  after[Len(chunk)]

-----------------------------------------------------------------------------
(* The reference: what a complete request is, said of the whole text       *)

\* The characters l[m] .. l[n] are in S.
Among(l, m, n, S) == \A k \in m .. n : l[k] \in S

Where(l, c) == {k \in DOMAIN l : l[k] = c}

Ended(l) == l # <<>> /\ l[Len(l)] = CR

\* A line is what stands before LF: method SP uri SP "HTTP/" digits "." digits CR
RequestLine(l) ==
    /\ Ended(l)
    /\ \E i \in Where(l, SP) :
        /\ i > 1 /\ Among(l, 1, i - 1, NameChars)
        /\ \E j \in Where(l, SP) :
            /\ i < j /\ Among(l, i + 1, j - 1, TextChars \ {SP})
            /\ j + 5 < Len(l) /\ SubSeq(l, j + 1, j + 5) = <<"H", "T", "T", "P", "/">>
            /\ \E d \in Where(l, ".") :
                /\ j + 6 < d /\ Among(l, j + 6, d - 1, Digits)
                /\ d + 1 < Len(l) /\ Among(l, d + 1, Len(l) - 1, Digits)

\* name ":" SP value CR
HeaderLine(l) ==
    /\ Ended(l)
    /\ \E k \in Where(l, ":") :
        /\ k > 1 /\ Among(l, 1, k - 1, NameChars)
        /\ k + 1 < Len(l) /\ l[k + 1] = SP
        /\ Among(l, k + 2, Len(l) - 1, TextChars)

\* White space and more of a value
FoldedLine(l) ==
    /\ Ended(l)
    /\ \E k \in 2 .. Len(l) : /\ Among(l, 1, k - 1, {SP, HT})
                              /\ Among(l, k, Len(l) - 1, TextChars)

\* A request line, the lines of headers, an empty one, and nothing after its end
Complete(s) ==
    LET ls == Split(s, LF)
        n == Len(ls)
    IN  /\ n > 2
        /\ ls[n] = <<>> /\ ls[n - 1] = <<CR>>
        /\ RequestLine(ls[1])
        /\ \A k \in 2 .. n - 2 : HeaderLine(ls[k]) \/ (k > 2 /\ FoldedLine(ls[k]))

\* The method, the uri and the headers of a complete request
MethodOf(s) == Split(s, SP)[1]
UriOf(s) == Split(s, SP)[2]

\* What is between position k of a line and its CR
Upto(l, k) == SubSeq(l, k, Len(l) - 1)

\* What a line makes of the headers before it: a folded one goes on with the
\* value of the last, without its leading white space.
HeaderOf(headers, l) ==
    LET colon == SelectInSeq(l, LAMBDA c : c = ":")
        begin == SelectInSeq(l, LAMBDA c : c \notin {SP, HT})
    IN  IF l[1] \in {SP, HT}
        THEN [headers EXCEPT ![Len(headers)].value = @ \o Upto(l, begin)]
        ELSE Append(headers, [name |-> SubSeq(l, 1, colon - 1), value |-> Upto(l, colon + 2)])

HeadersOf(s) ==
    LET ls == Split(s, LF)
        headers[k \in 1 .. Len(ls) - 2] ==
            IF k = 1 THEN <<>> ELSE HeaderOf(headers[k - 1], ls[k])
    IN  headers[Len(ls) - 2]

\* What is left of a request, wherever it is cut
Tails == Suffixes(<<"x", SP, "/", SP, "H", "T", "T", "P", "/", "1", ".", "1", CR, LF,
                    "x", ":", SP, "x", CR, LF, CR, LF>>)
=============================================================================
