--------------------------- MODULE RequestHeaders ---------------------------
(***************************************************************************)
(* What connection::handle_header_buffer takes from the headers of a       *)
(* request, before it looks at the body: the length, the type and the      *)
(* cookies.  The names are compared without regard to case: a name here    *)
(* stands for all its spellings.                                           *)
(***************************************************************************)
EXTENDS Integers, RequestParser

ContentLength == <<"content-length">>
ContentType == <<"content-type">>
Cookie == <<"cookie">>
Session == <<"SESSION">>

\* The fields of request that the loop writes.  seen is the counter i, thrown an
\* exception out of the loop.
NoFields == [length |-> -1, type |-> <<>>, session |-> <<>>, cookies |-> {},
             seen |-> 0, thrown |-> FALSE]

\* stoi skips white space, which is SP in a value, takes a sign, and reads digits
\* up to what is none: where its first digit is
FirstDigit(v) ==
    {i \in DOMAIN v : /\ v[i] \in Digits
                      /\ \A j \in 1 .. i - 1 : v[j] = SP \/ (j = i - 1 /\ v[j] \in {"+", "-"})}

\* A number of S with one more digit, if it is an int: no digit here is above 7.
Shifted(S, digit) ==
    {10 * m + digit : m \in {k \in S : k \in -(2147483647 \div 10) .. 2147483647 \div 10}}

\* The number that begins at i, if it is an int
Stoi(v, i) ==
    LET sign == IF i > 1 /\ v[i - 1] = "-" THEN -1 ELSE 1
        upto[k \in i - 1 .. Len(v)] ==
            CASE k = i - 1 -> {0}
              [] k > i - 1 /\ (\A j \in i .. k : v[j] \in Digits) ->
                    Shifted(upto[k - 1], IF v[k] = "1" THEN sign ELSE 2 * sign)
              [] OTHER -> upto[k - 1]
    IN  upto[Len(v)]

Numbered(v) == UNION {Stoi(v, i) : i \in FirstDigit(v)}

\* Without a digit stoi throws, and beyond an int.
IsNumber(v) == Numbered(v) # {}

NumberOf(v) == CHOOSE n \in Numbered(v) : TRUE

\* One "key=value" of a cookie header; what has no "=" is passed over.
TakePair(f, pair) ==
    LET eq == SelectInSeq(pair, LAMBDA c : c = "=")
        key == SubSeq(pair, 1, eq - 1)
    IN  IF eq = 0 THEN f
        ELSE IF key = Session THEN [f EXCEPT !.session = SubSeq(pair, eq + 1, Len(pair))]
        ELSE [f EXCEPT !.cookies = @ \cup {key}]

\* A pair that ends before the ";" at i; the next begins gap characters later.
CutPair(acc, v, i, gap) ==
    IF v[i] = ";" /\ i >= acc.start
    THEN [start |-> i + gap, f |-> TakePair(acc.f, SubSeq(v, acc.start, i - 1))]
    ELSE acc

\* Slip: the separator is taken to be one character, not two.
ParseCookieTight(f, v) ==
    LET cut[i \in 0 .. Len(v)] ==
            IF i = 0 THEN [start |-> 1, f |-> f] ELSE CutPair(cut[i - 1], v, i, 1)
        end == cut[Len(v)]
    IN  IF end.start > Len(v) + 1 THEN [end.f EXCEPT !.thrown = TRUE]
        ELSE TakePair(end.f, SubSeq(v, end.start, Len(v)))

\* parse_cookie: a pair ends before a ";", and the next begins two characters
\* later.  substr throws if that is past the end of the value, which a ";" at
\* the end brings about.
ParseCookie(f, v) ==
    LET cut[i \in 0 .. Len(v)] ==
            IF i = 0 THEN [start |-> 1, f |-> f] ELSE CutPair(cut[i - 1], v, i, 2)
        end == cut[Len(v)]
    IN  IF end.start > Len(v) + 1 THEN [end.f EXCEPT !.thrown = TRUE]
        ELSE TakePair(end.f, SubSeq(v, end.start, Len(v)))

\* One turn of the loop over the headers, which is left once three were used
TakeHeader(f, h) ==
    LET g == [f EXCEPT !.seen = @ + 1] IN
    CASE f.thrown \/ f.seen > 2 -> f
      [] ~f.thrown /\ f.seen <= 2 /\ h.name = ContentLength /\ f.length = -1 ->
            IF IsNumber(h.value) THEN [g EXCEPT !.length = NumberOf(h.value)]
                                 ELSE [f EXCEPT !.thrown = TRUE]
      [] ~f.thrown /\ f.seen <= 2 /\ h.name = ContentType /\ f.type = <<>> ->
            [g EXCEPT !.type = h.value]
      [] ~f.thrown /\ f.seen <= 2 /\ h.name = Cookie /\ f.cookies = {} ->
            ParseCookie(g, h.value)
      [] OTHER -> f

\* The loop, on what the requests before have left of the fields
TakeHeaders(f, headers) ==
    LET taken[n \in 0 .. Len(headers)] ==
            IF n = 0 THEN [f EXCEPT !.seen = 0] ELSE TakeHeader(taken[n - 1], headers[n])
    IN  taken[Len(headers)]

-----------------------------------------------------------------------------
(* The reference: what the value of a cookie header says                   *)

\* The values of the headers with a name
Values(hs, name) == {hs[i].value : i \in {j \in DOMAIN hs : hs[j].name = name}}

\* The pairs of a cookie header, which "; " separates
Pairs(v) ==
    LET pieces == Split(v, ";") IN
    [k \in DOMAIN pieces |-> IF k = 1 THEN pieces[k] ELSE Tail(pieces[k])]

Spaced(v) == \A i \in DOMAIN v : v[i] = ";" => i = Len(v) \/ v[i + 1] = SP

EndsInSeparator(v) == v # <<>> /\ v[Len(v)] = ";"

\* The session that a cookie header names, last
SessionIn(v) ==
    LET ps == Pairs(v)
        k == SelectLastInSeq(ps, LAMBDA p : IsPrefix(<<"SESSION", "=">>, p))
    IN  IF k = 0 THEN <<>> ELSE SubSeq(ps[k], 3, Len(ps[k]))
=============================================================================
