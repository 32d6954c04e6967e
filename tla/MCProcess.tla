------------------------------ MODULE MCProcess ------------------------------
EXTENDS Process

CONSTANTS t1, t2

MCThreads == {t1, t2}

MCChars == {SP, HT, CR, LF, "H", "T", "P", "/", ".", ":", "?", ";", "=", "+", "-",
            "1", "2", "NUL", "high", "x", "GET", "POST", "api", "auth", "user", "login",
            "logout", "register", "cookie", "SESSION", "content-length", "content-type"}

MCKeys == {"PG_POOL", "REDIS_POOL", "POOL", "ARGONID"}

MCBase == <<"/", "api">>

\* The four routes of api/auth.hpp
MCRoutes == <<
    [method |-> <<"GET">>, path |-> <<"/", "user">>, cb |-> "get_user_auth"],
    [method |-> <<"POST">>, path |-> <<"/", "auth", "/", "login">>, cb |-> "login_auth"],
    [method |-> <<"POST">>, path |-> <<"/", "auth", "/", "logout">>, cb |-> "logout_auth"],
    [method |-> <<"POST">>, path |-> <<"/", "auth", "/", "register">>, cb |-> "register_auth"]>>

Line(method, uri) ==
    <<method, SP>> \o uri \o <<SP, "H", "T", "T", "P", "/", "1", ".", "1", CR, LF>>

HeaderText(name, value) == <<name, ":", SP>> \o value \o <<CR, LF>>

Request(method, uri, headers) == Line(method, uri) \o headers \o <<CR, LF>>

\* A request with a folded cookie, and all the texts that one token changed, put in
\* or taken out makes of it
Model == Request("GET", <<"/", "api", "/", "user">>,
            HeaderText("cookie", <<"SESSION", "=", "x">>) \o <<SP, "x", CR, LF>>)

\* A character of every kind that the parser tells from others
Kinds == {SP, HT, CR, LF, ":", "/", ".", "1", "H", "NUL", "high", "x"}

Edits(s) ==
    {s} \cup {ReplaceAt(s, i, c) : i \in DOMAIN s, c \in Kinds}
        \cup {InsertAt(s, i, c) : i \in DOMAIN s, c \in Kinds}
        \cup {RemoveAt(s, i) : i \in DOMAIN s}

Auth(name) == <<"/", "api", "/", "auth", "/", name>>

Uris == {Auth("login"), Auth("x"), Auth("login") \o <<"/">>, <<"/", "api", "/", "auth">>,
         <<"/", "api">>, <<"/", "api", "/">>, <<"/", "x">>, <<"/", "api", "/", "user">>,
         <<"/", "api", "x", "user">>, Auth("register") \o <<"?", "x", "/", "x">>,
         <<"/", "api", "?", "/", "user">>, <<"/", "api", "/", "user", "/", "x">>}

Routed == {Request(m, u, <<>>) : m \in {"GET", "POST", "x"}, u \in Uris}

Cookies == {<<"SESSION", "=", "x">>, <<"SESSION", "=", "x", ";">>,
            <<"x", "=", "2", ";", SP, "SESSION", "=", "x">>,
            <<"SESSION", "=", "x", ";", SP, "x", "=", "2", ";", SP, "SESSION", "=", "1">>,
            <<"x", ";", SP, "SESSION", "=", "x", "=", ";", SP, "x">>, <<"x">>}

\* A number, with a sign, as an int above all and below; no number, and none that
\* is an int
Lengths == {<<"1">>, <<SP, "+", "2", "x">>, <<"-", "1">>, <<"-", "2">>, <<"x">>, <<"+", "-", "1">>,
            <<"2", "1">> \o [i \in 1 .. 8 |-> "1"], [i \in 1 .. 10 |-> "2"]}

Headed ==
    {Request("GET", <<"/", "api", "/", "user">>, h) :
        h \in {HeaderText("content-length", l) \o HeaderText("x", <<"x">>)
                    \o HeaderText("cookie", c) : l \in Lengths, c \in Cookies}}

Four == {Request("POST", Auth(n), <<>>) : n \in {"login", "register"}}
            \cup {Request("GET", <<"/", "api", "/", "user">>, <<>>),
                  Request("POST", Auth("logout"), HeaderText("cookie", <<"x", ";">>))}

\* Requests with a body as long as they say or not, one that is refused, and what may
\* come after the answer: the end of the headers again, which parse takes for the
\* request before, with a body or without; and what is none
Bodies == {<<>>, <<"x">>, <<"x", "x">>}

Started ==
    {Request("POST", Auth(n), HeaderText("content-length", l)) \o b :
        n \in {"login", "register", "x"}, l \in {<<"1">>, <<"-", "1">>, <<"-", "2">>}, b \in Bodies}
    \cup {Request("GET", <<"/", "api", "/", "user">>, <<>>) \o b : b \in Bodies}
    \cup {<<"GET", "NUL">>}

Onward == {<<LF>> \o b : b \in Bodies} \cup {<<"x">>, Tail(Model)}

Env(pg, store, pool) ==
    [PG_POOL |-> pg, REDIS_POOL |-> store, POOL |-> pool, ARGONID |-> Unset]

Pair(key, value) == [kind |-> "pair", key |-> key, value |-> value]

\* TLC evaluates these once.
Edited == Edits(Model)
Plain == Routed \cup Headed

MCConfigs ==
    << \* one worker, any text cut into reads
      [environ |-> Env(Unset, "", "2"), file |-> <<Pair("POOL", "1")>>,
       texts |-> Edited, reads |-> {1, 5}, turns |-> 1, more |-> {},
       orders |-> {TRUE}],
      \* one worker, any path, any cookie
      [environ |-> Env(Unset, Unset, Unset), file |-> <<>>,
       texts |-> Plain, reads |-> {}, turns |-> 1, more |-> {},
       orders |-> {TRUE}],
      \* one worker, connections that are kept, and bodies
      [environ |-> Env(Unset, Unset, Unset), file |-> <<>>,
       texts |-> Started, reads |-> {1}, turns |-> 3, more |-> Onward,
       orders |-> {TRUE}],
      \* two workers, pools of one
      [environ |-> Env(Unset, Unset, "3"), file |-> <<[kind |-> "comment"]>>,
       texts |-> Four, reads |-> {}, turns |-> 1, more |-> {},
       orders |-> BOOLEAN],
      \* larger pools, and an empty one
      [environ |-> Env("2", Unset, Unset), file |-> <<Pair("REDIS_POOL", "3")>>,
       texts |-> Four, reads |-> {}, turns |-> 1, more |-> {},
       orders |-> {TRUE}],
      [environ |-> Env("2", Unset, Unset), file |-> <<Pair("REDIS_POOL", "x")>>,
       texts |-> Four, reads |-> {}, turns |-> 1, more |-> {},
       orders |-> {TRUE}],
      \* a line without "=": no worker
      [environ |-> Env(Unset, Unset, "2"), file |-> <<[kind |-> "bare", key |-> "POOL"]>>,
       texts |-> Four, reads |-> {}, turns |-> 1, more |-> {},
       orders |-> {TRUE}],
      \* two workers, and a cost of argon2 that is no number
      [environ |-> Env(Unset, Unset, "2"), file |-> <<Pair("ARGONID", "x")>>,
       texts |-> Four, reads |-> {}, turns |-> 1, more |-> {},
       orders |-> {TRUE}] >>
=============================================================================
