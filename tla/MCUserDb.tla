----------------------------- MODULE MCUserDb -----------------------------
(* UserDb for TLC: threads and clients are model values.  Usernames are at *)
(* both limits, 8 and 60, and below the first; passwords at and past both. *)
EXTENDS UserDb

Username(name, size, pad) == [name |-> name, size |-> size, pad |-> pad]

MCIds == {"username", "short", "long"}

\* One user with and without a space, a username that is long enough only with
\* its space, and one that is longer than the column and short enough only
\* without its space
MCNames == {Username("username", 8, 0), Username("username", 8, 1),
            Username("short", 7, 0), Username("short", 7, 1),
            Username("long", 60, 1)}

OneName == {Username("username", 8, 0)}
=============================================================================
