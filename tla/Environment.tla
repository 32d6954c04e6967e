----------------------------- MODULE Environment -----------------------------
(***************************************************************************)
(* utils/env.cpp: the variables of the process and the .env file.  A line  *)
(* of the file is a comment (or empty), a pair of key and value, or bare:  *)
(* without "=", when both are the whole line.                              *)
(***************************************************************************)
EXTENDS Naturals, SequencesExt

CONSTANTS Unset, Keys

Empty == ""

\* One turn of init_env's loop: setenv replaces what the process had.
SetLine(env, line) ==
    IF line.kind = "comment" \/ line.key \notin Keys THEN env
    ELSE [env EXCEPT ![line.key] = IF line.kind = "bare" THEN line.key ELSE line.value]

Load(env, file) == FoldLeft(SetLine, env, file)

\* get_env: a variable that is set to nothing has the default, too.
GetEnv(env, key, default) ==
    IF env[key] \in {Unset, Empty} THEN default ELSE env[key]

\* strtoul: 0 for what is no number
Numbers == [v \in {"0", "1", "2", "3"} |->
                CHOOSE n \in 0 .. 3 : v = <<"0", "1", "2", "3">>[n + 1]]

Strtoul(v) == IF v \in DOMAIN Numbers THEN Numbers[v] ELSE 0
=============================================================================
