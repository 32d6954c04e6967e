-------------------------------- MODULE Texts --------------------------------
(***************************************************************************)
(* Sequences of tokens as texts                                            *)
(***************************************************************************)
EXTENDS Naturals, Sequences, SequencesExt

\* The pieces of s between the separators c: one more than there are of these
Split(s, c) ==
    LET pieces[n \in 0 .. Len(s)] ==
            IF n = 0 THEN << <<>> >>
            ELSE LET done == pieces[n - 1] IN
                 IF s[n] = c THEN Append(done, <<>>)
                 ELSE [done EXCEPT ![Len(done)] = Append(@, s[n])]
    IN  pieces[Len(s)]
=============================================================================
