--------------------------- MODULE MCAuthService ---------------------------
(* AuthService for TLC: workers, ids and usernames are model values. *)
EXTENDS AuthService
=============================================================================
