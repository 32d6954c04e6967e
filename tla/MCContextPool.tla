--------------------------- MODULE MCContextPool ---------------------------
(* ContextPool for TLC: the threads are model values, t1 to t3. *)
EXTENDS ContextPool
=============================================================================
