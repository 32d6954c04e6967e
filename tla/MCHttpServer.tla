---------------------------- MODULE MCHttpServer ----------------------------
(* HttpServer for TLC.  One client sends twice a GET, a POST whose body has a *)
(* newline or a POST with a body longer than it says; the other sends one GET. *)
EXTENDS HttpServer, TLC

CONSTANTS c1, c2

Get == [text |-> <<"h", "e">>, length |-> -1]
Post == [text |-> <<"h", "e", "b", "n">>, length |-> 2]
Long == [text |-> <<"h", "e", "b", "b">>, length |-> 1]

TwoClients == {c1, c2}
OneClient == {c1}
Mixed == [c \in Clients |-> IF c = c1 THEN {Get, Post, Long} ELSE {Get}]
TwiceOnce == [c \in Clients |-> IF c = c1 THEN 2 ELSE 1]
Posts == [c \in Clients |-> {Post}]
Once == [c \in Clients |-> 1]
=============================================================================
