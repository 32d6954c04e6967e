------------------------------- MODULE Router -------------------------------
(***************************************************************************)
(* request_handler: a tree of path segments for each method, built from    *)
(* the list of routes and walked by handle_request.  A node is the method  *)
(* and the segments that lead to it; the tree maps its nodes to callbacks. *)
(***************************************************************************)
EXTENDS Texts

CONSTANTS
    Base,      \* base_path
    Routes,    \* the list of routes: records of method, path and cb
    NoCallback

NotFound == NoCallback

\* The pieces between the separators of a path
Segments(path) == Split(path, "/")

\* The nodes of a route, its leaf last: the "/" of a path that is nothing else
\* is the root's own.
Leaf(route) == IF route.path = <<"/">> THEN <<>> ELSE Segments(Tail(route.path))

\* One turn of the constructor's loop: missing nodes are made without a
\* callback, and the leaf gets the route's.
AddRoute(tree, route) ==
    LET on == {<<route.method, s>> : s \in Prefixes(Leaf(route))} IN
    [node \in DOMAIN tree \cup on |->
        IF node = <<route.method, Leaf(route)>> THEN route.cb
        ELSE IF node \in DOMAIN tree THEN tree[node] ELSE NoCallback]

\* request_handler::request_handler
Tree ==
    LET tree[n \in 0 .. Len(Routes)] ==
            IF n = 0 THEN <<>> ELSE AddRoute(tree[n - 1], Routes[n])
    IN  tree[Len(Routes)]

\* The path of a uri ends before the "?".
PathOf(uri) ==
    LET q == SelectInSeq(uri, LAMBDA c : c = "?") IN
    IF q = 0 THEN uri ELSE SubSeq(uri, 1, q - 1)

\* What follows the base path and one character, which is not looked at
Rest(path) == SubSeq(path, Len(Base) + 2, Len(path))

\* The node that the walk ends at
NodeOf(method, path) == <<method, IF path = Base THEN <<>> ELSE Segments(Rest(path))>>

\* Slip: the walk ends at any node of the tree that the path begins with.
RouteShort(method, uri) ==
    LET path == PathOf(uri)
        passed == {s \in Prefixes(NodeOf(method, path)[2]) : <<method, s>> \in DOMAIN Tree}
    IN  IF IsPrefix(Base, path) /\ passed # {}
        THEN Tree[<<method, CHOOSE s \in passed : \A r \in passed : Len(r) <= Len(s)>>]
        ELSE NotFound

\* handle_request: the callback called, or none and the status 404
Route(method, uri) ==
    LET path == PathOf(uri)
        node == NodeOf(method, path)
    IN  IF IsPrefix(Base, path) /\ node \in DOMAIN Tree THEN Tree[node] ELSE NotFound

-----------------------------------------------------------------------------
(* The reference: a look at the list of routes *)

\* The whole path of a route, as the router's reader would write it
FullPath(route) == Base \o (IF route.path = <<"/">> THEN <<>> ELSE route.path)

\* Equal but for the character after the base path
SamePath(path, full) ==
    /\ Len(path) = Len(full)
    /\ \A i \in DOMAIN path : i = Len(Base) + 1 \/ path[i] = full[i]

Listed(method, uri) ==
    LET i == SelectLastInSeq(Routes,
                LAMBDA r : r.method = method /\ SamePath(PathOf(uri), FullPath(r)))
    IN  IF i = 0 THEN NotFound ELSE Routes[i].cb
=============================================================================
