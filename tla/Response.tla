------------------------------ MODULE Response ------------------------------
(***************************************************************************)
(* The response of a connection: the fields that wrappers/http/response    *)
(* keeps, what the adapter does to them, and the bytes they are sent as.   *)
(* A text is its length; the bytes are a sequence of named parts, each     *)
(* with its value.                                                         *)
(***************************************************************************)
EXTENDS Naturals, Sequences

\* The statuses that response.hpp knows
KnownStatuses == {200, 201, 202, 204, 300, 301, 302, 303, 400, 401, 403, 404, 500, 501,
                  502, 503}

NewResponse == [
    status |-> 200, headers |-> <<>>, cookies |-> <<>>,
    content |-> 0, contentLength |-> 0, contentType |-> "application/json"]

\* WrapperResponse
SetStatus(r, status) == [r EXCEPT !.status = status]

SetContentType(r, type) == [r EXCEPT !.contentType = type]

\* Slip: the length is left as it was.
SetBodyUncounted(r, size) == [r EXCEPT !.content = size]

SetBody(r, size) == [r EXCEPT !.content = size, !.contentLength = size]

\* The cookie of the session, by which it is given or, with age 0, taken away
AddCookie(r, age) == [r EXCEPT !.cookies = Append(@, age)]

Part(name, value) == [name |-> name, value |-> value]

\* stock_response: all texts but that of 200 say something.
StockResponse(status) ==
    LET size == IF status = 200 THEN 0 ELSE 1 IN
    [NewResponse EXCEPT
        !.status = status, !.content = size,
        !.headers = <<Part("Content-Length", size), Part("Content-Type", "text/html")>>]

\* An unknown status is sent as 500.
StatusLine(status) == IF status \in KnownStatuses THEN status ELSE 500

\* response::to_buffers
ToBuffers(r) ==
    <<Part("status", StatusLine(r.status))>>
        \o r.headers
        \o [i \in DOMAIN r.cookies |-> Part("Set-Cookie", r.cookies[i])]
        \o (IF r.status = 204 THEN <<>>
            ELSE <<Part("Content-Type", r.contentType),
                   Part("Content-Length", r.contentLength)>>)
        \o <<Part("content", r.content)>>
=============================================================================
