-------------------------------- MODULE MCDns --------------------------------
(* Instances of ProxyDns for TLC.                                           *)
EXTENDS ProxyDns, TLC

CONSTANTS a, b

Request(meth, uri, host, below) == [meth |-> meth, uri |-> uri, host |-> host, below |-> below]

\* One request without a Host: line, one whose Host: line is followed by the other
\* name (Referer:), one of another method and one without three fields.
Asked ==
    {Request("GET", a, None, None), Request("GET", None, b, a), Request("GET", None, b, None),
     Request("OTHER", None, a, None), Request("BAD", None, a, None)}

\* Two lines never fit the buffer, one always does.
Widths == (a :> 2) @@ (b :> 3)

FirstZone == (a :> <<1, 1>>) @@ (b :> <<2, 2>>)
LaterMoves == {<<1, 2>>, None}

\* An address, and a name that lacks the newline at the end of the file.
Lines == {[text |-> <<1, 2>>, short |-> None, ended |-> TRUE],
          [text |-> b, short |-> None, ended |-> FALSE]}

=============================================================================
