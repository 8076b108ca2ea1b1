------------------------------- MODULE MCHttp -------------------------------
(* Instances of HttpServer for TLC.                                        *)
EXTENDS HttpServer

\* Two pieces with a body tag; one piece without; names that lack a period, and
\* whose size cannot be found out.  "none.html" does not exist.
Lengths == [f \in {"page.html", "plain.txt", "readme", "dir.d"} |-> IF f = "page.html" THEN 2 ELSE 1]

Request(meth, file, keepAlive) == [meth |-> meth, file |-> file, keep |-> keepAlive]

Asked ==
    {Request("GET", "page.html", TRUE), Request("POST", "page.html", FALSE),
     Request("POST", "plain.txt", TRUE), Request("POST", "none.html", TRUE),
     Request("GET", "readme", FALSE), Request("GET", "dir.d", FALSE),
     Request("OTHER", "page.html", TRUE), Request("BAD", "page.html", TRUE)}

=============================================================================
