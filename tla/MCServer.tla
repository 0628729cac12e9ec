------------------------------ MODULE MCServer ------------------------------
(* TLC instances of Server. *)
EXTENDS Server

CONSTANTS small, big, cgi, missing

\* what the server does with each request line, and the sizes getfileinfo finds
Answers == [r \in Request |-> CASE r = cgi -> "dynamic" [] r = missing -> "error" [] OTHER -> "static"]
Sizes == [r \in Request |-> CASE r = big -> {2} [] r = missing -> {-1, 0} [] OTHER -> {1}]

\* the last connection reuses the request line of the first
Clients == [c \in 1..MaxConns |->
  CASE c = 1 -> {cgi, missing} [] c = 2 -> {cgi} [] c = 3 -> {missing, Eof} [] c = 4 -> {cgi}
    [] OTHER -> {missing, Eof}]
=============================================================================
