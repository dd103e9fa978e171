------------------------------ MODULE MCTcpFraming ------------------------------
EXTENDS TcpFraming

\* A name without colons, one that holds ":::", a sender that has no port, one
\* that has no uuid, and one that says something else first.
Plain == [type |-> "MSG_AUTH", uuid |-> "own", fields |-> 3, port |-> 1]
SmallGreetings == {Plain, [Plain EXCEPT !.fields = 4], [Plain EXCEPT !.port = 0],
                   [Plain EXCEPT !.uuid = "null"], [Plain EXCEPT !.type = "MSG_TEXT"]}
===============================================================================
