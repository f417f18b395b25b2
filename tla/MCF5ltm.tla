------------------------------- MODULE MCF5ltm -------------------------------
(* F5ltm with two services: one moves from a target and plain HTTP to another *)
(* target and TLS, one has an address whose text contains the first's.       *)
EXTENDS F5ltm

CONSTANTS s1, s2, t1, t2, ip1, ip2, n1, n2

First == [ip |-> ip1, tls |-> FALSE, targets |-> {t1}, aliases |-> {n1}]
Moved == [ip |-> ip2, tls |-> TRUE, targets |-> {t2}, aliases |-> {n1, n2}]
Other == [ip |-> ip2, tls |-> FALSE, targets |-> {t1}, aliases |-> {n2}]

AllRequests ==
  [svc : {s1}, action : {"add", "delete"}, def : {First, Moved, Other}]
  \cup [svc : {s2}, action : {"add", "delete"}, def : {Other}]

\* The text of ip1 is in that of ip2.
TextWithin == {<<<<ip2, FALSE>>, <<ip1, FALSE>>>>}
=============================================================================
