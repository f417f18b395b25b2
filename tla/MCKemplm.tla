------------------------------- MODULE MCKemplm -------------------------------
(* Kemplm with a service that changes targets and turns to TLS, and another that *)
(* gets the same IP after it, or one of its own at the same time.                 *)
EXTENDS Kemplm

CONSTANTS s1, s2, t1, t2, ip1, ip2

First == [ip |-> ip1, tls |-> FALSE, targets |-> {t1}]
Moved == [ip |-> ip1, tls |-> FALSE, targets |-> {t1, t2}]
Secure == [ip |-> ip1, tls |-> TRUE, targets |-> {t2}]
Second == [ip |-> ip1, tls |-> FALSE, targets |-> {t2}]
Other == [ip |-> ip2, tls |-> FALSE, targets |-> {t1}]

AllRequests ==
  [svc : {s1}, action : {"add", "delete"}, def : {First, Moved, Secure}]
  \cup [svc : {s2}, action : {"add", "delete"}, def : {Second, Other}]
=============================================================================
