------------------------------- MODULE MCConsul -------------------------------
(* Consul with a service that changes aliases and turns to TLS, and another. *)
EXTENDS Consul

CONSTANTS s1, s2, ip1, ip2, n1, n2, n3

First == [ip |-> ip1, tls |-> FALSE, aliases |-> {n1, n2}]
Secure == [ip |-> ip1, tls |-> TRUE, aliases |-> {n2}]
Other == [ip |-> ip2, tls |-> FALSE, aliases |-> {n3}]

AllRequests ==
  [svc : {s1}, action : {"add", "delete"}, def : {First, Secure}]
  \cup [svc : {s2}, action : {"add", "delete"}, def : {Other}]
=============================================================================
