------------------------ MODULE MCRequestForwarding ------------------------
(* Two nodes, one of which has the client (they differ in nothing else),    *)
(* and a request that may take three hops.                                  *)
EXTENDS RequestForwarding

CONSTANTS n1, n2, h1, h2, h3

=============================================================================
