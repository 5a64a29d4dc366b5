---- MODULE MCEndpointHandle ----
(* Instance of EndpointHandle: endpoints with up to three backends.          *)
EXTENDS EndpointHandle
CONSTANTS b1, b2, b3
MCBackends == {b1, b2, b3}
====
