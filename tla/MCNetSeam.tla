----------------------------- MODULE MCNetSeam -----------------------------
(***************************************************************************)
(* Two calls of any two seams.  The profile declares one port of a host;   *)
(* the other port is asked for too, the proxy is declared by nobody, and   *)
(* one proxy setting points at the undeclared port itself.                 *)
(***************************************************************************)
EXTENDS NetSeam

Api   == [host |-> "api", port |-> 443]
Admin == [host |-> "api", port |-> 8080]
Proxy == [host |-> "proxy", port |-> 3128]

MCEndpoints == {Api, Admin, Proxy}
MCProfile == {Api}

Direct(k, e) == [kind |-> k, target |-> e, dial |-> e]
Through(k, e, p) == [kind |-> k, target |-> e, dial |-> p]
MCRequests ==
  {Direct("resolve", Api), Direct("resolve", Proxy), Direct("endpointTls", Api),
   Direct("endpointHttp", Api), Direct("endpointBare", Admin), Direct("captureDirect", Api),
   Through("captureProxy", Api, Proxy), Through("proxyConnect", Api, Proxy),
   Through("proxyConnect", Api, Admin), Direct("pacHttp", Proxy), Direct("pacHttps", Proxy)}
=============================================================================
