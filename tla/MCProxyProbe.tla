--------------------------- MODULE MCProxyProbe ---------------------------
\* One host declared on two ports, one of them twice (optional, then
\* required), two proxies, and the environments that tell the legs apart.
EXTENDS ProxyProbe

MCDeclared == <<[host |-> "a", port |-> 443, required |-> FALSE],
                [host |-> "a", port |-> 443, required |-> TRUE],
                [host |-> "a", port |-> 80,  required |-> FALSE]>>
Found(pac, https, http, bypass, bad) ==
  [pacUrl |-> pac, httpsProxy |-> https, httpProxy |-> http, bypass |-> bypass, badEntry |-> bad]
On443 == [host |-> "a", port |-> 443]
On80  == [host |-> "a", port |-> 80]
CONSTANTS p, q
MCSettings ==
  {Found(TRUE, "junk", q, {On80}, TRUE)}
  \cup {Found(FALSE, s, h, b, FALSE) : s \in {"unset", "junk", p}, h \in {"unset", "junk", q},
                                       b \in {{}, {On443}, {On80}, {On443, On80}}}
=============================================================================
