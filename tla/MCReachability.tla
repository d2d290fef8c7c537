--------------------------- MODULE MCReachability ---------------------------
(***************************************************************************)
(* Host "a" with a TLS port and a bare port, "b" with a plain HTTP port and *)
(* a DoH resolver "r" over two threads: six lookups.  The networks vary     *)
(* how long names take, or what one name is, or how one attempt fares.      *)
(***************************************************************************)
EXTENDS Reachability, TLC

MCDeclared == <<[host |-> "a", port |-> 443, required |-> FALSE],
                [host |-> "a", port |-> 5432, required |-> TRUE],
                [host |-> "b", port |-> 80, required |-> FALSE]>>
MCResolvers == <<"r">>
Never == MaxTime + 1

Named(code, takes, addresses) == [code |-> code, takes |-> takes, addresses |-> addresses]
Fine(takes) == Named("ok", takes, {"public"})
Clear == [phase |-> "ok", sign |-> "null"]
Net(names, paths) == [name |-> names, path |-> paths]
AllFine  == [h \in {"a", "b", "r"} |-> Fine(0)]
AllClear == [c \in Attempts |-> Clear]
AllShut  == [c \in Attempts |-> [phase |-> "connect", sign |-> "refused"]]

Delays == {Net([h \in {"a", "b", "r"} |-> Fine(takes[h])], AllShut) :
             takes \in [{"a", "b", "r"} -> {0, 1, Never}]}
Kinds == {Named(code, 0, {}) : code \in NameCodes}
         \cup {Named("ok", 0, s) : s \in {{}, {"private"}, {"sinkhole", "private"}, {"malformed"}}}
Oddities == {Net([AllFine EXCEPT !["a"] = k], AllShut) : k \in Kinds}
            \cup {Net([AllFine EXCEPT !["r"] = Named("notFound", 1, {})], AllShut)}

Fares(c, p, signs) ==
  {Net(AllFine, [AllShut EXCEPT ![c] = [phase |-> p, sign |-> s]]) : s \in signs}
Reach(i) == CHOOSE c \in Reaches : c.at = i
Doh == CHOOSE c \in DohChecks : TRUE
Faults ==
  Fares(Reach(1), "connect", {"timedOut", "reset", "silent"})
  \cup Fares(Reach(1), "tls", {"reset", "other", "silent"})
  \cup Fares(Reach(1), "http", {"protocol", "null", "silent"}) \cup Fares(Reach(1), "ok", {"intermediary"})
  \cup Fares(Reach(2), "connect", {"refused"}) \cup Fares(Reach(3), "http", {"silent"})
  \cup Fares(Doh, "connect", {"refused", "silent"}) \cup Fares(Doh, "tls", {"cert"}) \cup Fares(Doh, "http", {"silent"})
MCWorlds == {Net(AllFine, [AllClear EXCEPT ![Reach(2)] = AllShut[Reach(2)]])} \cup Delays \cup Oddities \cup Faults
=============================================================================
