------------------------------ MODULE MCEngine ------------------------------
(***************************************************************************)
(* A profile with one name to look up and two https targets, so that one   *)
(* capture can fail while three others are out.  Every severity is reached *)
(* by some check, and "ok" and "unknown" by each of them.                  *)
(***************************************************************************)
EXTENDS Engine
CONSTANTS h1, t1, t2

MCVerdicts == [c \in Checks |-> CASE c = h1 -> {"blocker", "unknown", "ok"}
                                  [] c = "truststore" -> {"degraded", "unknown", "ok"}
                                  [] OTHER -> {"unknown", "ok"}]
=============================================================================
