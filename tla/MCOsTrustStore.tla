--------------------------- MODULE MCOsTrustStore ---------------------------
(***************************************************************************)
(* Two rows, the first with the larger ceiling, against a deadline that    *)
(* lets both have it, one or neither, by when the reader is called.        *)
(***************************************************************************)
EXTENDS OsTrustStore

\* Less than the reserve ahead, and back by more than it.
MCSkews == {-3, 1}
MCCeiling == [r \in Rows |-> 4 - r]
=============================================================================
