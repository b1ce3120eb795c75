---------------------------- MODULE MCLogStorage ----------------------------
(***************************************************************************)
(* A log of five entries in four metalogs.  The second metalog orders only *)
(* an entry of another node.                                               *)
(***************************************************************************)
EXTENDS LogStorage

MCCutEnds == <<1, 2, 4, 5>>
MCMyEntries == {0, 2, 3, 4}
=============================================================================
