------------------------------ MODULE MCIndex ------------------------------
(***************************************************************************)
(* A log of four entries from two shards, ordered by three metalogs; the   *)
(* key "a" is missing from the second entry.                               *)
(***************************************************************************)
EXTENDS IndexLive

MCLogKeys == <<{"a"}, {"b"}, {"a", "b"}, {"a"}>>
MCLogShards == <<1, 2, 1, 2>>
MCCutEnds == <<1, 2, 4>>
=============================================================================
