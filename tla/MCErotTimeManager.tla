--------------------------- MODULE MCErotTimeManager ---------------------------
(* Three endpoints of two ERoTs: one ERoT is reached by two media.         *)
EXTENDS ErotTimeManager, TLC

CONSTANTS e1, e2, e3, u1, u2

MCUuidOf == (e1 :> u1) @@ (e2 :> u1) @@ (e3 :> u2)
MCRank == (e1 :> 0) @@ (e2 :> 4) @@ (e3 :> 1)
================================================================================
