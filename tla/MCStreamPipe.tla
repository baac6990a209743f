---------------------------- MODULE MCStreamPipe ----------------------------
(* StreamPipe with bounds for TLC: words of 3 bytes; two sends of which one *)
(* ends within a word that is not all mapped, and a receiver that has room    *)
(* for all bytes but not for a last whole word.                               *)
EXTENDS StreamPipe

CONSTANTS s1, s2

MCSize == s1 :> 4 @@ s2 :> 5
MCRoom == s1 :> 6 @@ s2 :> 5
=============================================================================
