------------------------------ MODULE MCStartup ------------------------------
(* The processes of each kind are alike. *)
EXTENDS Startup, TLC

CONSTANTS s1, s2, s3, w1, w2, w3, c1, c2

Alike == Permutations({s1, s2, s3}) \cup Permutations({w1, w2, w3}) \cup Permutations({c1, c2})
=============================================================================
