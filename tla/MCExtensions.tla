---------------------------- MODULE MCExtensions ----------------------------
EXTENDS Extensions

(* d requires p: its first version not the second of p, its second version   *)
(* any; the third version of p requires d.                                   *)
CONSTANTS p, d
MCArchives == {<<p, 1>>, <<p, 2>>, <<p, 3>>, <<d, 1>>, <<d, 2>>}
MCNeeds == {<<d, 1, p, 1>>, <<d, 1, p, 3>>, <<d, 2, p, 1>>, <<d, 2, p, 2>>,
            <<d, 2, p, 3>>, <<p, 3, d, 1>>, <<p, 3, d, 2>>}
=============================================================================
