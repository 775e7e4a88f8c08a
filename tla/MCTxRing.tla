------------------------------ MODULE MCTxRing ------------------------------
(* Small instances of TxRing for TLC.                                      *)
EXTENDS TxRing, TLC

CONSTANTS s1, s2

MCSkbs == {s1, s2}

(* The socket buffers are interchangeable; used for safety runs only.      *)
SkbSymmetry == Permutations(MCSkbs)
=============================================================================
