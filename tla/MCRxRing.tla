------------------------------ MODULE MCRxRing ------------------------------
(* Small instances of RxRing for TLC.                                      *)
EXTENDS RxRing

CONSTANTS f1, f2

MCFrames == {f1, f2}
=============================================================================
