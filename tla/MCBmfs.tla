-------------------------------- MODULE MCBmfs --------------------------------
(* A small instance of Bmfs: three names and three records on a disk of six *)
(* blocks, sizes in words of eight bits.                                    *)
EXTENDS Bmfs

CONSTANTS f1, f2, f3, x, y
MCFileName == {f1, f2, f3}
MCDatum == {x, y}
MCSizeArgs == {[digits |-> <<9, 6>>, unit |-> 0], [digits |-> <<0, 1, 1>>, unit |-> 2]}
=============================================================================
