------------------------------ MODULE MCViewer ------------------------------
(* Viewer for TLC: the nodes that may be added are interchangeable.  What is *)
(* typed has a colon in it, as host:port has, and so has what a label is.    *)
EXTENDS Viewer, TLC

SomeTexts == {<<"h", "p">>}

NodeSymmetry == Permutations(ConfNode)
=============================================================================
