---------------------------- MODULE MCAnswering ----------------------------
(* Paper 1 has a tree of two levels, which a rebuild replaces by a root;   *)
(* paper 2 has one root.                                                   *)
EXTENDS Answering

mcPaperOf  == <<1, 1, 1, 2, 1>>
mcParentOf == <<0, 1, 1, 0, 0>>
mcDepthOf  == <<0, 1, 1, 0, 0>>
mcBuildOf  == <<1, 1, 1, 1, 2>>
=============================================================================
