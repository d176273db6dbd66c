--------------------------- MODULE MCSectionTrees ---------------------------
(* One paper with full text and one with its abstract only; a document one *)
(* level too deep, a flat one and one without a div.                       *)
EXTENDS SectionTrees, TLC

mcDocuments == {<<0, 1, 2, 3>>, <<0, 0>>, <<>>}
mcSymmetry  == Permutations(Indexers)
=============================================================================
