------------------------- MODULE MCIdentityResolution -------------------------
(* Small instances of IdentityResolution.                                   *)
EXTENDS IdentityResolution

CONSTANTS x, z, y, t, k, plain, url

Dois == {None, [is |-> x, spelled |-> plain], [is |-> x, spelled |-> url],
         [is |-> z, spelled |-> plain]}
Arxivs == {None, [is |-> y, spelled |-> plain], [is |-> y, spelled |-> url]}

AllCandidates == [doi : Dois, arxiv : Arxivs, title : {t}, byline : {None, k}]
=============================================================================
