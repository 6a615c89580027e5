--------------------------- MODULE MCSegmentation ---------------------------
(***************************************************************************)
(* The letters a, h and z of the pinyin table, with the fuzzy rules of     *)
(* their initials.                                                         *)
(***************************************************************************)
EXTENDS Segmentation

CONSTANTS a, h, z

MCLetter   == {a, h, z}
MCSyllable == {<<a>>, <<h, a>>, <<z, a>>, <<z, h, a>>}
MCRules    == <<[from |-> <<z, h>>, to |-> <<z>>], [from |-> <<z>>, to |-> <<z, h>>]>>
=============================================================================
