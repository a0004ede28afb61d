------------------------- MODULE MCModelResolution --------------------------
(***************************************************************************)
(* An instance of ModelResolution for TLC: strings of two letters, one of  *)
(* them in two cases, and the hyphen.  Among the models are one that is    *)
(* empty, one that is nothing but a hyphen, two spellings of a key, and a  *)
(* model that is a subsequence of another; among the barcodes some that    *)
(* hold a wanted letter too early, twice or not at all.                    *)
(***************************************************************************)
EXTENDS ModelResolution

MCLower == [c \in Char |-> IF c = "A" THEN "a" ELSE c]

MCModels == {<<>>, <<"-">>, <<"a", "b">>, <<"A", "-", "b">>, <<"b", "b">>}

MCBarcodes == {<<"-">>, <<"A", "b">>, <<"a", "a", "b">>, <<"b", "a", "b">>,
               <<"b", "-", "b", "a">>, <<"a", "-", "a", "b">>}

MCTyped == {<<"a", "b">>, <<"-">>}
=============================================================================
