--------------------------- MODULE MCWorkVersions ---------------------------
(* Works of a few characters; documents of one and of two blocks.          *)
EXTENDS WorkVersions, TLC

CONSTANTS char, docOne, docTwo

MCDeliverables == {<<char>>, <<char, Break, char>>, <<char, char, char>>}
MCAdditions == {<<char>>}
MCAnchors == {<<char>>, <<Break>>, <<char, char>>, <<char, Break>>}
MCBlocks == {<<char>>, <<char, char, char>>}
MCBlockCount == docOne :> 1 @@ docTwo :> 2
=============================================================================
