------------------------------ MODULE MCUpload ------------------------------
(* Upload for TLC.                                                         *)
EXTENDS Upload, TLC

CONSTANTS a, b, c, h1, h2

\* Every content on both nodes; one content on two nodes of three.
OnBoth == h1 :> <<a, b>> @@ h2 :> <<a, b>>
TwoOfThree == h1 :> <<b, c>>

AllModes == <<"primarySplay", "splay", "chain">>
ChainOnly == <<"chain">>
=============================================================================
