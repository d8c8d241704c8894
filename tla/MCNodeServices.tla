--------------------------- MODULE MCNodeServices ---------------------------
(***************************************************************************)
(* Instances of NodeServices for TLC.                                      *)
(***************************************************************************)
EXTENDS NodeServices, TLC

CONSTANTS t1, splay, chain

\* PUTs without headers, with a type, with a right checksum, with a wrong one.
MCHeaderKinds == {<<Absent, "none">>, <<t1, "none">>, <<Absent, "right">>, <<t1, "wrong">>}

\* Characters: 1 is the delimiter, which sorts before the letters 2 and 3.
MCNames == {<<2>>, <<2, 1>>, <<2, 1, 2>>, <<2, 1, 3>>, <<2, 2>>, <<3, 1, 2>>}

MCQueries == [prefix : {<<>>, <<2>>}, delimiter : {<<>>, <<1>>, <<1, 2>>},
              startAfter : {<<>>, <<2, 1, 2>>, <<2, 2>>}, maxKeys : {1, 2}]

\* One name of the start-after queries is valid base64.
MCDecodes == [s \in {<<2, 2>>} |-> [mode |-> "key", key |-> <<3>>]]

MCModes == {None, splay, chain}
MCOrder == <<splay, chain, None>>
MCPurposes == <<"auth", "e2ee">>

MCSymmetry == Permutations(Keys) \cup Permutations(Bodies) \cup Permutations(Handlers)
====
