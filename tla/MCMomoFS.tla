------------------------------ MODULE MCMomoFS ------------------------------
(* Three trees found at mount: an empty one; two directories, one of which   *)
(* holds a file whose content a second file shares; and a directory beside   *)
(* objects written natively under a path no manifest knows.                  *)
EXTENDS MomoFS

CONSTANTS a, b, c1, m1

File1 == File(c1, m1)

Bare == [dirs |-> Root :> Clean, files |-> <<>>, native |-> <<>>]

Nested ==
  [dirs |-> Root :> (a :> Dir(m1) @@ b :> Dir(m1))
            @@ <<a>> :> (a :> File1 @@ b :> File1)
            @@ <<b>> :> Clean,
   files |-> <<a, a>> :> c1 @@ <<a, b>> :> c1,
   native |-> <<>>]

Mixed ==
  [dirs |-> Root :> (a :> File1), files |-> <<a>> :> c1, native |-> <<b, a>> :> c1]

MCStarts == {Bare, Nested, Mixed}
=============================================================================
