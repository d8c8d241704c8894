----------------------------- MODULE MCVersions -----------------------------
(* Versions for TLC.                                                       *)
EXTENDS Versions, TLC

\* Multipart completions: retention, a hold, and a deadline without a mode.
Retained == [mode |-> "GOVERNANCE", until |-> 2, hold |-> FALSE]
Held == [mode |-> "none", until |-> 0, hold |-> TRUE]
DateOnly == [mode |-> "none", until |-> 3, hold |-> FALSE]

NoHeaders == {}
SomeHeaders == {Retained, Held}
BareHeaders == {DateOnly}
=============================================================================
