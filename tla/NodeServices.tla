---------------------------- MODULE NodeServices ----------------------------
(***************************************************************************)
(* The services of NodeCore and the object listing, which keeps no state   *)
(* between its pages.  Because no service reads what another writes, a     *)
(* behaviour is checked with one of them moving, chosen at the start; each *)
(* step of it is a step of NodeCore or of the listing.                     *)
(***************************************************************************)
EXTENDS NodeCore

CONSTANTS Names, Queries, Decodes, MaxWrites

ASSUME QueriesAssumption == \A q \in Queries : q.maxKeys \in Nat \ {0}

VARIABLES
  service,       \* the service that moves
  objects, query, resume, contents, prefixes, phase, always, ever, writes

Listing == INSTANCE S3Listing

listingVars == <<objects, query, resume, contents, prefixes, phase, always, ever, writes>>
nodeVars == <<service, coreVars, listingVars>>

NodeTypeOK ==
  /\ service \in {"s3", "listing", "mode", "registry"}
  /\ TypeOK
  /\ Listing!TypeOK
  /\ Mode!TypeOK
  /\ Registry!TypeOK

\* A service that does not move starts in one of its initial states.
NodeInit ==
  /\ service \in {"s3", "listing", "mode", "registry"}
  /\ Init
  /\ Listing!Init
  /\ service # "listing" => objects = {} /\ query = CHOOSE q \in Queries : TRUE
  /\ Mode!Init
  /\ service # "mode" =>
       factor = (CHOOSE f \in Factors : TRUE) /\ floor = CHOOSE f \in Floors : f <= factor
  /\ Registry!Init

NodeNext ==
  \/ /\ service = "s3"
     /\ Next
     /\ UNCHANGED <<service, listingVars, modeVars, registryVars>>
  \/ /\ service = "listing"
     /\ Listing!Next
     /\ UNCHANGED <<service, vars, modeVars, registryVars>>
  \/ /\ service = "mode"
     /\ Mode!Next
     /\ UNCHANGED <<service, vars, listingVars, registryVars>>
  \/ /\ service = "registry"
     /\ Registry!Next
     /\ UNCHANGED <<service, vars, listingVars, modeVars>>

NodeSpec == NodeInit /\ [][NodeNext]_nodeVars

----------------------------------------------------------------------------
\* A paged listing reports each lasting name once (see S3Listing).
ListedOnce == Listing!ListedOnce
====
