---------------------------- MODULE PassiveListing ----------------------------
(***************************************************************************)
(* PASV and then a listing: the search for a port (Ports), after which the *)
(* listing is sent (Listings). A refused PASV leaves the active mode, as   *)
(* before it, in which a listing may begin too. HTTP needs no port.        *)
(***************************************************************************)
EXTENDS Ports, Listings

vars == <<ports, listing>>

Init == PortsInit /\ ListingInit

Next ==
  \/ PortsNext /\ UNCHANGED listing
  \/ search \in {"no", "bound"} /\ ListingNext /\ UNCHANGED ports

Spec == Init /\ [][Next]_vars
=============================================================================
