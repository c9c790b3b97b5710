----------------------------- MODULE MCDiscovery -----------------------------
(* Two nodes on one host, of which the second one gets a port that is not scanned, and
   one on another host.  The addresses 6 and 7 are the subnet, which the two tries of a scan
   suffice for. *)
EXTENDS Discovery

MCHostOf == (1 :> "a") @@ (2 :> "a") @@ (3 :> "b")
MCAddresses == [h \in {"a", "b"} |-> IF h = "a" THEN <<9, 6>> ELSE <<7>>]
MCForeign == {<<"a", 2>>}

=============================================================================
