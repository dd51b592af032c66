---------------------------- MODULE MCDhtMonitor ----------------------------
(***************************************************************************)
(* A client and two nodes, one hash.  The first node returns the second    *)
(* one, and as a peer both the second node's contact and the client's; the *)
(* second returns itself as a peer.                                        *)
(***************************************************************************)
EXTENDS DhtMonitor, TLC

CONSTANTS client, n1, n2, h, i1, i2, i3, ip1, ip2, ip3

MCContacts == {client, n1, n2}
MCHashes == {h}
MCNodeIds == {i1, i2, i3}
MCIps == {ip1, ip2, ip3}
MCIdOf == (client :> i3) @@ (n1 :> i1) @@ (n2 :> i2)
MCIpOf == (client :> ip3) @@ (n1 :> ip1) @@ (n2 :> ip2)
MCKnows == (client :> (h :> {})) @@ (n1 :> (h :> {client, n2})) @@ (n2 :> (h :> {n2}))
MCCloser == (client :> {}) @@ (n1 :> {n2}) @@ (n2 :> {})
=============================================================================
