------------------------------ MODULE Registry ------------------------------
(***************************************************************************)
(* What the Monitor of main_tracer.py knows about torrents, peers and DHT  *)
(* nodes, as one record:                                                   *)
(*   peers      peer_dicts: pairs <<info hash, contact>>, one Peer each    *)
(*   byIps      peers_by_ips: the hashes with a peer at a contact          *)
(*   torrents   torrents: hashes                                           *)
(*   nodes      dht_nodes_by_ips: contacts, one DHTNode each               *)
(*   nodeId     DHTNode.node_id                                            *)
(*   linked     peers with own_dht_node set (to the node of their contact) *)
(*   known      DHTNode.known_peers: <<node, peer>>                        *)
(*   fromNodes  Peer.from_dht_nodes: <<node, peer>>                        *)
(* Nothing is ever removed, so a contact stands for its object.  The lists *)
(* of the code are only tested for membership before an append, and are    *)
(* sets here.                                                              *)
(***************************************************************************)

CONSTANTS
  Contacts,   \* <ip, port>
  Hashes,     \* info hashes
  NodeIds,    \* node ids
  NoId        \* node_id of a node that has not been heard of by id

ASSUME NoIdAssumption == NoId \notin NodeIds

Peers == Hashes \X Contacts

EmptyRegistry ==
  [peers |-> {}, byIps |-> [c \in Contacts |-> {}], torrents |-> {},
   nodes |-> {}, nodeId |-> [c \in Contacts |-> NoId], linked |-> {},
   known |-> {}, fromNodes |-> {}]

\* Slip: a new peer is not looked up among the nodes.
AddPeersUnlinked(r, S) ==
  [r EXCEPT !.peers = @ \cup S,
            !.byIps = [c \in Contacts |-> @[c] \cup {h \in Hashes : <<h, c>> \in S}],
            !.torrents = @ \cup {p[1] : p \in S}]

\* get_or_add_peer for every peer of S: only a new peer is entered into the
\* index by contact and linked to the node that lives there.
AddPeers(r, S) ==
  LET new == S \ r.peers
  IN  [r EXCEPT !.peers = @ \cup S,
                !.byIps = [c \in Contacts |-> @[c] \cup {h \in Hashes : <<h, c>> \in new}],
                !.torrents = @ \cup {p[1] : p \in S},
                !.linked = @ \cup {p \in new : p[2] \in r.nodes}]

\* get_or_add_node for every contact of N: a new node takes its id from ids,
\* and the peers known at the contact are linked whether it is new or not.
AddNodes(r, N, ids) ==
  [r EXCEPT !.nodes = @ \cup N,
            !.nodeId = [c \in Contacts |-> IF c \in N \ r.nodes THEN ids[c] ELSE @[c]],
            !.linked = @ \cup {p \in Peers : p[2] \in N /\ p[1] \in r.byIps[p[2]]}]

\* Slip: a peer keeps the first node that knew it.
AddKnownFirstSource(r, node, S) ==
  LET new == {<<node, p>> : p \in S} \ r.known
  IN  [r EXCEPT !.known = @ \cup new,
                !.fromNodes = @ \cup {k \in new : \A old \in @ : old[2] # k[2]}]

\* DHTNode.add_known_peer: entered on both sides, or, when the node has the
\* peer already, on neither.
AddKnown(r, node, S) ==
  LET new == {<<node, p>> : p \in S} \ r.known
  IN  [r EXCEPT !.known = @ \cup new, !.fromNodes = @ \cup new]

\* The node's id is overwritten by the one it answers with.
SetNodeId(r, node, id) == [r EXCEPT !.nodeId[node] = id]
-----------------------------------------------------------------------------
Registries ==
  [peers : SUBSET Peers, byIps : [Contacts -> SUBSET Hashes], torrents : SUBSET Hashes,
   nodes : SUBSET Contacts, nodeId : [Contacts -> NodeIds \cup {NoId}],
   linked : SUBSET Peers, known : SUBSET (Contacts \X Peers),
   fromNodes : SUBSET (Contacts \X Peers)]

\* The four indexes describe the same peers, and a peer is linked to a node
\* exactly when both are known at its contact, whichever was seen first.
IndexesMatch(r) ==
  /\ \A h \in Hashes : \A c \in Contacts : <<h, c>> \in r.peers <=> h \in r.byIps[c]
  /\ r.torrents = {p[1] : p \in r.peers}
  /\ r.linked = {p \in r.peers : p[2] \in r.nodes}

\* What a node knows and where a peer was learned from mirror one another,
\* and speak of nodes and peers that are in the registry.
SourcesMatch(r) ==
  /\ r.known = r.fromNodes
  /\ \A k \in r.known : k[1] \in r.nodes /\ k[2] \in r.peers
=============================================================================
