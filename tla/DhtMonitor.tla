----------------------------- MODULE DhtMonitor -----------------------------
(***************************************************************************)
(* main_tracer.py on DHT traffic (trace_dht_req, trace_dht_resp), the DNS  *)
(* answers that name DHT nodes (trace_dns), and the peers the protocol     *)
(* parsers report (init_peer): which nodes and peers become known, from    *)
(* whom, and which nodes count as bootstrap nodes.                         *)
(*                                                                         *)
(* A client queries nodes; nodes answer.  The capture sees any message     *)
(* that has been sent, in any order, more than once or never.              *)
(***************************************************************************)
EXTENDS Registry, Integers, Sequences, FiniteSets

CONSTANTS
  Client,        \* contact of the querying host
  Tids,          \* transaction ids
  Ips,           \* addresses, and the address of each contact
  IpOf,
  IdOf,          \* IdOf[n]: id of the node at n
  Knows,         \* Knows[n][h]: peers a node returns for an info hash
  Closer,        \* Closer[n]: nodes it returns
  Cutoff,        \* -bootstrap-cutoff
  MaxQueries,    \* queries the client sends (bound)
  MaxDatagrams,  \* datagrams captured (bound)
  NoHash

Nodes == Contacts \ {Client}

Kinds == {"ping", "get_peers", "announce_peer"}

ASSUME DhtAssumption ==
  /\ Client \in Contacts /\ NoHash \notin Hashes
  /\ IpOf \in [Contacts -> Ips] /\ IdOf \in [Contacts -> NodeIds]
  /\ Knows \in [Contacts -> [Hashes -> SUBSET Contacts]]
  /\ Closer \in [Contacts -> SUBSET Contacts]
  /\ Cutoff \in Nat /\ MaxQueries \in Nat /\ MaxDatagrams \in Nat

VARIABLES
  queries,       \* queries the client has sent
  registry,      \* see Registry
  transactions,  \* dht_transactions: the node asked and the tid, and the hash
  bootstrap,     \* dht_bootstrap_nodes
  lastUpn,       \* last_bootstrap_upn
  upn,           \* UDP datagrams seen
  dnsDht,        \* keys of dns_possible_dht
  told           \* history: contacts that nodes have named in traced answers

vars == <<queries, registry, transactions, bootstrap, lastUpn, upn, dnsDht, told>>

Queries == [dst : Nodes, tid : Tids, kind : Kinds, hash : Hashes \cup {NoHash}]

TransKey(q) == [node |-> q.dst, tid |-> q.tid]

Init ==
  /\ queries = {}
  /\ registry = EmptyRegistry
  /\ transactions = {}
  /\ bootstrap = << >>
  /\ lastUpn = -1
  /\ upn = 0
  /\ dnsDht = {}
  /\ told = {}

\* The client (external): a transaction id is not used twice with one node.
SendQuery(q) ==
  /\ \A other \in queries : TransKey(other) # TransKey(q)
  /\ q.hash = NoHash <=> q.kind = "ping"
  /\ queries' = queries \cup {q}
  /\ UNCHANGED <<registry, transactions, bootstrap, lastUpn, upn, dnsDht, told>>
-----------------------------------------------------------------------------
\* Slip: whether the node was known is asked after it has been added.
IsBootstrapAnyContact(q) ==
  \/ lastUpn = -1 \/ upn' - Cutoff < lastUpn
  \/ Cutoff = 0 /\ IpOf[q.dst] \in dnsDht

\* A node is not among those known, and the burst of first contacts is not
\* over; or its name was looked up, when that is all that counts.
IsBootstrap(q) ==
  \/ /\ q.dst \notin registry.nodes
     /\ lastUpn = -1 \/ upn' - Cutoff < lastUpn
  \/ Cutoff = 0 /\ IpOf[q.dst] \in dnsDht

NoIds == [c \in Contacts |-> NoId]

\* trace_dht_req.
DhtRequest(q) ==
  LET contacted == AddNodes(registry, {q.dst}, NoIds)
      announcer == <<q.hash, Client>>
  IN  /\ upn' = upn + 1
      /\ transactions' =
           {t \in transactions : t.key # TransKey(q)}
             \cup {[key |-> TransKey(q), hash |-> q.hash]}
      /\ registry' = IF q.kind = "announce_peer"
           THEN AddKnown(AddPeers(contacted, {announcer}), q.dst, {announcer})
           ELSE contacted
      /\ IF q.kind = "get_peers" /\ IsBootstrap(q)
           THEN bootstrap' = Append(bootstrap, q.dst) /\ lastUpn' = upn'
           ELSE UNCHANGED <<bootstrap, lastUpn>>
      /\ UNCHANGED <<queries, dnsDht, told>>

\* What the node that received q answers (external).
Values(q) == IF q.kind = "get_peers" THEN {<<q.hash, c>> : c \in Knows[q.dst][q.hash]} ELSE {}
Neighbours(q) == IF q.kind = "get_peers" THEN Closer[q.dst] ELSE {}

\* Slip: the transaction id alone identifies the request.
AnsweredByTid(q) == {t \in transactions : t.key.tid = q.tid}

\* The transaction an answer to q completes: it is looked up under the
\* reversed contacts and the transaction id.
Answered(q) == {t \in transactions : t.key = TransKey(q)}

\* extract_peers for the node asked: the hash is the one of the request.
Recorded(r, node, hash, contacts) ==
  LET S == {<<hash, c>> : c \in contacts}
  IN  AddKnown(AddPeers(r, S), node, S)

\* trace_dht_resp.  An answer to a request that was not seen, or has been
\* answered, changes nothing.
UnsolicitedResponse(q) ==
  /\ Answered(q) = {}
  /\ upn' = upn + 1
  /\ UNCHANGED <<queries, registry, transactions, bootstrap, lastUpn, dnsDht, told>>

DhtResponse(q) ==
  \E t \in Answered(q) :
    LET named  == SetNodeId(registry, t.key.node, IdOf[q.dst])
        peered == Recorded(named, t.key.node, t.hash, {p[2] : p \in Values(q)})
    IN  /\ upn' = upn + 1
        /\ transactions' = transactions \ {t}
        /\ registry' = IF t.hash = NoHash THEN named
                       ELSE AddNodes(peered, Neighbours(q), IdOf)
        /\ told' = told \cup Neighbours(q)
        /\ UNCHANGED <<queries, bootstrap, lastUpn, dnsDht>>

\* trace_dns on an answer whose name mentions `torrent' or `dht'.
DnsAnswer(ip) ==
  /\ ip \notin dnsDht
  /\ upn' = upn + 1
  /\ dnsDht' = dnsDht \cup {ip}
  /\ UNCHANGED <<queries, registry, transactions, bootstrap, lastUpn, told>>

\* BitTorrentParser.init_peer, on a handshake over TCP or over uTP, which
\* counts as a datagram.
PeerHandshake(p) ==
  /\ p \notin registry.peers
  /\ registry' = AddPeers(registry, {p})
  /\ upn' \in {upn, upn + 1}
  /\ UNCHANGED <<queries, transactions, bootstrap, lastUpn, dnsDht, told>>

\* A datagram that is none of these.
OtherDatagram ==
  /\ upn' = upn + 1
  /\ UNCHANGED <<queries, registry, transactions, bootstrap, lastUpn, dnsDht, told>>

Capture ==
  \/ \E q \in queries : DhtRequest(q) \/ DhtResponse(q) \/ UnsolicitedResponse(q)
  \/ \E ip \in Ips : DnsAnswer(ip)
  \/ \E p \in Peers : PeerHandshake(p)
  \/ OtherDatagram

Next ==
  \/ Cardinality(queries) < MaxQueries /\ \E q \in Queries : SendQuery(q)
  \/ upn < MaxDatagrams /\ Capture

Spec == Init /\ [][Next]_vars
-----------------------------------------------------------------------------
Transactions == [key : [node : Nodes, tid : Tids], hash : Hashes \cup {NoHash}]

\* The state keeps its shape.
TypeOK ==
  /\ queries \subseteq Queries
  /\ registry \in Registries
  /\ transactions \subseteq Transactions
  /\ bootstrap \in Seq(Nodes) /\ lastUpn \in Nat \cup {-1} /\ upn \in Nat
  /\ dnsDht \subseteq Ips /\ told \subseteq Contacts

\* The four indexes of peers describe the same peers, and a peer is linked to
\* the DHT node at its contact exactly when both are known, in whichever order
\* a query, an answer that names either, and a handshake are seen.
RegistryConsistent == IndexesMatch(registry)

\* The report of a node's peers and the report of a peer's sources agree.
SourcesConsistent == SourcesMatch(registry)

\* A node is credited only with peers it returned for that hash, or with a
\* client that announced itself to it, whatever was lost, repeated or late.
KnownIsTrue ==
  \A k \in registry.known :
    LET hash == k[2][1]
        contact == k[2][2]
    IN  \/ contact \in Knows[k[1]][hash]
        \/ contact = Client /\ \E q \in queries :
             q.kind = "announce_peer" /\ q.dst = k[1] /\ q.hash = hash

\* A node is reported under its own id, be it learned from its own answer or
\* from the answer of another.
NodeIdRight == \A n \in Contacts : registry.nodeId[n] \in {NoId, IdOf[n]}

\* "DHT nodes that haven't been discovered from another known DHT node"
\* (dht_bootstrap_nodes).
BootstrapUndiscovered ==
  [][bootstrap' # bootstrap => bootstrap'[Len(bootstrap')] \notin told]_vars
=============================================================================
