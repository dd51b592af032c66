-------------------------- MODULE DhtMonitorProofs --------------------------
(***************************************************************************)
(* The indexes of the registry match, and what nodes know and where peers  *)
(* were learned from mirror one another, for every set of contacts, hashes *)
(* and answers and for captures of any length.                             *)
(*                                                                         *)
(* One lemma for each operator of Registry says that it keeps Sound;       *)
(* every step of the monitor is a composition of them.                     *)
(***************************************************************************)
EXTENDS DhtMonitor, TLAPS

Sound(r) == r \in Registries /\ IndexesMatch(r) /\ SourcesMatch(r)

\* A registry with a field replaced is a registry.
LEMMA FieldUpdate ==
  ASSUME NEW r \in Registries
  PROVE  /\ \A v \in SUBSET Peers : [r EXCEPT !.peers = v] \in Registries
         /\ \A v \in SUBSET Peers : [r EXCEPT !.linked = v] \in Registries
         /\ \A v \in SUBSET Hashes : [r EXCEPT !.torrents = v] \in Registries
         /\ \A v \in SUBSET Contacts : [r EXCEPT !.nodes = v] \in Registries
         /\ \A v \in SUBSET (Contacts \X Peers) :
              [r EXCEPT !.known = v] \in Registries /\ [r EXCEPT !.fromNodes = v] \in Registries
         /\ \A v \in [Contacts -> SUBSET Hashes] : [r EXCEPT !.byIps = v] \in Registries
         /\ \A v \in [Contacts -> NodeIds \cup {NoId}] : [r EXCEPT !.nodeId = v] \in Registries
  BY DEF Registries

\* get_or_add_peer keeps the indexes of peers and the links to nodes.
LEMMA AddPeersSound ==
  ASSUME NEW r, Sound(r), NEW S \in SUBSET Peers
  PROVE  /\ Sound(AddPeers(r, S))
         /\ AddPeers(r, S).peers = r.peers \cup S
         /\ AddPeers(r, S).nodes = r.nodes
         /\ AddPeers(r, S).known = r.known /\ AddPeers(r, S).nodeId = r.nodeId
<1> DEFINE new == S \ r.peers
           q == AddPeers(r, S)
<1>1. r \in Registries
  BY DEF Sound
<1>2. /\ q.peers = r.peers \cup S
      /\ q.byIps = [c \in Contacts |-> r.byIps[c] \cup {h \in Hashes : <<h, c>> \in new}]
      /\ q.torrents = r.torrents \cup {p[1] : p \in S}
      /\ q.linked = r.linked \cup {p \in new : p[2] \in r.nodes}
      /\ q.nodes = r.nodes /\ q.nodeId = r.nodeId
      /\ q.known = r.known /\ q.fromNodes = r.fromNodes
  BY <1>1 DEF AddPeers, Registries
<1> HIDE DEF q
<1>3. \A p \in S : p[1] \in Hashes /\ p[2] \in Contacts /\ p = <<p[1], p[2]>>
  BY DEF Peers
<1>4. q.torrents \in SUBSET Hashes
  BY <1>1, <1>2, <1>3 DEF Registries
<1>5. q.byIps \in [Contacts -> SUBSET Hashes]
  BY <1>1, <1>2 DEF Registries
<1>6. q \in Registries
  <2> DEFINE r1 == [r EXCEPT !.peers = q.peers]
             r2 == [r1 EXCEPT !.byIps = q.byIps]
             r3 == [r2 EXCEPT !.torrents = q.torrents]
             r4 == [r3 EXCEPT !.linked = q.linked]
  <2>0. q.peers \in SUBSET Peers /\ q.linked \in SUBSET Peers
    BY <1>1, <1>2 DEF Registries
  <2>1. r1 \in Registries
    BY <1>1, <2>0, FieldUpdate
  <2>2. r2 \in Registries
    BY <2>1, <1>5, FieldUpdate
  <2>3. r3 \in Registries
    BY <2>2, <1>4, FieldUpdate
  <2>4. r4 \in Registries
    BY <2>3, <2>0, FieldUpdate
  <2>5. q = r4
    BY <1>2 DEF q, AddPeers
  <2> QED
    BY <2>4, <2>5
<1>7. IndexesMatch(q)
  <2>1. ASSUME NEW h \in Hashes, NEW c \in Contacts
        PROVE  <<h, c>> \in q.peers <=> h \in q.byIps[c]
    BY <1>2 DEF Sound, IndexesMatch
  <2>2. q.torrents = {p[1] : p \in q.peers}
    BY <1>2 DEF Sound, IndexesMatch
  <2>3. q.linked = {p \in q.peers : p[2] \in q.nodes}
    BY <1>2 DEF Sound, IndexesMatch
  <2> QED
    BY <2>1, <2>2, <2>3 DEF IndexesMatch
<1>8. SourcesMatch(q)
  BY <1>2 DEF Sound, SourcesMatch
<1> QED
  BY <1>2, <1>6, <1>7, <1>8 DEF Sound, q

\* get_or_add_node links the peers at its contact, so that a peer seen before
\* its node is linked as one seen after it is.
LEMMA AddNodesSound ==
  ASSUME NEW r, Sound(r), NEW N \in SUBSET Contacts,
         NEW ids \in [Contacts -> NodeIds \cup {NoId}]
  PROVE  /\ Sound(AddNodes(r, N, ids))
         /\ AddNodes(r, N, ids).nodes = r.nodes \cup N
         /\ AddNodes(r, N, ids).known = r.known
         /\ \A c \in Contacts : AddNodes(r, N, ids).nodeId[c] \in {r.nodeId[c], ids[c]}
<1> DEFINE q == AddNodes(r, N, ids)
<1>1. r \in Registries
  BY DEF Sound
<1>2. /\ q.nodes = r.nodes \cup N
      /\ q.nodeId = [c \in Contacts |-> IF c \in N \ r.nodes THEN ids[c] ELSE r.nodeId[c]]
      /\ q.linked = r.linked \cup {p \in Peers : p[2] \in N /\ p[1] \in r.byIps[p[2]]}
      /\ q.peers = r.peers /\ q.byIps = r.byIps /\ q.torrents = r.torrents
      /\ q.known = r.known /\ q.fromNodes = r.fromNodes
  BY <1>1 DEF AddNodes, Registries
<1> HIDE DEF q
<1>3. q.nodeId \in [Contacts -> NodeIds \cup {NoId}]
  BY <1>1, <1>2 DEF Registries
<1>4. q \in Registries
  <2> DEFINE r1 == [r EXCEPT !.nodes = q.nodes]
             r2 == [r1 EXCEPT !.nodeId = q.nodeId]
             r3 == [r2 EXCEPT !.linked = q.linked]
  <2>0. q.nodes \in SUBSET Contacts /\ q.linked \in SUBSET Peers
    BY <1>1, <1>2 DEF Registries
  <2>1. r1 \in Registries
    BY <1>1, <2>0, FieldUpdate
  <2>2. r2 \in Registries
    BY <2>1, <1>3, FieldUpdate
  <2>3. r3 \in Registries
    BY <2>2, <2>0, FieldUpdate
  <2>4. q = r3
    BY <1>2 DEF q, AddNodes
  <2> QED
    BY <2>3, <2>4
<1>5. q.linked = {p \in q.peers : p[2] \in q.nodes}
  <2>1. \A p \in Peers : p[1] \in Hashes /\ p[2] \in Contacts /\ p = <<p[1], p[2]>>
    BY DEF Peers
  <2>2. \A p \in Peers : p[1] \in r.byIps[p[2]] <=> p \in r.peers
    BY <2>1 DEF Sound, IndexesMatch
  <2>3. r.peers \subseteq Peers /\ r.linked = {p \in r.peers : p[2] \in r.nodes}
    BY DEF Sound, Registries, IndexesMatch
  <2> QED
    BY <1>2, <2>2, <2>3
<1>6. IndexesMatch(q)
  BY <1>2, <1>5 DEF Sound, IndexesMatch
<1>7. SourcesMatch(q)
  BY <1>2 DEF Sound, SourcesMatch
<1> QED
  BY <1>2, <1>4, <1>6, <1>7 DEF Sound, q

\* add_known_peer enters a pair on both sides or on neither.
LEMMA AddKnownSound ==
  ASSUME NEW r, Sound(r), NEW node \in r.nodes, NEW S \in SUBSET r.peers
  PROVE  /\ Sound(AddKnown(r, node, S))
         /\ AddKnown(r, node, S).nodes = r.nodes
         /\ AddKnown(r, node, S).nodeId = r.nodeId
         /\ AddKnown(r, node, S).known = r.known \cup {<<node, p>> : p \in S}
<1> DEFINE new == {<<node, p>> : p \in S} \ r.known
           q == AddKnown(r, node, S)
<1>1. r \in Registries
  BY DEF Sound
<1>2. /\ q.known = r.known \cup new /\ q.fromNodes = r.fromNodes \cup new
      /\ q.nodes = r.nodes /\ q.nodeId = r.nodeId /\ q.linked = r.linked
      /\ q.peers = r.peers /\ q.byIps = r.byIps /\ q.torrents = r.torrents
  BY <1>1 DEF AddKnown, Registries
<1> HIDE DEF q
<1>3. new \subseteq Contacts \X Peers
  BY <1>1 DEF Registries
<1>4. q \in Registries
  <2> DEFINE r1 == [r EXCEPT !.known = q.known]
             r2 == [r1 EXCEPT !.fromNodes = q.fromNodes]
  <2>0. /\ q.known \in SUBSET (Contacts \X Peers)
        /\ q.fromNodes \in SUBSET (Contacts \X Peers)
    BY <1>1, <1>2, <1>3 DEF Registries
  <2>1. r1 \in Registries
    BY <1>1, <2>0, FieldUpdate
  <2>2. r2 \in Registries
    BY <2>0, <2>1, FieldUpdate
  <2>3. q = r2
    BY <1>2 DEF q, AddKnown
  <2> QED
    BY <2>2, <2>3
<1>5. IndexesMatch(q)
  BY <1>2 DEF Sound, IndexesMatch
<1>6. SourcesMatch(q)
  <2>1. \A k \in new : k[1] \in r.nodes /\ k[2] \in r.peers
    OBVIOUS
  <2> QED
    BY <1>2, <2>1 DEF Sound, SourcesMatch
<1> QED
  BY <1>2, <1>4, <1>5, <1>6 DEF Sound, q

\* The id of a node is in no index.
LEMMA SetNodeIdSound ==
  ASSUME NEW r, Sound(r), NEW node \in Contacts, NEW id \in NodeIds
  PROVE  /\ Sound(SetNodeId(r, node, id))
         /\ SetNodeId(r, node, id).nodes = r.nodes
         /\ SetNodeId(r, node, id).known = r.known
         /\ SetNodeId(r, node, id).nodeId = [r.nodeId EXCEPT ![node] = id]
<1> DEFINE q == SetNodeId(r, node, id)
<1>1. r \in Registries
  BY DEF Sound
<1>2. /\ q.nodeId = [r.nodeId EXCEPT ![node] = id]
      /\ q.nodes = r.nodes /\ q.linked = r.linked
      /\ q.peers = r.peers /\ q.byIps = r.byIps /\ q.torrents = r.torrents
      /\ q.known = r.known /\ q.fromNodes = r.fromNodes
  BY <1>1 DEF SetNodeId, Registries
<1> HIDE DEF q
<1>3. q \in Registries
  <2>1. q.nodeId \in [Contacts -> NodeIds \cup {NoId}]
    BY <1>1, <1>2 DEF Registries
  <2>2. q = [r EXCEPT !.nodeId = q.nodeId]
    BY <1>2 DEF q, SetNodeId
  <2> QED
    BY <1>1, <2>1, <2>2, FieldUpdate
<1> QED
  BY <1>2, <1>3 DEF Sound, IndexesMatch, SourcesMatch, q
-----------------------------------------------------------------------------
\* extract_peers keeps the registry sound and credits the node with the
\* contacts of the answer, under the hash of the request.
LEMMA RecordedSound ==
  ASSUME NEW r, Sound(r), NEW node \in r.nodes, NEW hash \in Hashes,
         NEW contacts \in SUBSET Contacts
  PROVE  /\ Sound(Recorded(r, node, hash, contacts))
         /\ Recorded(r, node, hash, contacts).nodes = r.nodes
         /\ Recorded(r, node, hash, contacts).nodeId = r.nodeId
         /\ Recorded(r, node, hash, contacts).known =
              r.known \cup {<<node, <<hash, c>>>> : c \in contacts}
<1> DEFINE S == {<<hash, c>> : c \in contacts}
           peered == AddPeers(r, S)
<1>1. S \in SUBSET Peers
  BY DEF Peers
<1>2. {<<node, p>> : p \in S} = {<<node, <<hash, c>>>> : c \in contacts}
  OBVIOUS
<1> HIDE DEF S
<1>3. /\ Sound(peered) /\ S \in SUBSET peered.peers /\ node \in peered.nodes
      /\ peered.nodes = r.nodes /\ peered.known = r.known /\ peered.nodeId = r.nodeId
  BY <1>1, AddPeersSound
<1> HIDE DEF peered
<1>4. /\ Sound(AddKnown(peered, node, S))
      /\ AddKnown(peered, node, S).nodes = peered.nodes
      /\ AddKnown(peered, node, S).nodeId = peered.nodeId
      /\ AddKnown(peered, node, S).known = peered.known \cup {<<node, p>> : p \in S}
  BY <1>3, AddKnownSound
<1>5. Recorded(r, node, hash, contacts) = AddKnown(peered, node, S)
  BY DEF Recorded, S, peered
<1> QED
  BY <1>2, <1>3, <1>4, <1>5

\* A client does not use a transaction id twice with a node, and the entry of
\* an open transaction is that of a query of the client's.
TransactionsSound ==
  /\ \A q \in queries : q.hash = NoHash <=> q.kind = "ping"
  /\ \A q1, q2 \in queries : TransKey(q1) = TransKey(q2) => q1 = q2
  /\ \A t \in transactions :
       /\ t.key.node \in registry.nodes
       /\ \E q \in queries : t.key = TransKey(q) /\ t.hash = q.hash

\* The inductive invariant.
DInv ==
  /\ TypeOK /\ Sound(registry) /\ TransactionsSound
  /\ KnownIsTrue /\ NodeIdRight

LEMMA DInvInit == Init => DInv
<1> SUFFICES ASSUME Init PROVE DInv
  OBVIOUS
<1>1. EmptyRegistry \in Registries
  BY DEF EmptyRegistry, Registries
<1>2. Sound(EmptyRegistry)
  BY <1>1 DEF Sound, EmptyRegistry, IndexesMatch, SourcesMatch
<1>3. TypeOK
  BY <1>1 DEF Init, TypeOK
<1>4. TransactionsSound /\ KnownIsTrue /\ NodeIdRight
  BY DEF Init, TransactionsSound, KnownIsTrue, NodeIdRight, EmptyRegistry
<1> QED
  BY <1>2, <1>3, <1>4 DEF Init, DInv

\* The client sends a query.
LEMMA DInvSend ==
  ASSUME DInv, NEW q \in Queries, SendQuery(q)
  PROVE  DInv'
<1> USE DEF DInv, SendQuery
<1>1. TypeOK'
  BY DEF TypeOK
<1>2. TransactionsSound'
  BY DEF TransactionsSound
<1>3. KnownIsTrue' /\ NodeIdRight'
  BY DEF KnownIsTrue, NodeIdRight
<1> QED
  BY <1>1, <1>2, <1>3

\* A request is captured.
LEMMA DInvRequest ==
  ASSUME DInv, NEW q \in queries, DhtRequest(q)
  PROVE  DInv'
<1> DEFINE contacted == AddNodes(registry, {q.dst}, NoIds)
           announcer == <<q.hash, Client>>
<1>1. /\ q \in Queries /\ q.dst \in Contacts /\ q.dst \in Nodes
      /\ q.hash = NoHash <=> q.kind = "ping"
  BY DEF DInv, TypeOK, TransactionsSound, Queries, Nodes
<1>2. NoIds \in [Contacts -> NodeIds \cup {NoId}] /\ \A c \in Contacts : NoIds[c] = NoId
  BY DEF NoIds
<1>3. /\ Sound(contacted) /\ contacted.nodes = registry.nodes \cup {q.dst}
      /\ contacted.known = registry.known
      /\ \A c \in Contacts : contacted.nodeId[c] \in {registry.nodeId[c], NoId}
  <2>1. {q.dst} \in SUBSET Contacts /\ Sound(registry)
    BY <1>1 DEF DInv
  <2>2. /\ Sound(contacted) /\ contacted.nodes = registry.nodes \cup {q.dst}
        /\ contacted.known = registry.known
        /\ \A c \in Contacts : contacted.nodeId[c] \in {registry.nodeId[c], NoIds[c]}
    <3>1. NoIds \in [Contacts -> NodeIds \cup {NoId}]
      BY <1>2
    <3>2. Sound(contacted)
      BY <2>1, <3>1, AddNodesSound
    <3>3. contacted.nodes = registry.nodes \cup {q.dst}
      BY <2>1, <3>1, AddNodesSound
    <3>4. contacted.known = registry.known
      BY <2>1, <3>1, AddNodesSound
    <3>5. \A c \in Contacts : contacted.nodeId[c] \in {registry.nodeId[c], NoIds[c]}
      BY <2>1, <3>1, AddNodesSound
    <3> QED
      BY <3>2, <3>3, <3>4, <3>5
  <2> HIDE DEF contacted
  <2> QED
    BY <1>2, <2>2
<1>4. /\ transactions' = {t \in transactions : t.key # TransKey(q)}
                           \cup {[key |-> TransKey(q), hash |-> q.hash]}
      /\ registry' = IF q.kind = "announce_peer"
           THEN AddKnown(AddPeers(contacted, {announcer}), q.dst, {announcer})
           ELSE contacted
      /\ upn' = upn + 1 /\ queries' = queries /\ dnsDht' = dnsDht /\ told' = told
      /\ \/ bootstrap' = Append(bootstrap, q.dst) /\ lastUpn' = upn'
         \/ bootstrap' = bootstrap /\ lastUpn' = lastUpn
  BY DEF DhtRequest
<1> HIDE DEF contacted
<1>5. /\ Sound(registry') /\ registry'.nodes = contacted.nodes
      /\ registry'.nodeId = contacted.nodeId
      /\ \/ registry'.known = contacted.known
         \/ /\ q.kind = "announce_peer"
            /\ registry'.known = contacted.known \cup {<<q.dst, announcer>>}
  <2>1. CASE q.kind = "announce_peer"
    <3>1. announcer \in Peers
      BY <1>1, <2>1, DhtAssumption DEF Queries, Peers
    <3>2. {announcer} \in SUBSET Peers
      BY <3>1
    <3> DEFINE peered == AddPeers(contacted, {announcer})
    <3>3. /\ Sound(peered) /\ announcer \in peered.peers
          /\ peered.nodes = contacted.nodes /\ peered.known = contacted.known
          /\ peered.nodeId = contacted.nodeId
      BY <1>3, <3>2, AddPeersSound
    <3>4. registry' = AddKnown(peered, q.dst, {announcer})
      BY <1>4, <2>1
    <3> HIDE DEF peered, announcer
    <3>5. q.dst \in peered.nodes /\ {announcer} \in SUBSET peered.peers
      BY <1>3, <3>3
    <3>6. /\ Sound(registry') /\ registry'.nodes = peered.nodes
          /\ registry'.nodeId = peered.nodeId
          /\ registry'.known = peered.known \cup {<<q.dst, p>> : p \in {announcer}}
      BY <3>3, <3>4, <3>5, AddKnownSound
    <3> QED
      BY <2>1, <3>3, <3>6
  <2>2. CASE q.kind # "announce_peer"
    BY <1>3, <1>4, <2>2
  <2> QED
    BY <2>1, <2>2
<1>6. TypeOK'
  <2>1. TransKey(q) \in [node : Nodes, tid : Tids]
    BY <1>1 DEF TransKey, Queries
  <2>2. transactions' \subseteq Transactions
    BY <1>1, <1>4, <2>1 DEF DInv, TypeOK, Transactions, Queries
  <2>3. bootstrap' \in Seq(Nodes) /\ lastUpn' \in Nat \cup {-1} /\ upn' \in Nat
    BY <1>1, <1>4 DEF DInv, TypeOK
  <2> QED
    BY <1>4, <1>5, <2>2, <2>3 DEF DInv, TypeOK, Sound
<1>7. TransactionsSound'
  <2>1. TransKey(q).node = q.dst
    BY DEF TransKey
  <2>2. ASSUME NEW t \in transactions'
        PROVE  /\ t.key.node \in registry'.nodes
               /\ \E o \in queries' : t.key = TransKey(o) /\ t.hash = o.hash
    <3>1. CASE t \in transactions
      BY <1>3, <1>4, <1>5, <3>1 DEF DInv, TransactionsSound
    <3>2. CASE t = [key |-> TransKey(q), hash |-> q.hash]
      BY <1>3, <1>4, <1>5, <2>1, <3>2
    <3> QED
      BY <1>4, <3>1, <3>2
  <2>3. /\ \A o \in queries' : o.hash = NoHash <=> o.kind = "ping"
        /\ \A q1, q2 \in queries' : TransKey(q1) = TransKey(q2) => q1 = q2
    BY <1>4 DEF DInv, TransactionsSound
  <2> QED
    BY <2>2, <2>3 DEF TransactionsSound, TransKey
<1>8. KnownIsTrue'
  <2> SUFFICES ASSUME NEW k \in registry'.known
               PROVE  \/ k[2][2] \in Knows[k[1]][k[2][1]]
                      \/ k[2][2] = Client /\ \E o \in queries' :
                           o.kind = "announce_peer" /\ o.dst = k[1] /\ o.hash = k[2][1]
    BY DEF KnownIsTrue
  <2>1. CASE k \in registry.known
    BY <1>4, <2>1 DEF DInv, KnownIsTrue
  <2>2. CASE k = <<q.dst, announcer>> /\ q.kind = "announce_peer"
    BY <1>4, <2>2
  <2> QED
    BY <1>3, <1>5, <2>1, <2>2
<1>9. NodeIdRight'
  BY <1>3, <1>5 DEF DInv, NodeIdRight
<1> QED
  BY <1>5, <1>6, <1>7, <1>8, <1>9 DEF DInv

\* An answer to an open transaction is captured.
LEMMA DInvResponse ==
  ASSUME DInv, NEW q \in queries, DhtResponse(q)
  PROVE  DInv'
<1>1. PICK t \in Answered(q) :
        LET named  == SetNodeId(registry, t.key.node, IdOf[q.dst])
            peered == Recorded(named, t.key.node, t.hash, {p[2] : p \in Values(q)})
        IN  /\ upn' = upn + 1
            /\ transactions' = transactions \ {t}
            /\ registry' = IF t.hash = NoHash THEN named
                           ELSE AddNodes(peered, Neighbours(q), IdOf)
            /\ told' = told \cup Neighbours(q)
            /\ UNCHANGED <<queries, bootstrap, lastUpn, dnsDht>>
  BY DEF DhtResponse
<1> DEFINE contacts == {p[2] : p \in Values(q)}
           named == SetNodeId(registry, q.dst, IdOf[q.dst])
           peered == Recorded(named, q.dst, q.hash, contacts)
           answered == AddNodes(peered, Neighbours(q), IdOf)
<1>2. /\ q \in Queries /\ q.dst \in Contacts
      /\ q.hash = NoHash <=> q.kind = "ping"
      /\ q.hash # NoHash => q.hash \in Hashes
  BY DEF DInv, TypeOK, TransactionsSound, Queries, Nodes
<1>3. t \in transactions /\ t.key = TransKey(q) /\ t.key.node = q.dst
  BY DEF Answered, TransKey
<1>4. q.dst \in registry.nodes /\ t.hash = q.hash
  BY <1>3 DEF DInv, TransactionsSound
<1>5. /\ IdOf \in [Contacts -> NodeIds \cup {NoId}] /\ IdOf[q.dst] \in NodeIds
      /\ Neighbours(q) \in SUBSET Contacts
  BY <1>2, DhtAssumption DEF Neighbours
<1>6. contacts \in SUBSET Contacts /\ contacts \subseteq Knows[q.dst][q.hash]
  <2>1. CASE q.kind = "get_peers"
    BY <1>2, <2>1, DhtAssumption DEF Values
  <2>2. CASE q.kind # "get_peers"
    <3>1. contacts = {}
      BY <2>2 DEF Values
    <3> QED
      BY <3>1
  <2> QED
    BY <2>1, <2>2
<1>7. registry' = IF q.hash = NoHash THEN named ELSE answered
  BY <1>1, <1>3, <1>4
<1>8. /\ Sound(named) /\ named.nodes = registry.nodes /\ named.known = registry.known
      /\ named.nodeId = [registry.nodeId EXCEPT ![q.dst] = IdOf[q.dst]]
  BY <1>2, <1>5, SetNodeIdSound DEF DInv
<1> HIDE DEF named, contacts
<1>9. ASSUME q.hash # NoHash
      PROVE  /\ Sound(answered) /\ registry.nodes \subseteq answered.nodes
             /\ answered.known = registry.known \cup {<<q.dst, <<q.hash, c>>>> : c \in contacts}
             /\ \A c \in Contacts : answered.nodeId[c] \in {named.nodeId[c], IdOf[c]}
  <2>1. q.dst \in named.nodes /\ q.hash \in Hashes
    BY <1>2, <1>4, <1>8, <1>9
  <2>2. /\ Sound(peered) /\ peered.nodes = named.nodes /\ peered.nodeId = named.nodeId
        /\ peered.known = named.known \cup {<<q.dst, <<q.hash, c>>>> : c \in contacts}
    BY <1>6, <1>8, <2>1, RecordedSound
  <2> HIDE DEF peered
  <2>3. /\ Sound(answered) /\ answered.nodes = peered.nodes \cup Neighbours(q)
        /\ answered.known = peered.known
        /\ \A c \in Contacts : answered.nodeId[c] \in {peered.nodeId[c], IdOf[c]}
    <3> DEFINE N == Neighbours(q)
    <3>1. Sound(peered) /\ N \in SUBSET Contacts /\ IdOf \in [Contacts -> NodeIds \cup {NoId}]
      BY <1>5, <2>2
    <3> HIDE DEF N
    <3>2. /\ Sound(AddNodes(peered, N, IdOf))
          /\ AddNodes(peered, N, IdOf).nodes = peered.nodes \cup N
          /\ AddNodes(peered, N, IdOf).known = peered.known
          /\ \A c \in Contacts :
               AddNodes(peered, N, IdOf).nodeId[c] \in {peered.nodeId[c], IdOf[c]}
      BY ONLY <3>1, AddNodesSound
    <3> QED
      BY <3>2 DEF N
  <2> HIDE DEF answered
  <2> QED
    BY <1>8, <2>2, <2>3
<1> HIDE DEF answered
<1>10. Sound(registry') /\ registry.nodes \subseteq registry'.nodes
  BY <1>7, <1>8, <1>9
<1>11. TypeOK'
  <2>1. upn' \in Nat /\ told' \subseteq Contacts
    BY <1>1, <1>5 DEF DInv, TypeOK
  <2> QED
    BY <1>1, <1>10, <2>1 DEF DInv, TypeOK, Sound
<1>12. TransactionsSound'
  BY <1>1, <1>10 DEF DInv, TransactionsSound, TransKey
<1>13. KnownIsTrue'
  <2> SUFFICES ASSUME NEW k \in registry'.known
               PROVE  \/ k[2][2] \in Knows[k[1]][k[2][1]]
                      \/ k[2][2] = Client /\ \E o \in queries' :
                           o.kind = "announce_peer" /\ o.dst = k[1] /\ o.hash = k[2][1]
    BY DEF KnownIsTrue
  <2>1. CASE k \in registry.known
    BY <1>1, <2>1 DEF DInv, KnownIsTrue
  <2>2. CASE \E c \in contacts : k = <<q.dst, <<q.hash, c>>>>
    BY <1>6, <2>2
  <2> QED
    BY <1>7, <1>8, <1>9, <2>1, <2>2
<1>14. NodeIdRight'
  <2> SUFFICES ASSUME NEW c \in Contacts
               PROVE  registry'.nodeId[c] \in {NoId, IdOf[c]}
    BY DEF NodeIdRight
  <2>1. named.nodeId[c] \in {NoId, IdOf[c]}
    <3>1. registry.nodeId \in [Contacts -> NodeIds \cup {NoId}]
      BY DEF DInv, TypeOK, Registries
    <3> QED
      BY <1>8, <3>1 DEF DInv, NodeIdRight
  <2> QED
    BY <1>7, <1>9, <2>1
<1> QED
  BY <1>10, <1>11, <1>12, <1>13, <1>14 DEF DInv

\* A handshake makes its sender a peer.
LEMMA DInvHandshake ==
  ASSUME DInv, NEW p \in Peers, PeerHandshake(p)
  PROVE  DInv'
<1>1. /\ Sound(registry') /\ registry'.nodes = registry.nodes
      /\ registry'.known = registry.known /\ registry'.nodeId = registry.nodeId
  BY AddPeersSound DEF PeerHandshake, DInv
<1>2. TypeOK'
  BY <1>1 DEF DInv, TypeOK, PeerHandshake, Sound
<1>3. TransactionsSound' /\ KnownIsTrue' /\ NodeIdRight'
  BY <1>1 DEF DInv, TransactionsSound, KnownIsTrue, NodeIdRight, PeerHandshake, TransKey
<1> QED
  BY <1>1, <1>2, <1>3 DEF DInv

\* The other datagrams leave queries, transactions and registry alone.
LEMMA DInvOther ==
  ASSUME DInv,
         \/ \E ip \in Ips : DnsAnswer(ip)
         \/ OtherDatagram
         \/ \E q \in queries : UnsolicitedResponse(q)
         \/ UNCHANGED vars
  PROVE  DInv'
<1>1. /\ UNCHANGED <<queries, registry, transactions, bootstrap, lastUpn, told>>
      /\ upn' \in Nat /\ dnsDht' \subseteq Ips
  BY DEF DInv, TypeOK, DnsAnswer, OtherDatagram, UnsolicitedResponse, vars
<1>2. TypeOK'
  BY <1>1 DEF DInv, TypeOK
<1>3. /\ TransactionsSound' /\ KnownIsTrue' /\ NodeIdRight' /\ Sound(registry')
  BY <1>1 DEF DInv, TransactionsSound, KnownIsTrue, NodeIdRight, TransKey
<1> QED
  BY <1>2, <1>3 DEF DInv

\* DInv holds in every state the monitor reaches.
THEOREM MonitorInvariant == Spec => []DInv
<1>1. DInv /\ [Next]_vars => DInv'
  <2> SUFFICES ASSUME DInv, [Next]_vars PROVE DInv'
    OBVIOUS
  <2>1. CASE \E q \in Queries : SendQuery(q)
    BY <2>1, DInvSend
  <2>2. CASE Capture
    BY <2>2, DInvRequest, DInvResponse, DInvHandshake, DInvOther DEF Capture
  <2>3. CASE UNCHANGED vars
    BY <2>3, DInvOther
  <2> QED
    BY <2>1, <2>2, <2>3 DEF Next
<1> QED
  BY DInvInit, <1>1, PTL DEF Spec

\* The state keeps its shape (Monitor of main_tracer.py).
THEOREM MonitorTypeOK == Spec => []TypeOK
<1>1. DInv => TypeOK
  BY DEF DInv
<1> QED
  BY <1>1, MonitorInvariant, PTL

\* Whatever order queries, answers and handshakes are captured in, the indexes
\* of peers agree and a peer is linked to the node at its contact
\* (get_or_add_node, get_or_add_peer).
THEOREM MonitorRegistryConsistent == Spec => []RegistryConsistent
<1>1. DInv => RegistryConsistent
  BY DEF DInv, Sound, RegistryConsistent
<1> QED
  BY <1>1, MonitorInvariant, PTL

\* A node's peers and a peer's sources agree (add_known_peer).
THEOREM MonitorSourcesConsistent == Spec => []SourcesConsistent
<1>1. DInv => SourcesConsistent
  BY DEF DInv, Sound, SourcesConsistent
<1> QED
  BY <1>1, MonitorInvariant, PTL

\* A node is credited only with what it answered or was announced to it
\* (get_dht_flow, set_dht_flow, extract_peers).
THEOREM MonitorKnownIsTrue == Spec => []KnownIsTrue
<1>1. DInv => KnownIsTrue
  BY DEF DInv
<1> QED
  BY <1>1, MonitorInvariant, PTL

\* A node is reported under its own id (trace_dht_resp, extract_nodes).
THEOREM MonitorNodeIdRight == Spec => []NodeIdRight
<1>1. DInv => NodeIdRight
  BY DEF DInv
<1> QED
  BY <1>1, MonitorInvariant, PTL
-----------------------------------------------------------------------------
(* Bootstrap nodes. *)

\* A node that another has named is in the registry.
ToldKnown == told \subseteq registry.nodes

\* What each operator of the registry does to the nodes.
LEMMA NodesOf ==
  ASSUME NEW r, "nodes" \in DOMAIN r
  PROVE  /\ \A N, ids : /\ "nodes" \in DOMAIN AddNodes(r, N, ids)
                        /\ AddNodes(r, N, ids).nodes = r.nodes \cup N
         /\ \A S : "nodes" \in DOMAIN AddPeers(r, S) /\ AddPeers(r, S).nodes = r.nodes
         /\ \A n, S : /\ "nodes" \in DOMAIN AddKnown(r, n, S)
                      /\ AddKnown(r, n, S).nodes = r.nodes
         /\ \A n, id : /\ "nodes" \in DOMAIN SetNodeId(r, n, id)
                       /\ SetNodeId(r, n, id).nodes = r.nodes
<1>1. \A N, ids : /\ "nodes" \in DOMAIN AddNodes(r, N, ids)
                  /\ AddNodes(r, N, ids).nodes = r.nodes \cup N
  BY DEF AddNodes
<1>2. \A S : "nodes" \in DOMAIN AddPeers(r, S) /\ AddPeers(r, S).nodes = r.nodes
  BY DEF AddPeers
<1>3. \A n, S : "nodes" \in DOMAIN AddKnown(r, n, S) /\ AddKnown(r, n, S).nodes = r.nodes
  BY DEF AddKnown
<1>4. \A n, id : "nodes" \in DOMAIN SetNodeId(r, n, id) /\ SetNodeId(r, n, id).nodes = r.nodes
  BY DEF SetNodeId
<1> QED
  BY <1>1, <1>2, <1>3, <1>4

\* No step forgets a node, and the nodes an answer names are entered: an answer
\* that names any is one to a request with a hash.
LEMMA ToldKept ==
  ASSUME DInv, ToldKnown, [Next]_vars
  PROVE  ToldKnown'
<1>0. registry \in Registries /\ "nodes" \in DOMAIN registry
  BY DEF DInv, TypeOK, Registries
<1>1. ASSUME UNCHANGED <<told, registry>> PROVE ToldKnown'
  BY <1>1 DEF ToldKnown
<1>2. ASSUME NEW q \in queries, DhtRequest(q) PROVE ToldKnown'
  <2>1. told' = told
    BY <1>2 DEF DhtRequest
  <2> DEFINE contacted == AddNodes(registry, {q.dst}, NoIds)
             announcer == <<q.hash, Client>>
  <2>2. "nodes" \in DOMAIN contacted /\ registry.nodes \subseteq contacted.nodes
    BY <1>0, NodesOf
  <2>3. \/ registry' = AddKnown(AddPeers(contacted, {announcer}), q.dst, {announcer})
        \/ registry' = contacted
    BY <1>2 DEF DhtRequest
  <2> HIDE DEF contacted, announcer
  <2> DEFINE peered == AddPeers(contacted, {announcer})
  <2>4. "nodes" \in DOMAIN peered /\ peered.nodes = contacted.nodes
    BY <2>2, NodesOf
  <2>5. AddKnown(peered, q.dst, {announcer}).nodes = peered.nodes
    <3> HIDE DEF peered
    <3> QED
      BY <2>4, NodesOf
  <2>6. registry.nodes \subseteq registry'.nodes
    BY <2>2, <2>3, <2>4, <2>5
  <2> QED
    BY <2>1, <2>6 DEF ToldKnown
<1>3. ASSUME NEW q \in queries, DhtResponse(q) PROVE ToldKnown'
  <2>1. PICK t \in Answered(q) :
          LET named  == SetNodeId(registry, t.key.node, IdOf[q.dst])
              peered == Recorded(named, t.key.node, t.hash, {p[2] : p \in Values(q)})
          IN  /\ registry' = IF t.hash = NoHash THEN named
                             ELSE AddNodes(peered, Neighbours(q), IdOf)
              /\ told' = told \cup Neighbours(q)
    BY <1>3 DEF DhtResponse
  <2>2. t.hash = q.hash
    BY DEF Answered, DInv, TransactionsSound
  <2>3. t.hash = NoHash => Neighbours(q) = {}
    BY <2>2 DEF Neighbours, DInv, TransactionsSound
  <2> DEFINE named  == SetNodeId(registry, t.key.node, IdOf[q.dst])
             given  == {<<t.hash, c>> : c \in {p[2] : p \in Values(q)}}
             listed == AddPeers(named, given)
             peered == AddKnown(listed, t.key.node, given)
  <2>4. /\ registry' = IF t.hash = NoHash THEN named ELSE AddNodes(peered, Neighbours(q), IdOf)
        /\ told' = told \cup Neighbours(q)
    BY <2>1 DEF Recorded
  <2>5. "nodes" \in DOMAIN named /\ named.nodes = registry.nodes
    BY <1>0, NodesOf
  <2> HIDE DEF named, given
  <2>6. "nodes" \in DOMAIN listed /\ listed.nodes = named.nodes
    BY <2>5, NodesOf
  <2> HIDE DEF listed
  <2>7. "nodes" \in DOMAIN peered /\ peered.nodes = listed.nodes
    BY <2>6, NodesOf
  <2> HIDE DEF peered
  <2>8. AddNodes(peered, Neighbours(q), IdOf).nodes = peered.nodes \cup Neighbours(q)
    BY <2>7, NodesOf
  <2>9. CASE t.hash = NoHash
    BY <2>3, <2>4, <2>5, <2>9 DEF ToldKnown
  <2>10. CASE t.hash # NoHash
    BY <2>4, <2>5, <2>6, <2>7, <2>8, <2>10 DEF ToldKnown
  <2> QED
    BY <2>9, <2>10
<1>4. ASSUME NEW p \in Peers, PeerHandshake(p) PROVE ToldKnown'
  <2>1. registry'.nodes = registry.nodes /\ told' = told
    BY <1>0, <1>4, NodesOf DEF PeerHandshake
  <2> QED
    BY <2>1 DEF ToldKnown
<1>5. ASSUME \/ \E q \in Queries : SendQuery(q)
             \/ \E ip \in Ips : DnsAnswer(ip)
             \/ OtherDatagram
             \/ \E q \in queries : UnsolicitedResponse(q)
             \/ UNCHANGED vars
      PROVE  ToldKnown'
  BY <1>1, <1>5 DEF SendQuery, DnsAnswer, OtherDatagram, UnsolicitedResponse, vars
<1> QED
  BY <1>2, <1>3, <1>4, <1>5 DEF Next, Capture

\* Unless the cutoff is 0, when the name decides instead, a node is counted as a
\* bootstrap node only if no node had named it before it was asked
\* (trace_dht_req, dht_bootstrap_nodes), whatever was lost, repeated or late.
THEOREM MonitorBootstrapUndiscovered ==
  ASSUME Cutoff # 0
  PROVE  Spec => BootstrapUndiscovered
<1>1. ASSUME DInv, ToldKnown, [Next]_vars, bootstrap' # bootstrap
      PROVE  bootstrap'[Len(bootstrap')] \notin told
  <2>1. PICK q \in queries : DhtRequest(q)
    BY <1>1 DEF Next, Capture, SendQuery, DnsAnswer, PeerHandshake, OtherDatagram,
                UnsolicitedResponse, DhtResponse, vars
  <2>2. bootstrap' = Append(bootstrap, q.dst) /\ q.dst \notin registry.nodes
    BY <1>1, <2>1 DEF DhtRequest, IsBootstrap
  <2>3. bootstrap \in Seq(Nodes) /\ q.dst \in Nodes
    BY <1>1 DEF DInv, TypeOK, Queries
  <2>4. bootstrap'[Len(bootstrap')] = q.dst
    BY <2>2, <2>3
  <2> QED
    BY <1>1, <2>2, <2>4 DEF ToldKnown
<1>2. DInv /\ ToldKnown /\ [Next]_vars =>
        [bootstrap' # bootstrap => bootstrap'[Len(bootstrap')] \notin told]_vars
  BY <1>1
<1>3. Init => ToldKnown
  BY DEF Init, ToldKnown
<1>4. DInv /\ ToldKnown /\ [Next]_vars => ToldKnown'
  BY ToldKept
<1> QED
  BY <1>2, <1>3, <1>4, MonitorInvariant, PTL DEF Spec, BootstrapUndiscovered
=============================================================================
