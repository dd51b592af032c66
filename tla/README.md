# A verification of leoAtFit2

The repository collects independent course projects. This directory holds TLA+
models of the ones with a logic of their own, TLC configurations that check
them on small instances, and TLAPS proofs. The models cover the BitTorrent
monitor of `1LS/PDS/Projekt`, the largest stateful program, and eight smaller
ones: two MPI programs, an encrypted client and server, the affine cipher, the
OpenMP mesh builders, the LDPC coder, the solvers of the maximum independent
set, and the search strategies.

Paths are relative to `src/`; `PDS/` stands for `1LS/PDS/Projekt/`.

## 1. Inventory

### The BitTorrent monitor

`bt-monitor.py` reads a capture file and reports torrents, peers, DHT nodes and
bootstrap nodes. It is one thread; what is concurrent is the traffic, which
the capture shows with packets missing, repeated, reordered and cut off.

| part | state | operations | talks to |
|---|---|---|---|
| `serial.py` | a number and its width | `+`, `<`, `>`, `==` on a ring | used by both tracers |
| `utp_tracer.py` | `flows`: (initiator, accepter, connid) to a flow with a state, the next expected number of each direction and a pending list | one handler per (state, packet type); `add_segment` | calls `on_new_flow`, `on_new_segment`, `on_close_flow` of the monitor |
| `tcp_tracer.py` | the same for TCP | the same | the same callbacks |
| `btp_parser.py` | byte buffer, framing state, extension table | `process_segment`, one handler per message | updates torrents and peers of the monitor |
| `main_tracer.py` registry | `peer_dicts`, `peers_by_ips`, `torrents`, `dht_nodes_by_ips`, the links between `Peer` and `DHTNode` | `get_or_add_peer`, `get_or_add_node`, `add_known_peer` | called by the DHT, tracker and parser code |
| `main_tracer.py` DHT and DNS | `dht_transactions`, `dht_bootstrap_nodes`, `last_bootstrap_upn`, `upn`, `dns_possible_dht` | `trace_dht_req`, `trace_dht_resp`, `trace_dns` | registry |
| `main_tracer.py` trackers | `udptp_known_trans_ids`, `udptp_known_ips`, `trackers` | `trace_udp_tracker_proto` | registry |
| capture loop, reports | packet counters, IP fragments | `trace_pcapng`, `trace_udp`, `print_final_report` | everything |

A datagram goes through `trace_udp` to the uTP tracer, which hands reassembled
payloads to the parser pair of the flow, and then to the first of DHT, DNS and
tracker code that takes it. All of them write to the one registry.

What makes each part correct:

* tracer: each parser reads its peer's bytes without a gap, repetition or swap,
  whatever the capture did to the packets; packets go to the flow they belong
  to; a closing connection gets closed, once;
* parser: the messages handled are the messages sent, wherever segments end;
* registry: its indexes describe the same peers, and a peer and a node at one
  contact are linked whichever was seen first;
* DHT: an answer is credited to the node and the hash that were asked.

### The other programs

| program | state and operations | hard behaviour | state of work |
|---|---|---|---|
| `1LS/PRL` project 1 | the ranks' parts of a file, split by a pivot and gathered by counts | collective calls matched by order; a root that leaves early | modelled |
| `1LS/PRL` project 2 | means and clusters, a loop of scatter, reduce and broadcast | all ranks must end in the same round; ties at random | modelled |
| `1LS/KRY` project 2 | client and server, framed and acknowledged messages over TCP | timeouts, partial sends and reads, retries | dialogue modelled, key files not |
| `1LS/KRY` project 1 | an object with a key and its tables; a file of lines | stale tables, negative remainders, one line failing | modelled |
| `0ZS/AVS` project 2 | stores and counters of OpenMP threads, tree of tasks, parallel loop | interleaving of tasks, variables of dead tasks | modelled |
| `0ZS/BMS` | parity check and coding matrix, loop of the decoder | elimination beyond the matrix, the loop's last round | modelled but for belief propagation |
| `0ZS/GAL` | six solvers on a graph | ties, random choices, order of nodes in memory, termination | modelled |
| `0ZS/SUI` project 1 | frontier, stack, queue and the way back | outdated entries, jumps between depths, limits | strategies modelled |
| `1LS/FLP`, `1LS/WAP` | ECDSA, Turing machine, property iterator | pure algorithms | not modelled |
| `0ZS/AVS` project 1, `0ZS/UPA`, `0ZS/PDI`, `0ZS/MSP`, `0ZS/ZZN` | floating point kernels, scripts around databases and web pages | outside of the programs | not modelled |
| OGDF and COIN under `0ZS/GAL/Projekt/OGDF` | vendored | | no |
| other directories | documents and data | | no |

What makes each correct:

* PRL: the parts a file is split into are those of its numbers less, equal and
  greater than the pivot, in order; means and clusters are those of a sequential
  run, on all ranks; no rank is left waiting;
* hybrid channel: texts are printed in the order they were entered, each at
  least once, and the client reports nothing as delivered that was not printed;
* cipher: what is encrypted with a key is restored with it, and a line is read
  with the table of its own key;
* mesh builders: every cube's triangles are in the mesh once and are counted
  once, whatever the threads do;
* LDPC: a code word is decoded to the message it encodes, and the user learns
  when decoding failed;
* independent sets: what is returned is independent, and maximal where the
  solver goes on as long as it can;
* searches: a solution is found if there is one, no longer than necessary or
  than the limit.

`PROJECT.json` lists every component with its files, and under `hazards` what
in this code is hard to test, line by line.

## 2. Modules

| module | models | extends / uses |
|---|---|---|
| `SerialNumber` | `serial.py`; `Half` is 2^(bits-1) | |
| `UtpSegments` | `add_segment` as functions of the flow and the packet | `SerialNumber` |
| `OrderedStream` | abstract: what a parser is promised | |
| `UtpReassembly` | one established flow under a network with a window; implements `OrderedStream` | `UtpSegments` |
| `UtpTracer` | the flow table, all handlers, the callbacks of the monitor | `UtpSegments` |
| `UtpSession` | peers that follow the protocol, and the capture, around `UtpTracer` | `UtpTracer` |
| `BtpParser` | framing, dispatch and bookkeeping of the peer protocol | |
| `Registry` | the indexes of `main_tracer.py` as one record and its operations | |
| `DhtMonitor` | DHT requests and answers, DNS, bootstrap detection, on a `Registry` | `Registry` |
| `Mpi` | external: rooted collectives and `Abort` | |
| `ParSplit`, `ParKMeans` | the two MPI programs, root and other ranks, call by call | `Mpi` |
| `AtLeastOnce` | abstract: a channel that repeats, but loses and reorders nothing | |
| `HybridChannel` | `client.py` and `server.py` over one TCP connection; implements `AtLeastOnce` | |
| `AffineCipher` | `Crypto.cpp`, `Analysis.cpp` and the loops of `main.cpp` | |
| `MeshStores` | what both mesh builders share: the threads' stores and the merge | |
| `TreeMesh`, `LoopMesh` | the octree of tasks, the parallel loop | `MeshStores` |
| `BinaryMatrix` | `maths.cpp`: products and two eliminations over the field of two elements | |
| `LdpcCode` | matrices, encoder and decoder | `BinaryMatrix` |
| `IndependentSet` | the graph, and what a result has to be | |
| `GreedySolvers`, `RamseySolvers`, `BmaSolver` | the solvers | `IndependentSet` |
| `SearchProblem` | state spaces, solutions, shortest ways | |
| `AStar`, `DepthFirst`, `BreadthFirst` | the strategies of `sui-solution.cc` | `SearchProblem` |
| `...Proofs` | theorems about the module of that name, or of several: `UtpSessionProofs` about `UtpTracer` and `UtpSession`, `CoderProofs` about `HybridChannel`, `AffineCipher` and `LdpcCode`, `MCParallelProofs` about the MPI programs and `TreeMesh`, `MeshStores`, `TreeMesh` and `LoopMesh`, `MCSolversProofs` about the three search strategies and the solvers of the independent set | |
| `SetInduction` | induction, recursion, division and finite sums as the provers can use them; nothing of the code | |
| `MC...` | instances for TLC; `MCParallel`, `MCSolvers` and `MCCoders` hold several programs, one of which runs | |

Correspondence worth knowing:

* A TLA+ action is a whole handler with its callbacks. The body of
  `add_segment` is a loop over a list; its result does not depend on the order
  of the list, because each pass takes whatever has the expected number, so the
  loop is written as the longest run of consecutive pending numbers
  (`UtpSegments!IsRun`) and the list is a set. Two pending packets of one number
  and different payloads do not occur in the models (a retransmission carries
  the same bytes).
* An absent flow is one in state `INIT`, the code's `CS_INIT`.
* `crashed` is the state after the uncaught `KeyError` of
  `btp_parsers.pop(flow.tup)` (`main_tracer.py:488`).
* `streams` in `UtpTracer` keeps what the parser pair last created for a pair of
  contacts has been handed, in place of the parser itself.
* In `BtpParser` byte `j` of item `i` is the pair `<<i, j>>`. Fields are read
  from the item, so a parser that gets out of step with the stream reads from
  the wrong place and shows it. `parser.handled` and `told` in `DhtMonitor` are
  history variables.
* In `DhtMonitor` a contact stands for the object at it, as nothing is ever
  removed from the registry.
* Operators whose comment begins with `Slip:` are plausible mistakes in the
  definition after them; each is listed as a mutant in `PROJECT.json` and is
  caught by the property named there. No specification uses them.

* `Mpi` binds the ranks as little as the standard allows: whoever only
  contributes to a collective goes on at once. Calls are matched by order alone,
  as in MPI, so that a rank out of step takes the data of another call, which
  `Matched` would show. The root's uncaught exception is `Abort`, what the
  C++ bindings make of it.
* The means of `ParKMeans` are exact fractions of a common scale instead of
  floating point numbers; `ClustersAssumption` keeps out files with fewer numbers
  than clusters, where the code reads past the vector.
* In `HybridChannel` a message is four parts, two of its length and two of its
  text, and an acknowledgement two: enough for a cut inside and between them.
  Each attempt has keys of its own (`make_message`), so that parts carry the
  number of the attempt, and only parts of one attempt decrypt. `torn` is a
  history variable: some message was sent in part and then again.
* `TreeMesh` names a task by the octants that lead to its block. Tasks are tied,
  as in the code. `doBlock` is modelled as inlined, as `inline` and the build's
  optimisation level have it: its pointer parameter is the caller's. The field
  and `buildCube` are input: `triangles` gives their number for each cube, and
  `isBlockEmpty` may leave out any block without triangles.
* The game of `0ZS/SUI` is not code of its project 1: it is any state space. The
  heuristic is (`StudentHeuristic`, `sui-solution.cc:376`): it counts cards that
  are not well placed, which needs the game's cards and rules, so the model takes
  any estimate that is admissible in the space at hand. A depth limit of 0 acts as 1,
  because successors are tested before the limit.
* `RamseySolvers` writes the two recursive functions as the set of results they
  can have, over all choices of a node. `address` is the order of the nodes in
  memory, by which `std::set_difference` compares them. `Difference` is that
  function: its two iterators are the two parts of the position `at`.
* `InfinityAssumption` says of `BmaSolver`'s infinite cost what `INT_MAX`
  (`0ZS/GAL/Projekt/BMASolver.cpp:14`) is on any graph the program can load: no
  cost is that high.
* `BinaryMatrix` writes a row as its set of columns with a 1. The elimination of
  the decoder counts columns up to the number of rows, which is twice that of
  the columns: `At` reads the next row then, and past the matrix any memory
  (`beyond`).
* `LdpcCode` lets every iteration of the decoder end with any word: what belief
  propagation makes of the channel's output is floating point, and nothing that
  is checked depends on it.
* In `AffineCipher` the list of candidate keys is arbitrary: it is computed from
  letter frequencies and from inverses of differences, half of which are
  negative and index in front of the table. `analyseWords` counts the last word
  of a line twice, and so does `Counted`.

## 3. Runs

| run | instance | shows |
|---|---|---|
| `reassembly` | ring of 6, 8 packets each way (so that both wrap), starts 0 and 4, window 3 ahead and 2 behind | order, agreement of expected number and stream, nothing deliverable waits; refinement of `OrderedStream` with its liveness |
| `any_capture` | two contacts, one connection id, ring of 4, packets of all five types in any order, conforming or not | pending list stays ahead of the expected number; a connection never moves back |
| `one_session` | one session of 3 packets each way on a ring of 8, numbers wrapping, losses, repetitions, reordering; weak fairness of the packets that fill a gap | parsers read contiguous streams; what a flow waits for is a packet that was sent; a connection closed with gaps releases its parsers |
| `parallel_sessions` | three sessions, two with neighbouring connection ids, one opened from the other end | no packet is taken for another session's |
| `framing` | streams of three to seven items, every way to cut them into segments of up to 12 bytes | messages handled, torrent record and extension names match a reference read off the uncut stream |
| `dht` | client, two nodes, one hash, two transaction ids, two queries of any kind, five datagrams | registry indexes, sources, truth of what nodes are said to know, bootstrap nodes |
| `parallel` | three ranks; files of up to six bytes of three values, also missing and not divisible; two clusters, two or three numbers out of five. Two threads, three stores; a line of four cubes, that is, a tree of two levels; up to one triangle in each cube; chunks of three | results against their definitions, collectives matched, agreement of the ranks, means settled, the job ends; the creator of a task outlives it, no addition is lost, the mesh is complete, the builder ends |
| `solvers` | six states, spaces with a detour, a dead end, or a cycle, three sets of goals, limits 0 to 5, every admissible estimate. Every graph of four nodes and its complement with loops, every order in memory | result and end of the three strategies, what keeps A* and the depth-first chain right; independent sets, Ramsey's bound in each round, paths of the relaxation, the solvers return |
| `coders` | messages of three bits, all parity check matrices of six columns, two iterations. Files of one and two of four lines (one no key can read, one barely), six keys, three known words, lists of up to two candidates | code words, and only they, decode to their messages whatever lies behind the matrix; lines are restored, and the analysis prints the best it can and nothing of another line |
| `channel` | three texts, five attempts, one retry after a failed send | delivered is printed, framing, refinement of `AtLeastOnce`, texts are settled |
| `keeps_tracing`, `ldpc_warning` | as above | a disagreement each, see below |

`parallel`, `solvers` and `coders` each choose one of the programs they name in
`Init`, and the others stand still; their properties name the program they are
about.

Why the bounds are enough to be interesting: rings of 4 and 6 are the smallest
on which the window of half a ring holds two or three packets, so that every
number is used again within a run, a pending packet can meet its own number a
lap later, and a plain comparison of numbers fails. In `one_session` the
ring has 8 numbers, as the three packets have to be fewer than half of them: on
a ring of 6 an old packet half a ring behind is parked as a new one, and the
flow waits for a number that the peer never sends (with `Half = 3` TLC finds
it). In `any_capture` the
packets carry the initiator's first three numbers around the wrap; the
symmetry between the contacts is sound as no constant tells them apart and
all its properties are invariants or action properties. Five datagrams leave
room for two requests, their answers, and one repetition or DNS answer.
`HandshakeLen` 3 and `PrefixLen` 2 let a segment end inside either. Three ranks
are the fewest of which one can be ahead of another while both are ahead of the
root; two parts for each make a displacement off by one show. Two threads and
two levels are the fewest with which a task waits while its thread runs a
descendant and the other thread a sibling. In the state spaces the state behind
the detour is reached with two different costs and reopened. Four nodes hold
every graph with a tie between a clique and an independent set. Five attempts
let an acknowledgement be late for two attempts. Six columns are the fewest for
which a random pair of rows is drawn and the elimination goes three columns
beyond the matrix.

Deadlock is not checked in runs in which the system really stops: a capture
ends, a program returns, is aborted or ends with an error. It is checked in
`reassembly`; whether programs end where they should, and not before, is the
matter of `JobEnds`, `MeshEnds`, `SearchEnds`, `SolveReturns` and `TextsSettled`.

Fairness. In `reassembly` the packet that blocks a direction is seen
eventually. The code justifies it by nothing of its own; it is the
retransmission of the transport, which repeats a packet until it is
acknowledged. Packets other than the blocking one need not ever be seen. In
`parallel` each process or thread is scheduled (weak fairness of its next
step); nothing is assumed about who goes first. In `solvers` the one
thread runs until it returns. In `channel` both processes run, and the client's
`recv` returns or times out after `SOCK_TIMEOUT`, which the code sets; the
client's fairness lets the user enter every text up to the bound, which the
property, about texts entered, does not depend on.

In `one_session` (`SessionFairSpec`) a packet that a flow waits for was
overtaken, and is captured at last. That is a premise about the network and the
capture, the same as in `reassembly`, and nothing in the tracer stands in for
it: a gap that is never filled keeps the flow and its parsers. Neither end need
go on, and no other packet need be captured. That the missing packet exists at
all is not assumed but checked (`GapsFillable`).

## 4. Disagreements found

With a run:

* `keeps_tracing`: a closed flow stays in `flows`; a repeated last STATE closes
  it again, `btp_parsers.pop` has no default, and the exception ends the
  capture loop. Peers that follow the protocol are enough.
* `ldpc_warning`: `decode()` compares its counter with `maxIterations - 1`
  (`0ZS/BMS/Projekt/decoder.cpp:234`). When all iterations fail the counter is
  `maxIterations`, and nothing is said; when the last one succeeds the user
  reads "Decoding stopped before convergence."

Seen while modelling, without a run of its own:

* `PDS/utp_tracer.py:235`: after the accepter's FIN, "Accepter FIN acked." is
  logged for the accepter's own STATE; `CS_BOTH_SENT_FIN_INITIATOR_ACKED` is
  entered on the initiator's repeated FIN. After a simultaneous open the losing
  flow stays in the table and goes on to `CS_SYN_ACKED`. `connid - 1` is not
  reduced, so that a session opened with id 65535 is half invisible. Of a
  connection closed one end after the other the second FIN is not taken when the
  accepter sends it (`CS_INITIATOR_FIN_ACKED`, 243), so that its parser pair is
  kept; the pair of a flow whose gap is never filled is kept, too.
* `PDS/btp_parser.py`: after "not BTP stream" the rest of the segment is parsed;
  `extract_compact_peers` is called with its arguments exchanged, the
  `TypeError` is swallowed and no `[PEX]` peer is ever reported.
* `PDS/main_tracer.py`: `-bootstrap-cutoff 0` still lists the first node asked;
  parser pairs are found by contacts only, so that two connections between the
  same contacts share one; transactions and pending lists are never cleared.
* `PDS/tcp_tracer.py:93` compares a tuple of five with tuples of four.
* KRY `client.py:198` looks for the server's verdict in the first byte of the
  digest; by its comment at 176 it is the byte before.
* `RamseySolver.cpp:133`: `std::set_difference` compares addresses of sets that
  are sorted by index. Where the two orders disagree it may take nothing away,
  and `clique_removal` goes round for ever; `SolveReturns` says so much only for
  nodes in memory order.
* `Greedy2Solver` returns nothing for a complete graph; `RandomSolver` reads an
  iterator to an erased element.
* AVS: `localTriangleStoresHandles` is never reset, so that a second call of
  `marchCubes()` would append behind the counts of the first; more threads than `MAX_THREADS` are not refused, a grid that is no
  power of two loses cubes to `>> 1`, and `doBlock`'s task shares a pointer
  parameter that is gone unless it is inlined.
* `sui-solution.cc:213`: the way back is wrong if the heuristic is inadmissible.
* `parkmeans.cc:92` reads past a file with fewer numbers than clusters.
* Affine cipher: of the analysis of several messages (`-m`, `Constants.h:28`), a
  line in which no key shows a known word ends the program with "the given key is
  invalid" (`main.cpp:55`), and the lines after it are not read. A negative `a`
  that is coprime with 26 (`Constants.h:26`) is looked up in front of the table
  of inverses (`Utils.cpp:14`).
* BMS: a random matrix may have too low a rank, and the encoder ends with an
  uncaught exception of OpenCV (phase `thrown`).

## 5. Proofs

All proofs are checked from nothing by tlapm, for every value of the constants
that satisfies the `ASSUME`s.

**Reassembly** (`UtpReassemblyProofs`). Assumed: `Half > 1`,
and a window of at most `Half` packets ahead and fewer than `Half` behind
(`WindowAssumption`). The number of packets and the ring's size are arbitrary.
The property `InOrder` is not inductive: that the next packet handed over is
the right one depends on what number is expected and what waits. The invariant
`IInv` adds `Synchronised` (the expected number is that of the next packet) and
`PendingAhead` (what waits lies strictly ahead, within the window, and carries
its own number). Then:

1. *arithmetic*: division with remainder is unique, so that two positions less
   than a ring apart have different numbers (`RingInjective`), and `SerialLess`
   orders positions in the window as the line does (`RingOrder`);
2. *classification* (`Classified`): a packet in the window is expected, parked
   or ignored as its position is next, ahead or behind;
3. *draining* (`Drained`): the run the loop takes is the run of consecutive
   positions that wait, and what is left lies ahead of it;
4. *effect* (`ArrivalEffect`): an arrival appends consecutive packets to one
   direction; `IInv` is preserved and the step is a step of `OrderedStream`.

Theorems: `ReassemblyInvariant`, `ReassemblyTypeOK`, `ReassemblyInOrder`,
`ReassemblySynchronised`, `ReassemblyPendingAhead`, and `ReassemblyRefinesStream`
(the safety part of the refinement).

**DHT monitor** (`DhtMonitorProofs`). Assumed: the constants have their types.
The client's discipline, that it does not use a transaction id twice with one
node, is the guard of `SendQuery`. The invariant `DInv` strengthens the
properties of the `dht` run by `TransactionsSound`: an open transaction names
a node of the registry and carries the hash of the client's query, and by
`ToldKnown`: an answer that names nodes answers a request with a hash, so that
all of them are in the registry. One lemma
per registry operation shows that it keeps the indexes matching; each action is
a composition of them. Theorems: `MonitorTypeOK`, `MonitorRegistryConsistent`,
`MonitorSourcesConsistent`, `MonitorKnownIsTrue`, `MonitorNodeIdRight`, and
`MonitorBootstrapUndiscovered`, whose hypothesis `Cutoff # 0` is the code's own: with
`-bootstrap-cutoff 0` the first node asked is listed without any look at the DNS.
`NodeIdRight` is proved only, no run checks it.

**uTP tracer** (`UtpSessionProofs`). Assumed: the packets have their types.
`PendingBeyond` says that what waits lies 1 to `Half` ahead of what is expected,
for any capture. It is not inductive alone, because the accepter's answer sets
its first number to anything: `TracerInv` adds that nothing waits before that
(`NothingBeforeAnswer`), and the types. One lemma describes `add_segment`
(`Beyond` is kept by its run), then there is one step per handler. From the same
invariant follows the action property `NeverBack`.
Theorems: `TracerInvariant`, `TracerPendingBeyond`, `TracerTypeOK`,
`TracerNeverBack`.

**Sessions** (`UtpSessionProofs`). A capture of sessions is one of `UtpTracer`'s
captures (`SessionIsTracing`), so that all of the above holds of it. What the
sessions need beyond that are hypotheses of the theorems, each of which the code
needs too: `IdsApart` (two sessions that peers open to one another have
different ids, also one apart), without which a packet is found in the wrong
flow; `TupsApart` (one session for each pair of contacts), as the parsers are
found by contacts alone; and `NumPackets < Modulo` (a stream is shorter than a
round of the numbers), beyond which an old repetition is taken for a new packet.
The invariant `SInv` follows every flow of the table along its session: it says
of each state what has been sent, which number is expected, and that what the
parser read is the stream up to there. `PendingSent` adds that what waits has
been sent. With them `GapsFillable` holds where `NumPackets < Half`: the number
a flow expects is that of some packet of the stream (`Following`), what waits
lies ahead of it on the ring (`PendingBeyond`), and, as the stream fits into half
of the ring, also in the stream, so that the expected packet comes before one that
has been sent. From `Half` packets on the ring cannot tell ahead from behind.
Theorems: `SessionIsTracing`, `SessionFoundByOwnFlow`,
`SessionStreamsContiguous`, `SessionPendingSent`, `SessionGapsFillable`.
That the gaps then end in a close (`GapsEndInClose`) is liveness, and
model-checked only.

**Peer protocol parser** (`BtpParserProofs`). Assumed: the lengths of handshake
and prefix are positive, and of the streams (`StreamsAssumption`) that only a
keep-alive is empty, that an extended handshake names an extension and that the
number of an extended message is not 0. Lengths of messages, extension numbers and
the places where segments end are arbitrary. The properties say what has been done
with the messages that are complete; none of them is inductive, as none says where
in the stream the parser stands. The invariant `Parsed` does: for some `i`, what is
in the buffer are the bytes behind the first `i` items - or behind the prefix of the
next one, whose length is then expected - up to the last byte delivered, and the
list of handled messages, the extension table and the record are those of the first
`i` items (`ReadUpTo`). Then:

1. *stream* (`ItemEnds`, `ByteOfItem`): items follow one another, so that the bytes
   at the front of the buffer are those of the item the parser takes them for;
2. *one item* (`ReportedStep`, `AssignedByHandshake`, `TakenMessage`, `GivenStep`,
   together `MessageStep`): its handler makes of what belongs to `i` items what
   belongs to `i + 1`. For the length of pieces this needs that `bit_length` gives
   the least power of two (`BitLengthIs`), so that half of the length kept would not
   hold the longest block;
3. *the loop* (`RoundStep`, `ConsumeEnds`): a pass keeps the parser in step and
   decreases `Left`, twice the bytes in the buffer and one more when a message and
   not a prefix is awaited, so that the loop ends;
4. *between segments* (`CompleteRead`): as it has ended, less is in the buffer than
   the next part needs, so that the complete items are the first `i`.

Theorems: `BtpParserInvariant`, `BtpParserFramed`, `BtpParserReport`,
`BtpParserRightExtension`, and the lemma `ConsumeEnds`. They say nothing of streams
that do not begin with the handshake: the parser gives those up, after it has read
what its last segment held.

**Tree of tasks** (`MCParallelProofs`). Assumed: sizes are positive numbers, and
what powers are (`TwoPowers`, `GridPowers`: `b ^ 0 = 1` and
`b ^ (k + 1) = b * b ^ k`, as the provers compute no powers). For any
team, depth and field, `CreatorAlive` - a task that was created and has not
finished has a creator that has not returned - rests on the order in which a
task creates its children (`CreatedInOrder`) and on each task being run by one
thread (`TaskByOneThread`): a creator returns only from its `taskwait`, when the
children it has made are done, and those it has made are the first ones.
Theorems: `TreeInvariant`, `TreeCreatorAlive`, `TreeTaskByOneThread`, and for the
launcher `ParallelCreatorAlive`.

**MPI programs** (`MCParallelProofs`). Assumed: there is at least one rank. The
ranks keep no common pace, so the invariant is a table of the pairs of positions
that the root and one other rank can be in, with what is on its way between the
two in each (`SplitInStep`, `KMeansInStep`). Because a rank that only contributes
goes on, it can be ahead of the root or behind; because `parkmeans` leaves the
broadcast of means out in its last round, what follows a verdict depends on it.
Each call moves the pair of the rank that makes it along the table, and in no
entry does a rank take data of a call other than its own. For `KMeansAgreed` the
table also says in which positions a rank's means are the root's.
Theorems: `ParallelInvariant`, `ParallelMatched`, `ParallelKMeansAgreed`.

**Means and clusters** (`MCParallelProofs`). `KMeansSettled` says that what
`parkmeans` prints is a fixed point: its means are those of the clusters, and each
number is in the cluster of the nearest mean. It follows from `KDataInv`, which
follows the data along the calls: `NumbersRead`, each rank has the number that was
scattered to it, once it has read it; and `ClustersRight`, a rank that has
contributed sums was put into a cluster by the means the root still has, its
contributions on the way are its number, a one and that cluster, and between the
two reductions the root has the sums of the numbers in each cluster. The
reductions are sums over the ranks (`SumsReduced`, `CountsReduced`); the means are
exact because `Scale` is a multiple of every size a cluster can have
(`ScaleAssumption`, `MeanExact`); and the root stops only if the new means are the
old ones, by which the clusters were chosen. Theorem: `ParallelKMeansSettled`.

**Triangles counted** (`MCParallelProofs`). `SumsAccount`, that no addition is lost
whichever threads emit and add, is inductive once the models' sums can be taken
apart (`MeshSums`): a call that has not begun, or makes no calls of its own, has
counted nothing (`TreeSums`), so that returning moves what a call has counted to
the sum of its creator, which by `CreatorAlive` is still there; in the loop a
thread's copy counts from when it enters the region to the reduction
(`LoopSums`). The triangles have to be those of cubes of the grid, which is
arithmetic: the offsets of the octants that lead to a leaf add up to less than the
grid's edge (`LeafCube`, where the fold of `CubeOf` is shown to be a sum,
`EdgeSumsAre`), and an iteration's digits are less than it (`IterationCube`).
Theorem: `ParallelSumsAccount`.

**Mesh returned** (`MCParallelProofs`). `MeshResult`, that the array which
`marchCubes()` returns holds the triangles of every cube of the grid, each once, is
said of the end alone. Its invariant `MeshDone` says of every moment that what the
stores hold is apart (`Apart`: no triangle in two places, and together those of a
set of cubes) and that the cubes are those of the leaves that are done (`TreeDone`)
or of the iterations that were handed out (`LoopDone`). Each cube is that of one
leaf, and of one iteration (`LeavesApart`, `LeafOfCube`, `IterationsApart`,
`IterationOfCube`): the octants that lead to a leaf are the binary digits of its
coordinates, an iteration's coordinates its digits in base `GridSize`, and digits
tell numbers apart (`DigitsTell`, `DigitsSum`). When the root's task is done so are
all leaves that are not in an empty block, and an empty block has no triangles
(`TreeBuiltAll`); when no iteration is left all were handed out once
(`ChunkOnce`). The merge puts the stores one after the other: what `FlattenSeq`
makes of sequences that are apart has each of their elements once (`FlattenApart`,
`MergedRight`). Theorem: `ParallelMeshResult`.

**Lists of parsplit** (`MCParallelProofs`). Assumed: a file that can be opened is a
sequence of bytes (`FilesAssumption`). What is kept of a sequence joined from parts
is what is kept of each part, one after the other (`ChosenLonger`, `KeptInParts`);
the displacements, sums over the ranks before, are where each begins, so that
`Placed` finds for every position the one rank it is of (`PlacedIs`). `SplitData`
follows the data along the calls: on its way from the root is the same median and
share, and the rank's part; on its way to it the lengths and lists of that part;
and the root has the lengths of all ranks before it puts lists together. As the
table of positions says which call the data at the head of a queue is of, each
call finds what it expects. Theorem: `ParallelSplitResult`. The filter is a
function of the module (`Chosen`), as the provers have no facts about `SelectSeq`.

**Hybrid channel** (`CoderProofs`). Assumed: the bounds are numbers; they
are arbitrary. `DeliveredPrinted` needs that every part on its way to the client
acknowledges an attempt that was printed (`AcksOfPrinted`): the client takes
parts from the front of the stream, as many as come, and compares them with the
acknowledgement of its current attempt; the server puts an acknowledgement at
the end in the step in which it prints. Theorems: `ChannelInvariant`,
`ChannelDeliveredPrinted`.

The framing invariant `FInv` makes `Whole` inductive: every part that is on its
way follows the one before it (`Chained`), the last one is where the client is
(`Ends`), and the first one is where the server is (`Begins`), also after a
message was sent in part and then again, when the server reads the remainder of
one attempt as the length of another. There `HugeAssumption` is used, that such
a length is not the one that marks the wait for a length. The attempts printed
are then the attempts made, in order (`PrintedEach`), which together with the
order of the texts (`TextsGrow`) gives the refinement: every step appends to what
`AtLeastOnce` has printed the same text again or the next one, or stutters.
Theorems: `ChannelFraming`, `ChannelWhole`, `ChannelRefinesAtLeastOnce`.

**Affine cipher** (`CoderProofs`). Assumed (`CipherAssumption`): user keys are pairs of
integers, texts are lines of words of letters, what is in memory before the table
of inverses are integers, and the candidate keys have an inverse, which
`findCandidateKeys` makes sure of. The words that are known are arbitrary.

1. *One letter*: the remainder that C++ takes, mended when it is negative, is that
   of mathematics (`ShiftedIs`). The product of a number and its entry in the table
   leaves the remainder 1 (`TableInverts`), also for keys of 26 and more
   (`KeyInverts`). Then decrypting undoes encrypting (`LetterRestored`), and
   encrypting undoes decrypting (`LetterEncryptedAgain`).
2. *One line*: tables that cancel on letters cancel on lines (`OnLettersCancel`), and
   the table a `Crypto` object has after `init()` is that of the new key, whatever
   the object was used for before (`FreshTable`).
3. *The analysis*: `AffineInv` keeps with the best key so far how many known words it
   shows in the line the program is at (`IsBest`), so that the comparison with
   the dictionary's key leaves one with a known word in five or with as many as any
   of the 312 keys (`ChosenKeyIs`). The key 0, 0 of a line in which nothing is known
   has no inverse and is never printed (`NoKeyHasNone`).

Theorem: `AffineLinesRestored`. Known words are counted as the positions that hold
one, as the provers have no facts about `SelectSeq`.

**LDPC coder** (`CoderProofs`). Assumed: `LdpcAssumption`, a message of two bits or
more. The linear algebra that the pages behind the code take for granted is
proved for matrices as the model has them, rows as sets of columns, and for every
matrix with two rows less than columns, of whatever rank:

1. *Parity*: the sum of two rows is odd where exactly one of them is (`OddSymDiff`),
   and a sum over a rectangle can be taken by rows or by columns (`OddByRows`);
2. *Row operations*: adding a row to some others, and exchanging two, can be undone
   and keeps the solutions (`AddedInvertible`, `AddedSolves`, and `SwapIsAdded`: an
   exchange is three additions);
3. *`gaussJordan`*: after each column every row is the combination of the rows of the
   original that the second matrix says it is (`Derived`), and the columns passed
   are reduced (`Reduced`): at the end the rows up to the last pivot are
   independent and the others empty (`GaussJordanReduces`);
4. *`codingMatrix`*: the second reduction leaves as many ones as there are pivots
   (`ReducedOnes`), so that the sum of its entries is the rank (`MessageBitsAre`); and
   what the rows of the steps beyond the rank generate are the code words, each
   once (`CodingMatrixGenerates`, which states `Generates`);
5. *`gaussElimination`*: a message that solves the system is its only solution at
   every column, and the columns passed are those of the identity (`Eliminated`), so
   that a pivot is always found (`EliminationFinds`). The program goes on for as many
   columns as there are rows. By then the rows below the last column are empty, and
   reading beyond a row or the matrix only exchanges or adds rows that are empty, of
   the matrix and of the vector, or finds nothing (`EliminationBeyond`);
6. *Substitution*: nothing is left to substitute, and the message is the vector
   (`SubstitutedIs`, `MessageOfItsWord`).

The invariant is `CoderInv`: the coding matrix, once there is one, generates exactly
the words that pass the checks. Theorem: `LdpcCodeWordsDecoded`. The columns of an
elimination are recursive functions in `BinaryMatrix`, as what they contain is then
proved by induction on columns (`Stepwise` of `SetInduction`).

**Depth-first search** (`MCSolversProofs`). Assumed: the space is finite
(`SpacesAssumption`) and limits are numbers. `StackContinues` - the chain, cut to
the depth of any item of the stack, leads to it - needs to know how long the
chain is (`ChainKept`: as long as the way to the item last inspected, or to the
top one, whichever is deeper), that depths grow along the stack, and that none
passes the limit. Theorems: `SolversDepthInvariant`, `SolversStackContinues`,
`SolversDepthSolution` (what is returned solves the game, within the limit).

**Search strategies** (`MCSolversProofs`). Assumed, besides: the null predecessor
is not a state (`NowhereAssumption`), and the heuristics are numbers
(`EstimatesAssumption`); that they are admissible is a condition of `Init`, as A*
promises nothing otherwise. Distances are those of `Reach`, the sets of states at
most so many steps away: they add up along a way (`ReachJoins`), and grow at
every step until they stay the same (`ReachSaturates`), so that the bounded search
for a distance in `Within` is a search without bound (`WithinIs`, `NearestIs`).
`SearchInv` has one part for each strategy:

1. *A\**: a known state was reached at its cost, its predecessor (but for the
   start) is known at a lower one, and the state is on the frontier or all its
   successors are known at no more than its cost and one (`AStarInv`). On any
   shortest way the last known state that has its least cost is therefore on the
   frontier (`AStarHolds`), and the admissible heuristic keeps its entry below that
   of a worse goal (`TopCost`). The cost of a state may be higher than the number of predecessors
   that lead back to the start, as these may have improved since; at the top of
   the frontier and final, it is not (`ActionsRoute`);
2. *DFS*: as long as a final state is within the limit, one is within what is left
   of it from some item of the stack (`DepthOpen`);
3. *BFS*: the queue holds states n steps from the start, then all discovered
   states n + 1 steps away (`Wave`); those nearer have been expanded; each was
   discovered from a state one step nearer (`Tree`), so that the way back has as
   many actions as the state is steps away (`WayIs`).

Theorems: `SolversSearchInvariant`, `SolversShortestWayOpen`, `SolversSearchResult`.

**Independent sets** (`MCSolversProofs`). Assumed: nodes are numbers and there is one
(`NodesAssumption`), and `InfinityAssumption`. For every graph, with or without
loops, and all choices:

1. *greedy*: `GreedyInv` relates the working graph, the output, and what has left
   the queue: a node that is gone was taken or is next to one that was;
2. *ramsey*: what `ramsey()` and its wheel-free sibling return is proved by
   induction on the size of the set they are called with. `RamseyLarge` is Ramsey's
   theorem for the pairs the code returns: the bound for a set is the sum of those
   for the neighbours and the others (Pascal's rule, which needs that the quotients
   of factorials are whole numbers, `SplitsExist`);
3. *bma*: `BmaInv` says of every entry of finite cost that it is the end of a path
   of as many nodes as rounds, independent and without repetition, and that its
   exclusions are those nodes with their neighbours; that costs stay below infinity
   (`CostBound`); and that a node that is not among the rest was excluded.

Theorems: `SolversGreedyInvariant`, `SolversRamseyLarge`, `SolversBmaInvariant`,
`SolversBmaPaths`, and `SolversMisResult` for all six solvers.

Induction over data. The library's induction theorems take an operator as
parameter, which the provers cannot instantiate. `SetInduction` states them with
sets: `MeasureInduction` (if an element is in G whenever all elements of smaller
measure are, all are in G) follows from the library's `WFMin`, and `Recursion`
(a definition whose right side looks at smaller elements only has a solution) from
that; a recursive function of the models is shown to be an instance
(`WheelFreeIs`, `RamseyIs`, `FactorialIs`), and then satisfies its equation. `Iterates`
gives the sequence in which a function is applied again and again, as A* follows
the predecessors back. The
community modules' folds are such functions behind their definitions
(`MapThenFoldSet`): `SumOver` is the sum of a function over a finite set
(`PartialSumsAre`), which does not depend on the order the fold happens to take
(`SumOverTakes`), and from which the lemmas on adding, changing and leaving out
elements follow; `FlattenSeq` is treated in the same way (`FlattenedSeq`).

Only model-checked: liveness (temporal induction under fairness is out of the
prover's reach). Every invariant that a passing run checks is stated by a theorem.

## 6. What the models leave out

* Parsing of uTP headers and extensions, bencoding, compact contact lists, DNS
  records: their results are the fields of the packets. Malformed input that is
  rejected before any state changes is left out.
* The peers and the DHT nodes are not code of this repository; what they send
  is modelled as far as the monitor reads it and marked external in the map,
  and so are MPI, TCP, OpenMP's scheduling, the game and the field.
* Logging and reports.
* Windows or delays beyond half a ring: the sequence numbers cannot tell such
  packets apart, and the code relies on the transport for that.
* Floating point; overflow of `int` products of user keys and letters.
* In `HybridChannel`, key files and the key manager; more than one client, which
  the server (a plain `TCPServer`) serves one after another and which share
  nothing but these files.
* In `LdpcCode`, the matrix that the user gives (`encoder.cpp:50-57`).
* In `GreedySolvers`, a read of an erased element (`RandomSolver.cpp:73`) returns
  what the element held; the runs do not show what else it could return.

### Not modelled

* UDP trackers, `tcp_tracer.py` and the composition of tracer, parser and
  registry: see the plan. No TCP flow leaves its first state as the code stands.
* ECDSA and the Turing machine of `1LS/FLP` and the iterator of `1LS/WAP`: pure
  functions of their input, in languages whose evaluation (laziness,
  backtracking, prototype chains) is most of what a model would consist of.
* Mandelbrot calculators of `0ZS/AVS`: floating point kernels on independent rows.
* The Dice Wars player of `0ZS/SUI`: a heuristic whose only partner, the game
  server, is not in the repository.
* `0ZS/UPA`, `0ZS/PDI`, `0ZS/MSP`, `0ZS/ZZN`: scripts whose state is in databases,
  web pages, Hadoop and notebooks.
* OGDF and COIN: vendored libraries. They are nearly all of the repository's
  C++, some 560 000 lines; its own C++ programs are about 4 400 lines together,
  so that the share of all C++ that the map covers is small however much of the
  repository's own code is modelled.

## 7. Plan

1. `TrackerMonitor`: the UDP tracker exchange on `Registry`; transaction ids of
   all trackers in one table.
2. `BtMonitor`: tracer, parser and registry composed, for what two connections
   between the same contacts do to one parser.
3. `TcpTracer`, on `UtpSegments`.
