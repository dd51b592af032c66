---------------------------- MODULE MCUtpSession ----------------------------
(***************************************************************************)
(* UtpSession between two contacts: one long session whose numbers wrap in *)
(* both directions, and three short ones, two of them from the same end.   *)
(***************************************************************************)
EXTENDS UtpSession

CONSTANTS a, b

MCEnds == {a, b}

MCIsn == [d \in Dirs |-> Modulo - 1 - d]

OneSession == {[ini |-> a, acc |-> b, connid |-> 1, isn |-> MCIsn]}

\* Neighbouring ids from one end, so that the id of one session's SYN is the
\* id of the other's data, and a session that the other end opens.
\* The look-up tells only SYNs from other packets, so FINs and STATEs stand for
\* data here.
ParallelSessions ==
  {[ini |-> a, acc |-> b, connid |-> 1, isn |-> MCIsn],
   [ini |-> a, acc |-> b, connid |-> 2, isn |-> MCIsn],
   [ini |-> b, acc |-> a, connid |-> 4, isn |-> MCIsn]}

MCConnIds == {s.connid : s \in Sessions}

MCPackets == UNION {Outgoing(s, d, Done) : s \in Sessions, d \in Dirs}
=============================================================================
