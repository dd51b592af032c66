----------------------------- MODULE MCUtpTracer -----------------------------
(***************************************************************************)
(* UtpTracer on a small capture: two contacts, one connection id, so that  *)
(* both ends may open a connection at once, and packets of every type with *)
(* either connection id in every order, conforming to the protocol or not. *)
(* The initiator's numbers start next to the end of the ring and wrap.     *)
(***************************************************************************)
EXTENDS UtpTracer, TLC

CONSTANTS a, b

MCEnds == {a, b}
MCConnIds == {1}

Routes == {<<a, b>>, <<b, a>>}

Sent(types, connids, seqs) ==
  {[type |-> t, src |-> r[1], dst |-> r[2], connid |-> c, seq |-> s, data |-> s] :
     t \in types, r \in Routes, c \in connids, s \in seqs}

MCPackets ==
  Sent({"SYN"}, {1}, {Modulo - 2})
    \cup Sent({"FIN", "STATE", "RESET"}, {1, 2}, {Modulo - 1})
    \cup Sent({"DATA"}, {2}, {Modulo - 1, 0}) \cup Sent({"DATA"}, {1}, {Modulo - 1})

EndSymmetry == Permutations({a, b})
=============================================================================
