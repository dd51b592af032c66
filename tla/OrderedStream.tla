---------------------------- MODULE OrderedStream ----------------------------
(***************************************************************************)
(* What the reassembly of a flow promises to the protocol parsers: each    *)
(* direction hands over the packets 1, 2, 3, ... of its sender, in order,  *)
(* each once, a batch of consecutive packets of one direction at a time,   *)
(* until all NumPackets have been handed over.                             *)
(***************************************************************************)
EXTENDS Naturals, Sequences

CONSTANTS Channels, NumPackets

VARIABLE delivered

Batch(from, n) == [i \in 1 .. n |-> from + i]

Init == delivered = [c \in Channels |-> << >>]

Deliver(c, n) ==
  /\ Len(delivered[c]) + n \leq NumPackets
  /\ delivered' = [delivered EXCEPT ![c] = @ \o Batch(Len(@), n)]

Next == \E c \in Channels : \E n \in 1 .. NumPackets : Deliver(c, n)

Spec == Init /\ [][Next]_delivered

FairSpec ==
  Spec /\ \A c \in Channels :
            WF_delivered(\E n \in 1 .. NumPackets : Deliver(c, n))
=============================================================================
