----------------------------- MODULE MCBtpParser -----------------------------
(***************************************************************************)
(* BtpParser with a handshake of 3 bytes and prefixes of 2, so that a      *)
(* segment can end inside each of them, on streams of messages chosen to   *)
(* update every field of the report more than once.                        *)
(***************************************************************************)
EXTENDS BtpParser

Item(kind, len, arg) == [kind |-> kind, len |-> len, arg |-> arg, number |-> 0, name |-> NoName]
ExtHandshake(name, number) ==
  [kind |-> "exthandshake", len |-> 2, arg |-> 0, number |-> number, name |-> name]
Extended(number) ==
  [kind |-> "extended", len |-> 2, arg |-> 1, number |-> number, name |-> NoName]

KeepAlive == Item("keepalive", 0, 0)
Choke == Item("plain", 1, 0)
Piece == Item("piece", 3, 0)
Bitfield(bytes) == Item("bitfield", 1 + bytes, bytes)
Request(reach) == Item("request", 2, reach)
Cancel(reach) == Item("cancel", 2, reach)

Downloads ==
  {<<Bitfield(1), KeepAlive, Request(reach), Piece, Cancel(again), Piece, Bitfield(2)>> :
     reach \in 0 .. 5, again \in {0, 4, 6}}

Extensions ==
  {<<ExtHandshake("ut_pex", 1), Extended(1), ExtHandshake(name, number), Extended(1), Choke,
     KeepAlive, Extended(2)>> :
     name \in ExtNames, number \in 0 .. 2}

MCStreams ==
  [ok : {TRUE}, items : Downloads \cup Extensions]
    \cup [ok : {FALSE}, items : {<<KeepAlive, Request(4), Piece>>}]
=============================================================================
