--------------------------- MODULE HybridChannel ---------------------------
(***************************************************************************)
(* client.py and server.py: the client sends each text until the server    *)
(* acknowledges it, over one TCP connection.                               *)
(*                                                                         *)
(* An attempt to send a text has keys of its own, so that only an attempt  *)
(* received whole can be decrypted, and only with the keys of the attempt  *)
(* it answers an acknowledgement.  The bytes of an attempt are four parts, *)
(* two of the length and two of the message; those of an acknowledgement   *)
(* are two.  TCP loses and reorders nothing, but may hand over the bytes   *)
(* in any pieces.                                                          *)
(***************************************************************************)
EXTENDS Integers, Sequences, SequencesExt, FiniteSets, FiniteSetsExt

CONSTANTS
  MaxRetries,    \* how often _send() repeats a message: 3
  MaxTexts,      \* the texts that the user enters (bound)
  MaxAttempts,   \* the attempts to send a text, all together (bound)
  Huge           \* a length that no message of the session reaches

ASSUME BoundsAssumption ==
  MaxRetries \in Nat /\ MaxTexts \in Nat /\ MaxAttempts \in Nat

\* -1 stands for the state WAITING_LEN.
ASSUME HugeAssumption == Huge # -1

VARIABLES
  pc,          \* where the client is in the loop of _run()
  sent,        \* sent[a]: the text of attempt a; the last one is current
  retries,     \* self.retries
  delivered,   \* the attempts that the client has reported as delivered
  toServer,    \* the parts on their way to the server
  toClient,    \* the parts on their way to the client
  buf,         \* the server's buf
  waitingFor,  \* waiting_for, -1 in state WAITING_LEN
  serving,     \* the request handler is running
  printed,     \* the attempts whose plaintext the server has printed
  torn         \* a message has been sent in part (history)

clientVars == <<pc, sent, retries, delivered, torn>>

serverVars == <<buf, waitingFor, serving, printed>>

channelVars == <<clientVars, serverVars, toServer, toClient>>

Part(a, i) == [attempt |-> a, part |-> i]

LengthParts(a) == <<Part(a, 1), Part(a, 2)>>

MessageParts(a) == <<Part(a, 3), Part(a, 4)>>

Payload(a) == LengthParts(a) \o MessageParts(a)

Ack(a) == <<Part(a, 1), Part(a, 2)>>

Attempts == 1 .. MaxAttempts

Current == Len(sent)

Texts == IF sent = << >> THEN 0 ELSE Last(sent)

ChannelInit ==
  /\ pc = "input"
  /\ sent = << >>
  /\ retries = 0
  /\ delivered = {}
  /\ toServer = << >>
  /\ toClient = << >>
  /\ buf = << >>
  /\ waitingFor = -1
  /\ serving = TRUE
  /\ printed = << >>
  /\ torn = FALSE

ClientEnded == pc \in {"halted", "crashed"}
-----------------------------------------------------------------------------
\* get_input(), then make_message(): new keys for the next text.
Enter ==
  /\ pc = "input"
  /\ Texts < MaxTexts /\ Current < MaxAttempts
  /\ sent' = Append(sent, Texts + 1)
  /\ pc' = "send"
  /\ UNCHANGED <<retries, delivered, torn, toServer, toClient, serverVars>>

\* What is sent to a handler that has ended may be accepted, but is lost.
Sent(parts) == IF serving THEN toServer \o parts ELSE toServer

Send ==
  /\ pc = "send"
  /\ toServer' = Sent(Payload(Current))
  /\ retries' = 0
  /\ pc' = "ack"
  /\ UNCHANGED <<sent, delivered, torn, toClient, serverVars>>

\* sendall() times out, which is an OSError, too, or finds the connection
\* closed; some parts may have been sent by then.
SendFails(n) ==
  /\ pc = "send"
  /\ toServer' = Sent(SubSeq(Payload(Current), 1, n))
  /\ IF retries < MaxRetries
       THEN retries' = retries + 1 /\ UNCHANGED pc
       ELSE pc' = "halted" /\ UNCHANGED retries
  /\ torn' = (torn \/ n > 0)
  /\ UNCHANGED <<sent, delivered, toClient, serverVars>>

\* _recv_ack() returns False: the text is sent again, with new keys.
Resend ==
  /\ Current < MaxAttempts
  /\ sent' = Append(sent, Texts)
  /\ pc' = "send"

\* recv(32) returns less than an acknowledgement.
RecvShort ==
  /\ pc = "ack" /\ toClient # << >>
  /\ Resend
  /\ toClient' = Tail(toClient)
  /\ UNCHANGED <<retries, delivered, torn, toServer, serverVars>>

\* Slip: the digest of the acknowledgement is not compared.
AnswersSlip(parts) == parts \in {Ack(a) : a \in Attempts}

\* Anything but the acknowledgement of the current attempt decrypts to
\* something of another length or with another digest.
Answers(parts) == parts = Ack(Current)

RecvAck ==
  /\ pc = "ack" /\ Len(toClient) >= 2
  /\ LET parts == SubSeq(toClient, 1, 2)
     IN  delivered' = IF Answers(parts) THEN delivered \cup {Current} ELSE delivered
  /\ toClient' = SubSeq(toClient, 3, Len(toClient))
  /\ pc' = "input"
  /\ UNCHANGED <<sent, retries, torn, toServer, serverVars>>

\* The server has closed the connection: recv() returns nothing, or raises a
\* ConnectionResetError, which nobody catches.
RecvNothing ==
  /\ pc = "ack" /\ toClient = << >> /\ ~serving
  /\ \/ Resend
     \/ pc' = "crashed" /\ UNCHANGED sent
  /\ UNCHANGED <<retries, delivered, torn, toServer, toClient, serverVars>>

\* Slip: the socket has no timeout.
RecvTimeoutSlip ==
  /\ pc = "ack" /\ toClient = << >> /\ ~serving
  /\ pc' = "halted"
  /\ UNCHANGED <<sent, retries, delivered, torn, toServer, toClient, serverVars>>

\* No acknowledgement for SOCK_TIMEOUT seconds.
RecvTimeout ==
  /\ pc = "ack" /\ toClient = << >> /\ serving
  /\ pc' = "halted"
  /\ UNCHANGED <<sent, retries, delivered, torn, toServer, toClient, serverVars>>

Client ==
  \/ Enter
  \/ Send
  \/ \E n \in 0 .. 3 : SendFails(n)
  \/ RecvShort
  \/ RecvAck
  \/ RecvNothing
  \/ RecvTimeout
-----------------------------------------------------------------------------
\* process_data() goes on as long as the buffer holds a length or a message.
CanReadLength == waitingFor = -1 /\ Len(buf) >= 2

CanProcess == waitingFor # -1 /\ waitingFor # Huge /\ Len(buf) >= waitingFor

\* recv(2048) of handle().
Receive(n) ==
  /\ serving
  /\ ~CanReadLength /\ ~CanProcess
  /\ n \in 1 .. Len(toServer)
  /\ buf' = buf \o SubSeq(toServer, 1, n)
  /\ toServer' = SubSeq(toServer, n + 1, Len(toServer))
  /\ UNCHANGED <<clientVars, toClient, waitingFor, serving, printed>>

\* Parts that are not a length give any number.
Lengths(parts) ==
  IF \E a \in Attempts : parts = LengthParts(a) THEN {2} ELSE {0, 1, 2, 3, Huge}

ReadLength ==
  /\ serving /\ CanReadLength
  /\ waitingFor' \in Lengths(SubSeq(buf, 1, 2))
  /\ buf' = SubSeq(buf, 3, Len(buf))
  /\ UNCHANGED <<clientVars, toServer, toClient, serving, printed>>

\* Slip: the message is not taken out of the buffer.
RestSlip == buf

Rest == SubSeq(buf, waitingFor + 1, Len(buf))

\* Slip: a message that does not decrypt is skipped.
ProcessMessageSlip ==
  /\ serving /\ CanProcess
  /\ buf' = Rest
  /\ waitingFor' = -1
  /\ LET read == {a \in Attempts : SubSeq(buf, 1, waitingFor) = MessageParts(a)}
     IN  /\ printed' = printed \o SetToSeq(read)
         /\ toClient' = IF read = {} THEN toClient ELSE toClient \o Ack(Max(read))
  /\ UNCHANGED <<clientVars, toServer, serving>>

\* process_message(): a message is printed and acknowledged; anything else does
\* not decrypt, and the error ends the handler.  The answer to a client that
\* has gone fails, too.
ProcessMessage ==
  /\ serving /\ CanProcess
  /\ buf' = Rest
  /\ waitingFor' = -1
  /\ LET read == {a \in Attempts : SubSeq(buf, 1, waitingFor) = MessageParts(a)}
     IN  /\ printed' = printed \o SetToSeq(read)
         /\ toClient' = IF read = {} THEN toClient ELSE toClient \o Ack(Max(read))
         /\ serving' \in IF read = {} THEN {FALSE} ELSE IF ClientEnded THEN BOOLEAN ELSE {TRUE}
  /\ UNCHANGED <<clientVars, toServer>>

\* The client is gone: recv() returns nothing once everything is read, or fails
\* at once if acknowledgements were left unread.
HandlerEnds ==
  /\ serving
  /\ ~CanReadLength /\ ~CanProcess
  /\ ClientEnded
  /\ toServer = << >> \/ toClient # << >>
  /\ serving' = FALSE
  /\ UNCHANGED <<clientVars, toServer, toClient, buf, waitingFor, printed>>

ServerStep ==
  \/ \E n \in 1 .. 4 : Receive(n)
  \/ ReadLength
  \/ ProcessMessage
  \/ HandlerEnds

ChannelNext == Client \/ ServerStep

\* Both processes run; recv() of the client returns or times out.
ChannelSpec ==
  /\ ChannelInit /\ [][ChannelNext]_channelVars
  /\ WF_channelVars(Client)
  /\ WF_channelVars(ServerStep)
-----------------------------------------------------------------------------
\* "The message has been delivered": the server has printed the very attempt
\* that the client waits for, although acknowledgements of earlier attempts may
\* still be on their way.
DeliveredPrinted == delivered \subseteq ToSet(printed)

\* The connection as the user of the two programs sees it.
Promise == INSTANCE AtLeastOnce
             WITH entered <- Texts,
                  printed <- [i \in DOMAIN printed |-> sent[printed[i]]]

\* Texts are printed in the order they were entered, perhaps repeatedly, and
\* none is left out: not by a retry of half a message, nor by acknowledgements
\* that come late or in pieces, nor by a message cut anywhere.
AtLeastOnceInOrder == Promise!ChannelSpec

\* As long as no message was sent in part and then again, the server finds the
\* beginning and the end of every message, however TCP cuts the stream.
Whole ==
  serving /\ ~torn =>
    /\ CanReadLength => \E a \in Attempts : SubSeq(buf, 1, 2) = LengthParts(a)
    /\ CanProcess => \E a \in Attempts : SubSeq(buf, 1, waitingFor) = MessageParts(a)

\* Every text that is entered is printed, or the session ends: the server does
\* not wait for the rest of a message, and the client for its acknowledgement,
\* for ever.  (Or the attempts of the model are used up.)
TextsSettled ==
  \A t \in 1 .. MaxTexts :
    Texts >= t ~> \/ \E a \in ToSet(printed) : sent[a] = t
                  \/ ClientEnded \/ ~serving \/ Current = MaxAttempts
=============================================================================
