------------------------------ MODULE Transport ------------------------------
(***************************************************************************)
(* How the two sides of Ex4 put messages on a TCP stream: a size, then as  *)
(* many bytes, in as many calls of send and recv as it takes.  Delivery    *)
(* puts the steps together with those of the threads that send.            *)
(***************************************************************************)
EXTENDS Integers, Sequences

CONSTANTS
  SIZE_BYTES,       \* sizeof(int)
  MessageLen        \* the messages, by what get_message_len says of them

ConstantsOK ==
  SIZE_BYTES \in Nat \ {0} /\ MessageLen \in Seq(Nat \ {0})

Message == DOMAIN MessageLen

VARIABLES
  called,         \* calls of SendString so far: the messages are sent in order
  to_send,        \* the buffers SendBuffer has still to send
  stream,         \* bytes on their way
  link,           \* "open", "shut" by the sender, "broken"
  receiving,      \* which of its two buffers ReceiveString fills
  got,            \* bytes in that buffer
  want,           \* bytes still missing in it
  received,       \* what ReceiveString has returned
  recv_res        \* its last result

sender == <<called, to_send>>
receiver == <<receiving, got, want, received, recv_res>>
vars == <<sender, stream, link, receiver>>

(* A byte is known by its message, its buffer, and its place there.        *)
Byte(m, part, k) == [m |-> m, part |-> part, k |-> k]

(* One byte more than the message: whatever lies behind its line end.      *)
TotalStringSizeInBytes(m) == MessageLen[m] + 1

size_buffer(m) == [k \in 1 .. SIZE_BYTES |-> Byte(m, "size", k)]
string_buffer(m) == [k \in 1 .. TotalStringSizeInBytes(m) |-> Byte(m, "string", k)]

Init ==
  /\ called = 0 /\ to_send = <<>>
  /\ stream = <<>> /\ link = "open"
  /\ receiving = "size" /\ got = <<>> /\ want = SIZE_BYTES
  /\ received = <<>> /\ recv_res = "TRNS_SUCCEEDED"
-----------------------------------------------------------------------------
(* SendString of the next message.                                         *)
CallSendString ==
  /\ to_send = <<>> /\ called + 1 \in Message
  /\ called' = called + 1
  /\ to_send' = <<size_buffer(called'), string_buffer(called')>>
  /\ UNCHANGED <<stream, link, receiver>>

(* Variant: what one call of send took is taken for the whole buffer.      *)
after_send_Whole(n) == Tail(to_send)
(* What remains after n bytes; a finished buffer makes way for the next.   *)
after_send(n) ==
  IF n = Len(Head(to_send)) THEN Tail(to_send)
  ELSE <<SubSeq(Head(to_send), n + 1, Len(Head(to_send)))>> \o Tail(to_send)

SendSome ==
  /\ to_send # <<>> /\ link = "open"
  /\ \E n \in 1 .. Len(Head(to_send)) :
       /\ stream' = stream \o SubSeq(Head(to_send), 1, n)
       /\ to_send' = after_send(n)
  /\ UNCHANGED <<called, link, receiver>>

(* An error of send: TRNS_FAILED, the rest of the message is given up.     *)
SendFails ==
  /\ to_send # <<>> /\ link # "open"
  /\ to_send' = <<>>
  /\ UNCHANGED <<called, stream, link, receiver>>
-----------------------------------------------------------------------------
(* ReceiveString: ReceiveBuffer for the size, then for the string.         *)

(* The number that the bytes of a size buffer stand for.                   *)
size_in(bytes) ==
  IF \E m \in Message : bytes = size_buffer(m)
  THEN TotalStringSizeInBytes(bytes[1].m) ELSE 1

message_in(bytes) ==
  IF \E m \in Message : bytes = string_buffer(m)
  THEN bytes[1].m ELSE 0

(* Variant: each call of recv asks for the whole buffer again.             *)
may_take_All == want + Len(got)
may_take == want

BufferFull(bytes) ==
  IF receiving = "size"
  THEN /\ receiving' = "string" /\ got' = <<>> /\ want' = size_in(bytes)
       /\ UNCHANGED received
  ELSE /\ received' = Append(received, message_in(bytes))
       /\ receiving' = "size" /\ got' = <<>> /\ want' = SIZE_BYTES

ReceiveSome ==
  /\ recv_res = "TRNS_SUCCEEDED" /\ stream # <<>>
  /\ \E n \in 1 .. may_take :
       /\ n <= Len(stream)
       /\ LET bytes == got \o SubSeq(stream, 1, n) IN
          IF n >= want THEN BufferFull(bytes)
          ELSE got' = bytes /\ want' = want - n /\ UNCHANGED <<receiving, received>>
       /\ stream' = SubSeq(stream, n + 1, Len(stream))
  /\ UNCHANGED <<sender, link, recv_res>>

(* recv returns zero once the other side has shut down, an error when the  *)
(* connection is broken; what was received of the message is dropped.      *)
ReceiveEnd ==
  /\ recv_res = "TRNS_SUCCEEDED"
  /\ \/ link = "shut" /\ stream = <<>> /\ recv_res' = "TRNS_DISCONNECTED"
     \/ link = "broken" /\ recv_res' = "TRNS_FAILED"
  /\ got' = <<>>
  /\ UNCHANGED <<sender, stream, link, receiving, want, received>>
-----------------------------------------------------------------------------
(* The sender's side is shut down, by another of its threads perhaps in    *)
(* the middle of a message, or the connection breaks.                      *)
Shut ==
  /\ link = "open"
  /\ link' = "shut"
  /\ UNCHANGED <<sender, stream, receiver>>

Break ==
  /\ link = "open"
  /\ link' = "broken"
  /\ UNCHANGED <<sender, stream, receiver>>
=============================================================================
