----------------------------- MODULE Transport ------------------------------
(***************************************************************************)
(* One direction of a session (transport/session.cpp, protocol/codec.cpp,  *)
(* the wrappers of daemon.cpp): several threads send, one thread receives. *)
(* The stream is a sequence of bytes; a byte is named by the message it    *)
(* belongs to (its place in the order of sending) and its place in that    *)
(* message's frame, which is a header and a payload.                       *)
(*                                                                         *)
(* transport_receive is split where another thread can come in between:    *)
(* before the call ("idle"), at the top of its loop ("check"), in the read *)
(* ("read") and after it ("insert").                                       *)
(***************************************************************************)
EXTENDS Integers, Sequences

CONSTANTS
    Senders,         \* threads that send on the session
    Payloads,        \* payload sizes they try
    HeaderSize,      \* HEADER_SIZE
    MaxMessageSize,  \* MAX_MESSAGE_SIZE
    MaxBufferSize,   \* MAX_RECV_BUFFER_SIZE
    ChunkSize,       \* RECV_CHUNK_SIZE
    MaxSends         \* bound: messages sent

ASSUME SizesAssumption ==
    /\ HeaderSize \in Nat \ {0}
    /\ ChunkSize \in Nat \ {0}
    /\ MaxMessageSize \in Nat
    /\ MaxBufferSize \in Nat
    /\ HeaderSize <= MaxMessageSize
    /\ MaxMessageSize <= MaxBufferSize
    /\ Payloads \subseteq Nat
    /\ MaxSends \in Nat

VARIABLES
    accepted,      \* payload sizes of the messages sent, in order
    unwritten,     \* what each sender has still to write of its message
    senderOpen,    \* is_open at the sending end
    wire,          \* written, not yet read
    pc,            \* where the receiving thread is
    chunk,         \* read, not yet in recv_buffer
    recvBuffer,    \* recv_buffer of the receiving end
    receiverOpen,  \* is_open at the receiving end
    dropped,       \* tls_receive has freed the receiving end's TLS session
    received,      \* the messages transport_receive returned
    report         \* how the last transport_receive that failed did so

sendVars == <<accepted, unwritten, senderOpen>>
recvVars == <<pc, chunk, recvBuffer, receiverOpen, dropped, received, report>>
sessionVars == <<sendVars, wire, recvVars>>

Corrupt == 0   \* what is returned when the bytes are not one message's

Byte == [msg : 1 .. MaxSends, pos : Nat]

Reports == {"none", "timeout", "closed", "truncated", "header", "overflow", "error"}

SessionTypeOK ==
    /\ accepted \in Seq(Payloads)
    /\ unwritten \in [Senders -> Seq(Byte)]
    /\ senderOpen \in BOOLEAN
    /\ wire \in Seq(Byte)
    /\ pc \in {"idle", "check", "read", "insert"}
    /\ chunk \in Seq(Byte)
    /\ Len(chunk) <= ChunkSize
    /\ recvBuffer \in Seq(Byte)
    /\ Len(recvBuffer) <= MaxBufferSize
    /\ receiverOpen \in BOOLEAN
    /\ dropped \in BOOLEAN
    /\ received \in Seq(0 .. MaxSends)
    /\ report \in Reports

SessionInit ==
    /\ accepted = <<>>
    /\ unwritten = [s \in Senders |-> <<>>]
    /\ senderOpen = TRUE
    /\ wire = <<>>
    /\ pc = "idle"
    /\ chunk = <<>>
    /\ recvBuffer = <<>>
    /\ receiverOpen = TRUE
    /\ dropped = FALSE
    /\ received = <<>>
    /\ report = "none"

-----------------------------------------------------------------------------
(* Sending.                                                                *)

\* Mutant: the header is not counted.
ValidPayload(size) == size <= MaxMessageSize

\* message_validate: the frame must not exceed the limit.
Valid(size) == HeaderSize + size <= MaxMessageSize

\* message_encode of the n-th message.
Frame(n, size) == [i \in 1 .. HeaderSize + size |-> [msg |-> n, pos |-> i]]

\* Mutant: senders do not exclude each other.
AlwaysMayStart == TRUE

\* send_mutex is free.
MayStart == \A s \in Senders : unwritten[s] = <<>>

\* send_on_session, transport_send up to the first write. A message that does
\* not validate changes nothing.
StartSend(s, size) ==
    /\ senderOpen
    /\ Len(accepted) < MaxSends
    /\ MayStart
    /\ unwritten[s] = <<>>
    /\ Valid(size)
    /\ accepted' = Append(accepted, size)
    /\ unwritten' = [unwritten EXCEPT ![s] = Frame(Len(accepted) + 1, size)]
    /\ UNCHANGED <<senderOpen, wire, recvVars>>

\* One write takes some of the bytes.
Write(s) ==
    /\ senderOpen
    /\ \E k \in 1 .. Len(unwritten[s]) :
          /\ wire' = wire \o SubSeq(unwritten[s], 1, k)
          /\ unwritten' = [unwritten EXCEPT ![s] = SubSeq(@, k + 1, Len(@))]
    /\ UNCHANGED <<accepted, senderOpen, recvVars>>

\* A write fails, or the sending end closes for another reason: the rest of
\* the message is never written.
SenderCloses ==
    /\ senderOpen
    /\ senderOpen' = FALSE
    /\ unwritten' = [s \in Senders |-> <<>>]
    /\ UNCHANGED <<accepted, wire, recvVars>>

-----------------------------------------------------------------------------
(* Receiving.                                                              *)

\* transport_close empties the buffer.
CloseReceiver ==
    /\ receiverOpen' = FALSE
    /\ recvBuffer' = <<>>

Return(r) ==
    /\ pc' = "idle"
    /\ report' = r

\* The first n bytes of the buffer are the first n of one frame.
Whole(n) ==
    \A i \in 1 .. n : recvBuffer[i] = [msg |-> recvBuffer[1].msg, pos |-> i]

\* message_peek_size: the size the header declares. Bytes that are not a header
\* may be refused (0) or look like a header of any size.
Declared ==
    IF Whole(HeaderSize)
    THEN {HeaderSize + accepted[recvBuffer[1].msg]}
    ELSE {0} \cup HeaderSize .. MaxMessageSize

HasHeader == Len(recvBuffer) >= HeaderSize

\* Mutant: one byte more is wanted.
CompleteAndMore(size) == Len(recvBuffer) > size

\* The buffer holds the whole frame.
Complete(size) == Len(recvBuffer) >= size

\* What is left in the buffer after a frame was taken out.
Rest(size) == SubSeq(recvBuffer, size + 1, Len(recvBuffer))

\* A worker calls transport_receive while the session is open.
Receive ==
    /\ pc = "idle"
    /\ receiverOpen
    /\ pc' = "check"
    /\ UNCHANGED <<sendVars, wire, chunk, recvBuffer, receiverOpen, dropped, received, report>>

\* The header declares a message that is complete: it is returned.
TakeMessage ==
    /\ pc = "check"
    /\ HasHeader
    /\ \E size \in Declared :
          /\ size \in HeaderSize .. MaxMessageSize
          /\ Complete(size)
          /\ received' = Append(received, IF Whole(size) THEN recvBuffer[1].msg ELSE Corrupt)
          /\ recvBuffer' = Rest(size)
    /\ pc' = "idle"
    /\ UNCHANGED <<sendVars, wire, chunk, receiverOpen, dropped, report>>

\* The header is refused.
RefuseHeader ==
    /\ pc = "check"
    /\ HasHeader
    /\ \E size \in Declared : size \notin HeaderSize .. MaxMessageSize
    /\ CloseReceiver
    /\ Return("header")
    /\ UNCHANGED <<sendVars, wire, chunk, dropped, received>>

\* No complete message: read more, or give up when the buffer is full.
NeedMore ==
    /\ pc = "check"
    /\ \/ ~HasHeader
       \/ HasHeader /\ \E size \in Declared : size \in HeaderSize .. MaxMessageSize /\ ~Complete(size)
    /\ IF Len(recvBuffer) >= MaxBufferSize
       THEN CloseReceiver /\ Return("overflow")
       ELSE pc' = "read" /\ UNCHANGED <<recvBuffer, receiverOpen, report>>
    /\ UNCHANGED <<sendVars, wire, chunk, dropped, received>>

\* Mutant: the room left is not looked at.
ReadFullChunk == ChunkSize

\* The read returns as much as there is, as fits into the chunk, and as the
\* buffer has room for.
ReadSize ==
    IF MaxBufferSize - Len(recvBuffer) < ChunkSize
    THEN MaxBufferSize - Len(recvBuffer) ELSE ChunkSize

Read ==
    /\ pc = "read"
    /\ receiverOpen
    /\ ~dropped
    /\ \E k \in 1 .. ReadSize :
          /\ k <= Len(wire)
          /\ chunk' = SubSeq(wire, 1, k)
          /\ wire' = SubSeq(wire, k + 1, Len(wire))
    /\ pc' = "insert"
    /\ UNCHANGED <<sendVars, recvBuffer, receiverOpen, dropped, received, report>>

\* The bytes read go to the end of the buffer; is_open is not looked at again.
Insert ==
    /\ pc = "insert"
    /\ recvBuffer' = recvBuffer \o chunk
    /\ chunk' = <<>>
    /\ pc' = "check"
    /\ UNCHANGED <<sendVars, wire, receiverOpen, dropped, received, report>>

\* The receive timeout: the part of a message that is there stays, and so does
\* is_open. The TLS session stays if OpenSSL reports SSL_ERROR_SYSCALL; when it
\* reports SSL_ERROR_WANT_READ, as for the EAGAIN of a POSIX socket, tls_receive
\* frees it, and every later receive fails at once, like a timeout while errno
\* is still EAGAIN, or by ReadError.
Timeout ==
    /\ pc = "read"
    /\ receiverOpen
    /\ Return("timeout")
    /\ dropped' \in {dropped, TRUE}
    /\ UNCHANGED <<sendVars, wire, chunk, recvBuffer, receiverOpen, received>>

\* The other end closed and everything has been read. The buffer is emptied
\* before it is looked at.
EndReport == IF recvBuffer' # <<>> THEN "truncated" ELSE "closed"

ReadEnd ==
    /\ pc = "read"
    /\ receiverOpen
    /\ ~dropped
    /\ ~senderOpen
    /\ wire = <<>>
    /\ CloseReceiver
    /\ Return(EndReport)
    /\ UNCHANGED <<sendVars, wire, chunk, dropped, received>>

\* The read fails, because the connection did or because the session was closed
\* by another thread meanwhile.
ReadError ==
    /\ pc = "read"
    /\ CloseReceiver
    /\ Return("error")
    /\ UNCHANGED <<sendVars, wire, chunk, dropped, received>>

\* close_session, which takes receive_mutex as well as send_mutex.
CloseSession ==
    /\ pc = "idle"
    /\ receiverOpen
    /\ CloseReceiver
    /\ UNCHANGED <<sendVars, wire, pc, chunk, dropped, received, report>>

\* Another thread's transport_send on the same session fails: it closes the
\* session under send_mutex only, wherever the receiving thread is.
OwnSendFails ==
    /\ receiverOpen
    /\ CloseReceiver
    /\ UNCHANGED <<sendVars, wire, pc, chunk, dropped, received, report>>

-----------------------------------------------------------------------------
SessionNext ==
    \/ \E s \in Senders, size \in Payloads : StartSend(s, size)
    \/ \E s \in Senders : Write(s)
    \/ SenderCloses
    \/ Receive \/ TakeMessage \/ RefuseHeader \/ NeedMore
    \/ Read \/ Insert \/ Timeout \/ ReadEnd \/ ReadError
    \/ CloseSession \/ OwnSendFails

\* Threads run; bytes on the wire arrive although a read may time out first
\* any number of times, as long as the TLS session is there to read them.
Fairness ==
    /\ \A s \in Senders : WF_sessionVars(Write(s))
    /\ WF_sessionVars(Receive)
    /\ WF_sessionVars(TakeMessage \/ RefuseHeader \/ NeedMore)
    /\ SF_sessionVars(Read)
    /\ WF_sessionVars(Insert)
    /\ SF_sessionVars(ReadEnd)

SessionSpec == SessionInit /\ [][SessionNext]_sessionVars

SessionFairSpec == SessionSpec /\ Fairness

-----------------------------------------------------------------------------
\* The messages sent, by number.
Numbers == [i \in 1 .. Len(accepted) |-> i]

\* The session as its users see it: closing while a receive is under way that
\* began before the close, closed when nothing can be received any more.
Phase ==
    IF dropped THEN "closed"
    ELSE IF receiverOpen THEN "open"
    ELSE IF pc = "idle" THEN "closed" ELSE "closing"

Stream == INSTANCE MessageStream WITH
    Messages <- 1 .. MaxSends, Garbage <- Corrupt,
    sent <- Numbers, received <- received, phase <- Phase

(***************************************************************************)
(* A session is a message stream: transport_receive returns the messages   *)
(* whole and in order, whatever the pieces they arrive in, the senders     *)
(* waiting for each other and the timeouts in between; and each one        *)
(* arrives unless the receiving end closes, which any thread that shares   *)
(* the session may make it do at any moment, or loses its TLS session in a *)
(* timeout. A receive that the close overtakes, whose buffer it empties    *)
(* before the bytes just read are put there (session.cpp:276, under        *)
(* send_mutex only), hands over at most one more message, the next one or  *)
(* a piece taken for one, and nothing follows.                             *)
(***************************************************************************)
IsMessageStream == Stream!Spec

(***************************************************************************)
(* The receiving end never closes because its buffer is full or because of *)
(* a header it refuses, while it is open and the other end only sends what *)
(* message_encode makes: the limits of the two ends fit together.          *)
(***************************************************************************)
HonestStreamNotRefused ==
    [][report' \in {"overflow", "header"} => ~receiverOpen]_sessionVars
=============================================================================
