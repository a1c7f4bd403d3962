--------------------------- MODULE MessageStream ----------------------------
(***************************************************************************)
(* What a session promises to the daemon, in one direction: messages       *)
(* arrive whole, once, and in the order in which they were sent, until the *)
(* receiving end closes; and as long as it does not close, all arrive. A   *)
(* receive that is under way when it closes may return one more: the next  *)
(* message, or bytes that are none.                                        *)
(***************************************************************************)
EXTENDS Naturals, Sequences

CONSTANTS
    Messages,
    Garbage    \* what is returned that is no message

VARIABLES
    sent,      \* what the sending end has begun to send
    received,  \* what transport_receive has returned
    phase      \* the receiving end is "open", "closing" or "closed"

vars == <<sent, received, phase>>

Init ==
    /\ sent = <<>>
    /\ received = <<>>
    /\ phase = "open"

Send(m) ==
    /\ sent' = Append(sent, m)
    /\ UNCHANGED <<received, phase>>

ReturnNext ==
    /\ Len(received) < Len(sent)
    /\ received' = Append(received, sent[Len(received) + 1])

Deliver ==
    /\ phase = "open"
    /\ ReturnNext
    /\ UNCHANGED <<sent, phase>>

Close ==
    /\ phase = "open"
    /\ phase' \in {"closing", "closed"}
    /\ UNCHANGED <<sent, received>>

\* The receive that was under way ends.
Finish ==
    /\ phase = "closing"
    /\ phase' = "closed"
    /\ \/ UNCHANGED received
       \/ ReturnNext
       \/ received' = Append(received, Garbage)
    /\ UNCHANGED sent

Next == (\E m \in Messages : Send(m)) \/ Deliver \/ Close \/ Finish

Safety == Init /\ [][Next]_vars

Spec == Safety /\ WF_vars(Deliver)
=============================================================================
